---------------------------- MODULE PagingProofs -----------------------------
(* Proofs about Paging: what one call of malloc records, and then what     *)
(* holds of the memory between any two operations.                         *)
EXTENDS Paging, WellFoundedInduction, TLAPS

(* What malloc records in the header it computed from the bytes asked for  *)
(* (heap.c 61-68), whatever became of the mapping.                         *)
HeaderInv == \A b \in blocks : b.bytes \in Sizes /\ b.pages = PagesFor(b.bytes)

(* A quotient times its divisor falls short of the dividend by less than   *)
(* the divisor.                                                            *)
LEMMA Rounding ==
    ASSUME NEW x \in Nat, NEW d \in Nat \ {0}
    PROVE  x - d < (x \div d) * d
<1> DEFINE q == x \div d
           r == x % d
<1>1. q \in Int /\ r \in 0..(d - 1) /\ x = d * q + r
  BY SMT
<1>2. d * q = q * d
  BY <1>1, SMT
<1> HIDE DEF q, r
<1>3. x = q * d + r
  BY <1>1, <1>2, SMT
<1>4. q * d \in Int
  BY <1>1, SMT
<1> DEFINE p == q * d
<1>5. p \in Int /\ x = p + r /\ r < d /\ d \in Int /\ r \in Int
  BY <1>1, <1>3, <1>4
<1> HIDE DEF p
<1>6. x - d < p
  BY <1>5, SMT
<1> QED
  BY <1>6 DEF p, q

(* The pages of malloc hold the header and the bytes asked for, as long as *)
(* the 32-bit sum that rounds them up does not wrap.                       *)
LEMMA PagesSuffice ==
    ASSUME NEW bytes \in Nat, bytes + Header + PageSize - 1 < Word
    PROVE  bytes + Header <= PagesFor(bytes) * PageSize
<1> DEFINE sum == bytes + Header + PageSize - 1
<1>1. PageSize \in Nat \ {0} /\ Header \in Nat
  BY PagingAssumption
<1>2. sum \in Nat /\ sum % Word = sum
  <2>1. sum \in Nat /\ sum < Word /\ Word \in Nat \ {0}
    BY <1>1, PagingAssumption
  <2> HIDE DEF sum
  <2> QED
    BY <2>1, SMT
<1>3. sum - PageSize < (sum \div PageSize) * PageSize
  BY <1>1, <1>2, Rounding
<1>4. PagesFor(bytes) = sum \div PageSize
  BY <1>2 DEF PagesFor
<1>5. (sum \div PageSize) * PageSize \in Int
  BY <1>1, <1>2, SMT
<1> DEFINE room == (sum \div PageSize) * PageSize
<1>6. room \in Int /\ sum - PageSize < room /\ sum = bytes + Header + PageSize - 1
  BY <1>3, <1>5
<1> HIDE DEF room, sum
<1>7. bytes + Header <= room
  BY <1>1, <1>6, SMT
<1> QED
  BY <1>4, <1>7 DEF room

(* No operation changes what is recorded.                                  *)
LEMMA HeaderStep ==
    ASSUME HeaderInv, [Next]_vars
    PROVE  HeaderInv'
<1>1. CASE UNCHANGED vars
  BY <1>1 DEF HeaderInv, vars
<1>2. ASSUME NEW bytes \in Sizes, NEW user \in BOOLEAN, Malloc(bytes, user)
      PROVE  HeaderInv'
  <2> PICK m \in {malloc(mem, cr3, bytes, user)} :
        blocks' = IF m.stop THEN blocks
                  ELSE blocks \cup {[page |-> m.virt, pages |-> PagesFor(bytes),
                                     phys |-> m.phys, user |-> user, bytes |-> bytes]}
    BY <1>2 DEF Malloc
  <2> DEFINE new == [page |-> m.virt, pages |-> PagesFor(bytes), phys |-> m.phys,
                     user |-> user, bytes |-> bytes]
  <2>1. blocks' = blocks \/ blocks' = blocks \cup {new}
    OBVIOUS
  <2>2. new.bytes \in Sizes /\ new.pages = PagesFor(new.bytes)
    OBVIOUS
  <2> HIDE DEF new
  <2> QED
    BY <2>1, <2>2 DEF HeaderInv
<1>3. ASSUME NEW b \in blocks, Free(b)
      PROVE  HeaderInv'
  BY <1>3 DEF Free, HeaderInv
<1>4. ASSUME NEW prog \in Programs, Load(prog)
      PROVE  HeaderInv'
  BY <1>4 DEF Load, HeaderInv
<1> QED
  BY <1>1, <1>2, <1>3, <1>4 DEF Next

(* malloc never returns a block that is shorter than was asked for, unless *)
(* the rounded size does not fit into 32 bits (heap.c 61).                 *)
THEOREM BlocksLongEnough == Spec => []BlockLongEnough
<1>1. Init => HeaderInv
  BY DEF Init, HeaderInv
<1>2. HeaderInv /\ [Next]_vars => HeaderInv'
  BY HeaderStep
<1>3. HeaderInv => BlockLongEnough
  <2> SUFFICES ASSUME HeaderInv, NEW b \in blocks,
                      b.bytes + Header + PageSize - 1 < Word
               PROVE  b.bytes + Header <= b.pages * PageSize
    BY DEF BlockLongEnough
  <2>1. b.bytes \in Nat /\ b.pages = PagesFor(b.bytes)
    <3>1. Sizes \subseteq Nat
      BY PagingAssumption
    <3> QED
      BY <3>1 DEF HeaderInv
  <2> QED
    BY <2>1, PagesSuffice
<1> QED
  BY <1>1, <1>2, <1>3, PTL DEF Spec

-----------------------------------------------------------------------------
(* The memory *)

(* The fields of the record.                                               *)
Fields == {"used", "dir", "tbl", "win", "stop", "early", "tble", "slot", "own",
           "phys", "virt"}

(* Whose directories there are.                                            *)
Owners == {"kernel", "prog"}
(* Pages, entries of a directory and of a table.                           *)
AllPages == PdEntries * PtEntries
Dirs == 0..(PdEntries - 1)
Ents == 0..(PtEntries - 1)

(* a and b have the fields of the record and differ in those of S only.    *)
SameBut(a, b, S) ==
    /\ DOMAIN a = Fields /\ DOMAIN b = Fields
    /\ \A f \in Fields : f \in S \/ b[f] = a[f]

(* Directories and tables have all their entries.                          *)
Placed(m) ==
    /\ DOMAIN m.dir = Owners
    /\ \A o \in Owners : DOMAIN m.dir[o] = Dirs
    /\ \A t \in DOMAIN m.tbl : DOMAIN m.tbl[t] = Ents

(* Only page frames that are searched are in use, the kernel and low       *)
(* memory among them, and tables are in frames of their own behind these.  *)
Framed(m) ==
    /\ 0..(Reserved - 1) \subseteq m.used
    /\ m.used \subseteq 0..(Limit - 1)
    /\ DOMAIN m.tbl \subseteq m.used \ 0..(Reserved - 1)

(* An entry of a directory is absent, one of config_paging, or names a     *)
(* table that no other entry of this directory names.                      *)
Linked(m) ==
    \A o \in Owners : \A d \in Dirs :
        /\ \/ m.dir[o][d] = Absent
           \/ m.dir[o][d] = KernelEntry
           \/ m.dir[o][d].at \in DOMAIN m.tbl
        /\ \A c \in Dirs : m.dir[o][c].at = m.dir[o][d].at /\ m.dir[o][d].at \in DOMAIN m.tbl
                => c = d

(* The record between two operations.                                      *)
Fit(m) == DOMAIN m = Fields /\ Placed(m) /\ Framed(m) /\ Linked(m)

(* A set of naturals that is not empty has a least element.                *)
LEMMA LeastElement ==
  ASSUME NEW T \in SUBSET Nat, T # {}
  PROVE  \E x \in T : \A y \in T : x <= y
  <1> DEFINE R == OpToRel(<, Nat)
  <1>1. IsWellFoundedOn(R, Nat)
    BY NatLessThanWellFounded
  <1>2. \A x, y \in Nat : y < x => <<y, x>> \in R
    BY DEF OpToRel
  <1> HIDE DEF R
  <1>3. PICK x \in T : \A y \in T : ~(<<y, x>> \in R)
    BY <1>1, WFMin
  <1>4. \A y \in T : ~(y < x)
    BY <1>2, <1>3
  <1>5. QED
    BY <1>4

(* From a to b, one after the other.                                       *)
Climbs(T, a, b) == a \in T /\ \A i \in a..(b - 1) : i \in T => i + 1 \in T

(* Whoever climbs from a to b was everywhere in between.                   *)
LEMMA UpTo ==
  ASSUME NEW a \in Int, NEW b \in Int, NEW T, Climbs(T, a, b)
  PROVE  a..b \subseteq T
  <1> DEFINE U == {n \in Nat : a + n \in a..b /\ a + n \notin T}
  <1> SUFFICES ASSUME U # {} PROVE FALSE
    <2>1. ASSUME NEW i \in a..b, i \notin T PROVE i - a \in U
      BY <2>1
    <2>2. QED
      BY <2>1
  <1>1. PICK n \in U : \A m \in U : n <= m
    BY LeastElement
  <1>2. n # 0
    BY <1>1 DEF Climbs
  <1>3. n - 1 \in Nat /\ n - 1 \notin U
    BY <1>1, <1>2
  <1>4. a + (n - 1) \in T /\ a + (n - 1) \in a..(b - 1)
    BY <1>1, <1>2, <1>3
  <1>5. (a + (n - 1)) + 1 = a + n
    BY <1>1
  <1>6. QED
    BY <1>1, <1>4, <1>5 DEF Climbs

(* What a search finds is a run of zeros, wholly searched.                 *)
LEMMA FirstFitFits ==
  ASSUME NEW S, NEW n \in Nat, NEW lim \in Nat, HasZeroRun(S, n, lim)
  PROVE  FirstFit(S, n, lim) \in 0..lim /\ ZeroRun(S, FirstFit(S, n, lim), n, lim)
  <1> DEFINE Fits == {a \in 0..lim : ZeroRun(S, a, n, lim)}
  <1>1. Fits \in SUBSET Nat /\ Fits # {}
    BY DEF HasZeroRun
  <1>2. PICK a \in Fits : \A b \in Fits : a <= b
    BY <1>1, LeastElement
  <1>3. IsFirstFit(S, n, lim, a)
    BY <1>2 DEF IsFirstFit
  <1>4. QED
    BY <1>2, <1>3 DEF FirstFit, IsFirstFit

(* n frames were found from f on, or none.                                 *)
Found(m, r, n) ==
    /\ r.phys \in 0..(Limit - 1)
    /\ r.phys + n <= Limit
    /\ Run(r.phys, n) \cap m.used = {}
    /\ r.used = m.used \cup Run(r.phys, n)

(* ppalloc (heap.c 19-33) changes nothing but the bitmap and its result:   *)
(* a run of free frames is marked, or none is.                             *)
LEMMA ppallocFinds ==
    ASSUME NEW m, DOMAIN m = Fields, NEW n \in Nat \ {0}
    PROVE  /\ SameBut(m, ppalloc(m, n), {"used", "phys"})
           /\ \/ ppalloc(m, n).phys = Failure /\ ppalloc(m, n).used = m.used
              \/ Found(m, ppalloc(m, n), n)
<1>0. Limit \in Nat
  BY PagingAssumption
<1>1. CASE ~HasZeroRun(m.used, n, Limit)
  BY <1>1 DEF ppalloc, SameBut, Fields
<1>2. CASE HasZeroRun(m.used, n, Limit)
  <2> DEFINE a == FirstFit(m.used, n, Limit)
             r == [m EXCEPT !.used = mark_true(@, a, n), !.phys = a]
  <2>1. a \in 0..Limit /\ ZeroRun(m.used, a, n, Limit)
    BY <1>0, <1>2, FirstFitFits
  <2>2. ppalloc(m, n) = r
    BY <1>2 DEF ppalloc
  <2> HIDE DEF a
  <2>3. SameBut(m, r, {"used", "phys"}) /\ r.phys = a /\ r.used = m.used \cup Run(a, n)
    BY DEF SameBut, Fields, mark_true
  <2>4. a + n <= Limit /\ Run(a, n) \cap m.used = {} /\ a \in 0..(Limit - 1)
    BY <1>0, <2>1 DEF ZeroRun
  <2> QED
    BY <2>2, <2>3, <2>4 DEF Found
<1> QED
  BY <1>1, <1>2

(* phys_to_virt (paging.c) takes one free slot, or there is a page fault.  *)
LEMMA phys_to_virtOpens ==
    ASSUME NEW m, DOMAIN m = Fields, NEW f
    PROVE  LET r == phys_to_virt(m, f)
           IN  \/ r.stop /\ DOMAIN r = Fields
               \/ /\ SameBut(m, r, {"win", "slot", "tble"})
                  /\ r.tble = f
                  /\ r.slot \in Nat \ m.win
                  /\ r.win = m.win \cup {r.slot}
<1>0. Slots \in Nat
  BY PagingAssumption
<1>1. CASE ~HasZeroRun(m.win, 1, Slots)
  BY <1>1 DEF phys_to_virt, Stop, Fields
<1>2. CASE HasZeroRun(m.win, 1, Slots)
  <2> DEFINE s == FirstFit(m.win, 1, Slots)
             r == [m EXCEPT !.win = mark_true(@, s, 1), !.slot = s, !.tble = f]
  <2>1. s \in 0..Slots /\ ZeroRun(m.win, s, 1, Slots)
    BY <1>0, <1>2, FirstFitFits
  <2>2. phys_to_virt(m, f) = r
    BY <1>2 DEF phys_to_virt
  <2> HIDE DEF s
  <2>3. SameBut(m, r, {"win", "slot", "tble"}) /\ r.tble = f /\ r.slot = s
        /\ r.win = m.win \cup Run(s, 1)
    BY DEF SameBut, Fields, mark_true
  <2>4. s \in Nat /\ Run(s, 1) = {s} /\ s \notin m.win
    BY <1>0, <2>1 DEF ZeroRun, Run
  <2>5. r.slot \in Nat \ m.win /\ r.win = m.win \cup {r.slot}
    BY <2>3, <2>4
  <2> QED
    BY <2>2, <2>3, <2>5
<1> QED
  BY <1>1, <1>2

(* free_directmap gives back one slot.                                     *)
LEMMA free_directmapCloses ==
    ASSUME NEW m, DOMAIN m = Fields, NEW s \in Int
    PROVE  LET r == free_directmap(m, s)
           IN  /\ SameBut(m, r, {"win", "tble"})
               /\ r.tble = None
               /\ r.win = m.win \ {s}
<1>1. Run(s, 1) = {s}
  BY DEF Run
<1> QED
  BY <1>1 DEF free_directmap, SameBut, Fields, mark_false

(* A page has an entry of the directory and one of a table, and these      *)
(* give the page.                                                          *)
LEMMA DirEnt ==
    ASSUME NEW p \in VirtualPages
    PROVE  Dir(p) \in Dirs /\ Ent(p) \in Ents /\ p = PtEntries * Dir(p) + Ent(p)
<1> DEFINE d == p \div PtEntries
           e == p % PtEntries
<1>1. PtEntries \in Nat \ {0} /\ PdEntries \in Nat \ {0} /\ p \in Nat /\ p < PdEntries * PtEntries
      /\ PdEntries * PtEntries \in Nat
  BY PagingAssumption, SMT DEF VirtualPages
<1>2. d \in Nat /\ e \in 0..(PtEntries - 1) /\ p = PtEntries * d + e
  BY <1>1, SMT
<1> HIDE DEF d, e
<1>3. d < PdEntries
  <2> SUFFICES ASSUME PdEntries <= d PROVE FALSE
    BY <1>1, <1>2, SMT
  <2>1. PICK j \in Nat : d = PdEntries + j
    <3>1. d - PdEntries \in Nat /\ d = PdEntries + (d - PdEntries)
      BY <1>1, <1>2, SMT
    <3> QED
      BY <3>1
  <2>2. PtEntries * d = PdEntries * PtEntries + PtEntries * j /\ PtEntries * j \in Nat
        /\ PtEntries * d \in Nat
    BY <1>1, <1>2, <2>1, SMT
  <2> QED
    BY <1>1, <1>2, <2>2, SMT
<1> QED
  BY <1>1, <1>2, <1>3, SMT DEF Dir, Ent, Dirs, Ents, d, e

(* Two pages with the same entries are one page.                           *)
LEMMA SamePlace ==
    ASSUME NEW p \in VirtualPages, NEW q \in VirtualPages, Dir(p) = Dir(q), Ent(p) = Ent(q)
    PROVE  p = q
BY DirEnt

(* From a to b nothing that had an owner, was present or was mapped was lost. *)
Keeps(a, b) ==
    /\ a.used \subseteq b.used
    /\ DOMAIN a.tbl \subseteq DOMAIN b.tbl
    /\ (DOMAIN b.tbl \ DOMAIN a.tbl) \cap a.used = {}
    /\ \A t \in DOMAIN a.tbl : \A e \in Ents :
            a.tbl[t][e] # NoPage => b.tbl[t][e] = a.tbl[t][e]

(* An entry of a directory is as it was, or it was absent and a table was  *)
(* opened for a page of P.                                                 *)
EntryKept(a, b, pd, d, P, user) ==
    \/ b.dir[pd][d] = a.dir[pd][d]
    \/ /\ a.dir[pd][d] = Absent
       /\ b.dir[pd][d].user = user
       /\ b.dir[pd][d].at \in DOMAIN b.tbl
       /\ b.dir[pd][d].at \notin a.used
       /\ \E p \in P : Dir(p) = d

(* From a to b tables of one directory were opened, and pages of P mapped. *)
Grown(a, b, pd, P, user) ==
    /\ Keeps(a, b)
    /\ \A d \in Dirs : EntryKept(a, b, pd, d, P, user)
    /\ \A o \in Owners : o = pd \/ b.dir[o] = a.dir[o]
    /\ \A t \in DOMAIN a.tbl : (\A d \in Dirs : a.dir[pd][d].at # t) => b.tbl[t] = a.tbl[t]
    /\ \A p \in VirtualPages : p \in P \/ Pte(b, pd, p) = Pte(a, pd, p)

(* and what the loader and vpalloc noted is as it was.                     *)
Changed(a, b, pd, P, user) ==
    /\ Grown(a, b, pd, P, user)
    /\ b.own = a.own
    /\ b.virt = a.virt

(* Growing twice is growing.                                               *)
LEMMA GrownTrans ==
    ASSUME NEW a, NEW b, NEW c, Fit(a), Fit(b), Fit(c), NEW pd \in Owners,
           NEW P, NEW Q, NEW user,
           Grown(a, b, pd, P, user), Grown(b, c, pd, Q, user)
    PROVE  Grown(a, c, pd, P \cup Q, user)
<1>1. Keeps(a, c)
  BY DEF Grown, Keeps
<1>2. ASSUME NEW d \in Dirs
      PROVE  EntryKept(a, c, pd, d, P \cup Q, user)
  <2>1. EntryKept(a, b, pd, d, P, user) /\ EntryKept(b, c, pd, d, Q, user)
    BY DEF Grown
  <2>2. a.used \subseteq b.used /\ DOMAIN b.tbl \subseteq DOMAIN c.tbl
    BY DEF Grown, Keeps
  <2> QED
    BY <2>1, <2>2 DEF EntryKept
<1>3. ASSUME NEW o \in Owners
      PROVE  o = pd \/ c.dir[o] = a.dir[o]
  BY DEF Grown
<1>4. ASSUME NEW t \in DOMAIN a.tbl, \A d \in Dirs : a.dir[pd][d].at # t
      PROVE  c.tbl[t] = a.tbl[t]
  <2>1. t \in a.used /\ t \in DOMAIN b.tbl
    BY DEF Fit, Framed, Grown, Keeps
  <2>2. ASSUME NEW d \in Dirs PROVE b.dir[pd][d].at # t
    BY <1>4, <2>1 DEF Grown, EntryKept
  <2> QED
    BY <1>4, <2>1, <2>2 DEF Grown
<1>5. ASSUME NEW p \in VirtualPages, p \notin P \cup Q
      PROVE  Pte(c, pd, p) = Pte(a, pd, p)
  BY <1>5 DEF Grown
<1> QED
  BY <1>1, <1>2, <1>3, <1>4, <1>5 DEF Grown

(* The same for Changed.                                                   *)
LEMMA ChangedTrans ==
    ASSUME NEW a, NEW b, NEW c, Fit(a), Fit(b), Fit(c), NEW pd \in Owners,
           NEW P, NEW Q, NEW user,
           Changed(a, b, pd, P, user), Changed(b, c, pd, Q, user)
    PROVE  Changed(a, c, pd, P \cup Q, user)
BY GrownTrans DEF Changed

(* Pages that were not mapped may be named.                                *)
LEMMA ChangedMore ==
    ASSUME NEW a, NEW b, NEW pd, NEW P, NEW Q, NEW user,
           P \subseteq Q, Changed(a, b, pd, P, user)
    PROVE  Changed(a, b, pd, Q, user)
BY DEF Changed, Grown, EntryKept

(* Steps that touch neither tables nor directories.                        *)
LEMMA SameTables ==
    ASSUME NEW a, NEW b, Fit(a), SameBut(a, b, {"win", "tble", "slot", "phys", "early", "stop"}),
           NEW pd, NEW P, NEW user
    PROVE  Fit(b) /\ Changed(a, b, pd, P, user)
<1>1. /\ DOMAIN b = Fields /\ b.used = a.used /\ b.dir = a.dir /\ b.tbl = a.tbl
      /\ b.own = a.own /\ b.virt = a.virt
  BY DEF SameBut, Fields
<1>2. Fit(b)
  BY <1>1 DEF Fit, Placed, Framed, Linked
<1>3. Changed(a, b, pd, P, user)
  BY <1>1 DEF Changed, Grown, Keeps, EntryKept, Pte
<1> QED
  BY <1>2, <1>3

-----------------------------------------------------------------------------
(* map_page *)

(* The table at t is open in a slot of its own.                            *)
Opened(m, r, t) ==
    /\ r.tble = t
    /\ r.slot \in Nat \ m.win
    /\ r.win = m.win \cup {r.slot}

(* What a page frame, a directory entry and a table become when a table is *)
(* opened for a page.                                                      *)
Began(m, r, pd, page, user, full, f) ==
    /\ DOMAIN r = Fields
    /\ f \in 0..(Limit - 1) /\ f \notin m.used
    /\ r.used = m.used \cup {f}
    /\ r.tbl = [t \in DOMAIN m.tbl \cup {f} |-> IF t = f THEN EmptyTable ELSE m.tbl[t]]
    /\ r.dir = [m.dir EXCEPT ![pd][Dir(page)] = [at |-> f, user |-> user, full |-> full]]
    /\ Opened(m, r, f)
    /\ r.early = m.early /\ r.own = m.own /\ r.virt = m.virt

(* map_page where a directory entry is absent (paging.c): a new frame      *)
(* becomes the table, and it is opened.                                    *)
LEMMA NewTableBegins ==
    ASSUME NEW m, DOMAIN m = Fields, NEW pd, NEW page, NEW user, NEW full,
           ~NewTable(m, pd, page, user, full).stop
    PROVE  Began(m, NewTable(m, pd, page, user, full), pd, page, user, full,
                 ppalloc(m, 1).phys)
<1> DEFINE a == ppalloc(m, 1)
           f == a.phys
           b == [a EXCEPT
                    !.tbl = [t \in DOMAIN @ \cup {f} |-> IF t = f THEN EmptyTable ELSE @[t]],
                    !.dir[pd][Dir(page)] = [at |-> f, user |-> user, full |-> full]]
           r == phys_to_virt(b, f)
<1>1. /\ SameBut(m, a, {"used", "phys"})
      /\ \/ f = Failure /\ a.used = m.used
         \/ Found(m, a, 1)
  BY ppallocFinds
<1>2. NewTable(m, pd, page, user, full) = IF f = Failure THEN Stop(a) ELSE r
  BY DEF NewTable, TableAt
<1> HIDE DEF a
<1>3. f # Failure
  <2>1. DOMAIN a = Fields
    BY <1>1 DEF SameBut
  <2> QED
    BY <1>2, <2>1 DEF Stop, Fields
<1>4. f \in 0..(Limit - 1) /\ f \notin m.used /\ a.used = m.used \cup {f}
  <2>1. Limit \in Nat
    BY PagingAssumption
  <2>2. Found(m, a, 1)
    BY <1>1, <1>3
  <2>3. Run(a.phys, 1) = {a.phys}
    BY <2>1, <2>2 DEF Found, Run
  <2> QED
    BY <2>2, <2>3 DEF Found
<1>5. /\ DOMAIN a = Fields /\ a.tbl = m.tbl /\ a.dir = m.dir /\ a.win = m.win
      /\ a.early = m.early /\ a.own = m.own /\ a.virt = m.virt
  BY <1>1 DEF SameBut, Fields
<1>6. /\ DOMAIN b = Fields
      /\ b.tbl = [t \in DOMAIN m.tbl \cup {f} |-> IF t = f THEN EmptyTable ELSE m.tbl[t]]
      /\ b.dir = [m.dir EXCEPT ![pd][Dir(page)] = [at |-> f, user |-> user, full |-> full]]
      /\ b.used = a.used /\ b.win = m.win /\ b.early = m.early
      /\ b.own = m.own /\ b.virt = m.virt
  BY <1>5 DEF Fields
<1> HIDE DEF b, f
<1>7. \/ r.stop /\ DOMAIN r = Fields
      \/ SameBut(b, r, {"win", "slot", "tble"}) /\ r.tble = f
         /\ r.slot \in Nat \ b.win /\ r.win = b.win \cup {r.slot}
  BY <1>6, phys_to_virtOpens
<1>8. NewTable(m, pd, page, user, full) = r
  BY <1>2, <1>3
<1> HIDE DEF r
<1>9. SameBut(b, r, {"win", "slot", "tble"}) /\ Opened(m, r, f)
  BY <1>6, <1>7, <1>8 DEF Opened
<1>10. /\ DOMAIN r = Fields /\ r.tbl = b.tbl /\ r.dir = b.dir /\ r.used = b.used
       /\ r.early = b.early /\ r.own = b.own /\ r.virt = b.virt
  BY <1>9 DEF SameBut, Fields
<1>11. Began(m, r, pd, page, user, full, f)
  BY <1>4, <1>6, <1>9, <1>10 DEF Began
<1> QED
  BY <1>8, <1>11 DEF f, a

(* A table that was begun is empty, and nothing else changes.              *)
LEMMA BegunTable ==
    ASSUME NEW m, Fit(m), NEW pd \in Owners, NEW page \in VirtualPages,
           NEW user, NEW full, NEW f, NEW r,
           m.dir[pd][Dir(page)] = Absent, Began(m, r, pd, page, user, full, f)
    PROVE  /\ Fit(r)
           /\ Changed(m, r, pd, {page}, user)
           /\ Pte(m, pd, page) = NoPage /\ Pte(r, pd, page) = NoPage
           /\ r.dir[pd][Dir(page)].at = f /\ f \in DOMAIN r.tbl
<1> DEFINE D == Dir(page)
           new == [at |-> f, user |-> user, full |-> full]
<1>0. /\ Limit \in Nat /\ Reserved \in Nat /\ LowPages \in Nat /\ LowPages < Reserved
      /\ PtEntries \in Nat \ {0}
  BY PagingAssumption
<1>1. D \in Dirs
  BY DirEnt
<1>2. /\ DOMAIN r.dir = Owners
      /\ \A o \in Owners : DOMAIN r.dir[o] = Dirs
      /\ \A o \in Owners : \A d \in Dirs :
            r.dir[o][d] = IF o = pd /\ d = D THEN new ELSE m.dir[o][d]
      /\ \A o \in Owners : o = pd \/ r.dir[o] = m.dir[o]
  BY <1>1 DEF Began, Fit, Placed
<1>3. /\ DOMAIN r.tbl = DOMAIN m.tbl \cup {f}
      /\ r.tbl[f] = EmptyTable
      /\ f \notin DOMAIN m.tbl /\ f \notin m.used
      /\ \A t \in DOMAIN m.tbl : r.tbl[t] = m.tbl[t]
  BY DEF Began, Fit, Framed
<1>4. DOMAIN EmptyTable = Ents /\ \A e \in Ents : EmptyTable[e] = NoPage
  BY DEF EmptyTable, Ents
<1>5. f \in Nat /\ f \notin 0..(Reserved - 1) /\ f # LowPages /\ f # None
  BY <1>0 DEF Began, Fit, Framed, None
<1>6. Placed(r)
  BY <1>2, <1>3, <1>4 DEF Fit, Placed
<1>7. Framed(r)
  BY <1>0, <1>3, <1>5 DEF Fit, Framed, Began
<1>8. \A o \in Owners : \A d \in Dirs : m.dir[o][d].at # f
  <2>1. Absent.at = None /\ KernelEntry.at = LowPages
    BY DEF Absent, KernelEntry
  <2> QED
    BY <2>1, <1>3, <1>5 DEF Fit, Linked
<1>9. Linked(r)
  <2>1. ASSUME NEW o \in Owners, NEW d \in Dirs
        PROVE  \/ r.dir[o][d] = Absent
               \/ r.dir[o][d] = KernelEntry
               \/ r.dir[o][d].at \in DOMAIN r.tbl
    BY <1>2, <1>3 DEF Fit, Linked
  <2>2. ASSUME NEW o \in Owners, NEW d \in Dirs, NEW c \in Dirs,
               r.dir[o][c].at = r.dir[o][d].at, r.dir[o][d].at \in DOMAIN r.tbl
        PROVE  c = d
    <3>1. CASE o = pd /\ (c = D \/ d = D)
      BY <1>2, <1>8, <2>2, <3>1
    <3>2. CASE ~(o = pd /\ (c = D \/ d = D))
      <4>1. r.dir[o][c] = m.dir[o][c] /\ r.dir[o][d] = m.dir[o][d]
        BY <1>2, <3>2
      <4>2. m.dir[o][d].at \in DOMAIN m.tbl
        BY <1>3, <1>8, <2>2, <4>1
      <4> QED
        BY <2>2, <4>1, <4>2 DEF Fit, Linked
    <3> QED
      BY <3>1, <3>2
  <2> QED
    BY <2>1, <2>2 DEF Linked
<1>10. Fit(r)
  BY <1>6, <1>7, <1>9 DEF Fit, Began
<1>11. None \notin DOMAIN m.tbl
  BY <1>0 DEF Fit, Framed, None
<1>12. Pte(m, pd, page) = NoPage
  BY <1>11 DEF Pte, Absent
<1>13. Pte(r, pd, page) = NoPage
  <2>1. Ent(page) \in Ents
    BY DirEnt
  <2> QED
    BY <1>1, <1>2, <1>3, <1>4, <2>1 DEF Pte
<1>14. Keeps(m, r)
  BY <1>3 DEF Keeps, Began
<1>15. ASSUME NEW d \in Dirs PROVE EntryKept(m, r, pd, d, {page}, user)
  BY <1>1, <1>2, <1>3 DEF EntryKept
<1>16. ASSUME NEW p \in VirtualPages
       PROVE  Pte(r, pd, p) = Pte(m, pd, p)
  <2>1. Dir(p) \in Dirs /\ Ent(p) \in Ents
    BY DirEnt
  <2>2. CASE Dir(p) = D
    <3>1. m.dir[pd][Dir(p)].at = None /\ r.dir[pd][Dir(p)].at = f
      BY <1>2, <2>1, <2>2 DEF Absent
    <3>2. Pte(m, pd, p) = NoPage
      BY <1>11, <3>1 DEF Pte
    <3>3. Pte(r, pd, p) = NoPage
      BY <1>3, <1>4, <2>1, <3>1 DEF Pte
    <3> QED
      BY <3>2, <3>3
  <2>3. CASE Dir(p) # D
    <3>1. r.dir[pd][Dir(p)] = m.dir[pd][Dir(p)] /\ m.dir[pd][Dir(p)].at # f
      BY <1>2, <1>8, <2>1, <2>3
    <3> QED
      BY <1>3, <3>1 DEF Pte
  <2> QED
    BY <2>2, <2>3
<1>17. Changed(m, r, pd, {page}, user)
  BY <1>2, <1>3, <1>14, <1>15, <1>16 DEF Changed, Grown, Began
<1> QED
  BY <1>1, <1>2, <1>3, <1>10, <1>12, <1>13, <1>17

(* The direct map has the slots W and that of the table that is open.      *)
WindowOf(m, W) ==
    \/ m.tble = None /\ m.win = W
    \/ m.tble # None /\ m.slot \in Nat \ W /\ m.win = W \cup {m.slot}

(* The table of the page before is closed: the window is as it was before  *)
(* map_page.                                                               *)
LEMMA NextTableCloses ==
    ASSUME NEW m, DOMAIN m = Fields, NEW W, WindowOf(m, W), ~NextTable(m).stop
    PROVE  /\ SameBut(m, NextTable(m), {"win", "tble"})
           /\ NextTable(m).win = W
<1>1. CASE m.tble = None
  BY <1>1 DEF NextTable, SameBut, WindowOf
<1>2. CASE m.tble # None
  <2>1. m.slot \in Int /\ m.slot \notin W /\ m.win = W \cup {m.slot}
    BY <1>2 DEF WindowOf
  <2>2. NextTable(m) = free_directmap(m, m.slot)
    BY <1>2 DEF NextTable, Stop, Fields
  <2> DEFINE y == free_directmap(m, m.slot)
  <2>3. SameBut(m, y, {"win", "tble"}) /\ y.win = m.win \ {m.slot}
    BY <2>1, free_directmapCloses
  <2> HIDE DEF y
  <2>4. y.win = W
    BY <2>1, <2>3
  <2> QED
    BY <2>2, <2>3, <2>4 DEF y
<1> QED
  BY <1>1, <1>2

(* map_page where a directory entry is present: its table is opened, and   *)
(* a page that is present ends the loop.                                   *)
LEMMA OldTableOpens ==
    ASSUME NEW m, DOMAIN m = Fields, NEW pd, NEW page, ~OldTable(m, pd, page).stop
    PROVE  LET r == OldTable(m, pd, page)
               t == m.dir[pd][Dir(page)].at
           IN  /\ t \in DOMAIN m.tbl
               /\ SameBut(m, r, {"win", "slot", "tble", "early"})
               /\ Opened(m, r, t)
               /\ r.early <=> Pte(m, pd, page) # NoPage
<1> DEFINE r == OldTable(m, pd, page)
           t == m.dir[pd][Dir(page)].at
           y == phys_to_virt(m, t)
<1>1. t \in DOMAIN m.tbl
  BY DEF OldTable, Stop, Fields
<1>2. r = [y EXCEPT !.early = Pte(m, pd, page) # NoPage]
  BY <1>1 DEF OldTable
<1>3. \/ y.stop /\ DOMAIN y = Fields
      \/ SameBut(m, y, {"win", "slot", "tble"}) /\ y.tble = t
         /\ y.slot \in Nat \ m.win /\ y.win = m.win \cup {y.slot}
  BY phys_to_virtOpens
<1> HIDE DEF y, t
<1>4. DOMAIN y = Fields
  BY <1>3 DEF SameBut
<1>5. ~y.stop
  BY <1>2, <1>4 DEF Fields
<1>6. SameBut(m, y, {"win", "slot", "tble"}) /\ Opened(m, y, t)
  BY <1>3, <1>5 DEF Opened
<1>7. SameBut(m, r, {"win", "slot", "tble", "early"})
  BY <1>2, <1>6 DEF SameBut, Fields
<1>8. Opened(m, r, t)
  BY <1>2, <1>6, <1>4 DEF Opened, Fields
<1>9. r.early <=> Pte(m, pd, page) # NoPage
  BY <1>2, <1>4 DEF Fields
<1> QED
  BY <1>1, <1>7, <1>8, <1>9 DEF t

(* Writing an absent entry of an open table.                               *)
LEMMA EnterWrites ==
    ASSUME NEW m, Fit(m), ~m.stop, ~m.early, NEW pd \in Owners, NEW page \in VirtualPages,
           NEW user, NEW at \in Nat,
           m.tble = m.dir[pd][Dir(page)].at, m.tble \in DOMAIN m.tbl,
           Pte(m, pd, page) = NoPage
    PROVE  LET r == Enter(m, page, [at |-> at, user |-> user])
           IN  /\ SameBut(m, r, {"tbl"})
               /\ Fit(r)
               /\ Changed(m, r, pd, {page}, user)
               /\ Pte(r, pd, page) = [at |-> at, user |-> user]
<1> DEFINE pte == [at |-> at, user |-> user]
           r == Enter(m, page, pte)
           e == Ent(page)
           t == m.tble
<1>1. r = [m EXCEPT !.tbl[t][e] = pte]
  BY DEF Enter
<1>2. SameBut(m, r, {"tbl"})
  BY <1>1 DEF SameBut, Fit, Fields
<1>3. /\ DOMAIN r = Fields /\ r.used = m.used /\ r.dir = m.dir
      /\ r.own = m.own /\ r.virt = m.virt
  BY <1>2 DEF SameBut, Fields
<1>4. r.tbl = [m.tbl EXCEPT ![t][e] = pte]
  BY <1>1 DEF Fit, Fields
<1>5. e \in Ents /\ t \in DOMAIN m.tbl
  BY DirEnt
<1> HIDE DEF r, pte
<1>6. /\ DOMAIN r.tbl = DOMAIN m.tbl
      /\ \A x \in DOMAIN m.tbl : DOMAIN r.tbl[x] = Ents
      /\ \A x \in DOMAIN m.tbl : x = t \/ r.tbl[x] = m.tbl[x]
      /\ \A i \in Ents : r.tbl[t][i] = IF i = e THEN pte ELSE m.tbl[t][i]
  BY <1>4, <1>5 DEF Fit, Placed
<1>7. Fit(r)
  <2>1. Placed(r)
    BY <1>3, <1>6 DEF Fit, Placed
  <2>2. DOMAIN r.tbl = DOMAIN m.tbl /\ r.dir = m.dir /\ r.used = m.used
        /\ Framed(m) /\ Linked(m)
    BY <1>3, <1>6 DEF Fit
  <2>3. Framed(r) /\ Linked(r)
    BY <2>2 DEF Framed, Linked
  <2> QED
    BY <1>3, <2>1, <2>2, <2>3 DEF Fit
<1>8. m.tbl[t][e] = NoPage
  BY DEF Pte
<1>9. Keeps(m, r)
  <2>1. ASSUME NEW x \in DOMAIN m.tbl, NEW i \in Ents, m.tbl[x][i] # NoPage
        PROVE  r.tbl[x][i] = m.tbl[x][i]
    BY <1>5, <1>6, <1>8, <2>1
  <2> QED
    BY <1>3, <1>6, <2>1 DEF Keeps
<1>10. ASSUME NEW p \in VirtualPages, p # page
       PROVE  Pte(r, pd, p) = Pte(m, pd, p)
  <2> DEFINE x == m.dir[pd][Dir(p)].at
  <2>1. Dir(p) \in Dirs /\ Ent(p) \in Ents /\ Dir(page) \in Dirs
    BY DirEnt
  <2>2. Pte(r, pd, p) = IF x \in DOMAIN m.tbl THEN r.tbl[x][Ent(p)] ELSE NoPage
    BY <1>3, <1>6 DEF Pte
  <2>3. Pte(m, pd, p) = IF x \in DOMAIN m.tbl THEN m.tbl[x][Ent(p)] ELSE NoPage
    BY DEF Pte
  <2>4. CASE x = t /\ Ent(p) = e
    <3>1. Dir(p) = Dir(page)
      BY <1>5, <2>1, <2>4 DEF Fit, Linked
    <3> QED
      BY <1>10, <2>4, <3>1, SamePlace
  <2>5. CASE ~(x = t /\ Ent(p) = e)
    <3>1. x \in DOMAIN m.tbl /\ x = t => r.tbl[x][Ent(p)] = m.tbl[x][Ent(p)]
      BY <1>6, <2>1, <2>5
    <3>2. x \in DOMAIN m.tbl /\ x # t => r.tbl[x][Ent(p)] = m.tbl[x][Ent(p)]
      BY <1>6
    <3> HIDE DEF x, t
    <3> QED
      BY <2>2, <2>3, <3>1, <3>2
  <2> QED
    BY <2>4, <2>5
<1>11. ASSUME NEW x \in DOMAIN m.tbl, \A d \in Dirs : m.dir[pd][d].at # x
       PROVE  r.tbl[x] = m.tbl[x]
  BY <1>6, <1>11, DirEnt
<1>12. Changed(m, r, pd, {page}, user)
  BY <1>3, <1>9, <1>10, <1>11 DEF Changed, Grown, EntryKept
<1>13. Pte(r, pd, page) = pte
  BY <1>3, <1>5, <1>6 DEF Pte
<1> QED
  BY <1>2, <1>7, <1>12, <1>13 DEF pte, r

(* One page of map_page: it was absent and is mapped now, or map_page met  *)
(* a page that was present.                                                *)
Round(m, r, pd, frame, page, user) ==
    /\ Fit(r)
    /\ Changed(m, r, pd, {page}, user)
    /\ r.early => Pte(m, pd, page) # NoPage
    /\ ~r.early =>
        /\ Pte(m, pd, page) = NoPage
        /\ Pte(r, pd, page) = [at |-> frame % FrameSpace, user |-> user]
        /\ \A W : WindowOf(m, W) => WindowOf(r, W)

(* Either way the table of the page is open, and nothing that was mapped   *)
(* is lost.                                                                *)
LEMMA OpenTableOpens ==
    ASSUME NEW m, Fit(m), ~m.stop, ~m.early, NEW pd \in Owners, NEW page \in VirtualPages,
           NEW user, NEW full, ~OpenTable(m, pd, page, user, full).stop
    PROVE  LET r == OpenTable(m, pd, page, user, full)
               t == r.dir[pd][Dir(page)].at
           IN  /\ Fit(r)
               /\ Changed(m, r, pd, {page}, user)
               /\ t \in DOMAIN r.tbl
               /\ Opened(m, r, t)
               /\ r.early <=> Pte(m, pd, page) # NoPage
               /\ Pte(r, pd, page) = Pte(m, pd, page)
<1> DEFINE r == OpenTable(m, pd, page, user, full)
<1>1. CASE m.dir[pd][Dir(page)] = Absent
  <2> DEFINE f == ppalloc(m, 1).phys
  <2>1. r = NewTable(m, pd, page, user, full)
    BY <1>1 DEF OpenTable
  <2>2. Began(m, r, pd, page, user, full, f)
    BY <2>1, NewTableBegins DEF Fit
  <2> HIDE DEF f, r
  <2>3. /\ Fit(r)
        /\ Changed(m, r, pd, {page}, user)
        /\ Pte(m, pd, page) = NoPage /\ Pte(r, pd, page) = NoPage
        /\ r.dir[pd][Dir(page)].at = f /\ f \in DOMAIN r.tbl
    BY <1>1, <2>2, BegunTable
  <2>4. Opened(m, r, f) /\ ~r.early
    BY <2>2 DEF Began
  <2> QED
    BY <2>3, <2>4 DEF r
<1>2. CASE m.dir[pd][Dir(page)] # Absent
  <2> DEFINE t == m.dir[pd][Dir(page)].at
  <2>1. r = OldTable(m, pd, page)
    BY <1>2 DEF OpenTable
  <2>2. /\ t \in DOMAIN m.tbl
        /\ SameBut(m, r, {"win", "slot", "tble", "early"})
        /\ Opened(m, r, t)
        /\ r.early <=> Pte(m, pd, page) # NoPage
    BY <2>1, OldTableOpens DEF Fit
  <2> HIDE DEF r
  <2>3. /\ SameBut(m, r, {"win", "tble", "slot", "phys", "early", "stop"})
        /\ r.dir = m.dir /\ r.tbl = m.tbl
    BY <2>2 DEF SameBut, Fields
  <2>4. Fit(r) /\ Changed(m, r, pd, {page}, user)
    BY <2>3, SameTables
  <2>5. Pte(r, pd, page) = Pte(m, pd, page)
    BY <2>3 DEF Pte
  <2> QED
    BY <2>2, <2>3, <2>4, <2>5 DEF r
<1> QED
  BY <1>1, <1>2

(* One round of map_page: the page is mapped to the frame, or it was       *)
(* present and nothing is mapped.                                          *)
LEMMA MapOneRound ==
    ASSUME NEW m, Fit(m), ~m.stop, ~m.early, NEW pd \in Owners, NEW page \in VirtualPages,
           NEW frame \in Nat, NEW user, NEW full, NEW W0, WindowOf(m, W0),
           ~MapOne(m, pd, frame, page, user, full).stop
    PROVE  Round(m, MapOne(m, pd, frame, page, user, full), pd, frame, page, user)
<1> DEFINE y == NextTable(m)
           z == OpenTable(y, pd, page, user, full)
           pte == [at |-> frame % FrameSpace, user |-> user]
           r == Enter(z, page, pte)
           t == z.dir[pd][Dir(page)].at
<1>1. r = MapOne(m, pd, frame, page, user, full)
  BY DEF MapOne
<1>2. frame % FrameSpace \in Nat
  BY PagingAssumption
<1>3. ~z.stop
  BY <1>1 DEF Enter
<1>4. ~y.stop
  BY <1>3 DEF OpenTable
<1>5. /\ SameBut(m, y, {"win", "tble"})
      /\ \A W : WindowOf(m, W) => y.win = W
  BY <1>4, NextTableCloses DEF Fit
<1> HIDE DEF y
<1>6. Fit(y) /\ Changed(m, y, pd, {page}, user) /\ y.early = m.early
      /\ Pte(y, pd, page) = Pte(m, pd, page)
  <2>1. /\ SameBut(m, y, {"win", "tble", "slot", "phys", "early", "stop"})
        /\ y.early = m.early /\ y.dir = m.dir /\ y.tbl = m.tbl
    BY <1>5 DEF SameBut, Fields
  <2> QED
    BY <2>1, SameTables DEF Pte
<1>7. ~y.early
  BY <1>6
<1>8. /\ Fit(z)
      /\ Changed(y, z, pd, {page}, user)
      /\ t \in DOMAIN z.tbl
      /\ Opened(y, z, t)
      /\ z.early <=> Pte(y, pd, page) # NoPage
      /\ Pte(z, pd, page) = Pte(y, pd, page)
  <2>1. Fit(y) /\ ~y.early
    BY <1>6, <1>7
  <2> QED
    BY <1>3, <1>4, <2>1, OpenTableOpens
<1> HIDE DEF z
<1>9. Changed(m, z, pd, {page}, user)
  <2>1. Changed(m, z, pd, {page} \cup {page}, user)
    BY <1>6, <1>8, ChangedTrans
  <2>2. {page} \cup {page} = {page}
    OBVIOUS
  <2> QED
    BY <2>1, <2>2
<1>10. CASE z.early
  <2>1. r = z
    BY <1>10 DEF Enter
  <2>2. r.early /\ Pte(m, pd, page) # NoPage
    BY <1>6, <1>8, <1>10, <2>1
  <2> QED
    BY <1>1, <1>8, <1>9, <2>1, <2>2 DEF Round
<1>11. CASE ~z.early
  <2>1. Pte(m, pd, page) = NoPage /\ Pte(z, pd, page) = NoPage
    BY <1>6, <1>8, <1>11
  <2>2. z.tble = t /\ z.tble \in DOMAIN z.tbl
    BY <1>8 DEF Opened
  <2> HIDE DEF t
  <2>3. /\ SameBut(z, r, {"tbl"})
        /\ Fit(r)
        /\ Changed(z, r, pd, {page}, user)
        /\ Pte(r, pd, page) = pte
    BY <1>2, <1>3, <1>8, <1>11, <2>1, <2>2, EnterWrites DEF t
  <2> HIDE DEF r
  <2>4. Changed(m, r, pd, {page}, user)
    <3>1. Changed(m, r, pd, {page} \cup {page}, user)
      BY <1>8, <1>9, <2>3, ChangedTrans
    <3>2. {page} \cup {page} = {page}
      OBVIOUS
    <3> QED
      BY <3>1, <3>2
  <2>5. r.early = z.early /\ r.win = z.win /\ r.slot = z.slot /\ r.tble = z.tble
    BY <2>3 DEF SameBut, Fields
  <2>6. t # None
    <3>1. DOMAIN z.tbl \subseteq Nat
      BY <1>8, PagingAssumption DEF Fit, Framed
    <3> QED
      BY <2>2, <3>1 DEF None
  <2>7. ASSUME NEW W, WindowOf(m, W) PROVE WindowOf(r, W)
    <3>1. y.win = W
      BY <1>5, <2>7
    <3> QED
      BY <1>8, <2>5, <2>6, <3>1 DEF Opened, WindowOf
  <2>8. ~r.early
    BY <1>11, <2>5
  <2> QED
    BY <1>1, <2>1, <2>3, <2>4, <2>7, <2>8 DEF Round
<1> QED
  BY <1>10, <1>11

(* The rounds of map_page, one after the other.                            *)
MapRun(run, m, pd, frame, page, n, user, full) ==
    /\ run[0] = [m EXCEPT !.tble = None, !.early = FALSE]
    /\ \A k \in 1..n : run[k] = MapRound(run[k - 1], pd, frame + k - 1,
                                         page + k - 1, user, full)
    /\ MapPages(m, pd, frame, page, n, user, full) = run[n]

(* The recursive function of MapPages computes these rounds.               *)
LEMMA MapRuns ==
    ASSUME NEW m, NEW pd, NEW frame, NEW page, NEW n \in Nat, NEW user, NEW full
    PROVE  \E run : MapRun(run, m, pd, frame, page, n, user, full)
<1> DEFINE start == [m EXCEPT !.tble = None, !.early = FALSE]
           Next1(x, k) == MapRound(x, pd, frame + k - 1, page + k - 1, user, full)
           Runs(i, f) == f = [k \in 0..i |-> IF k = 0 THEN start ELSE Next1(f[k - 1], k)]
           T == {i \in Int : \E f : Runs(i, f)}
<1>1. 0 \in T
  <2>1. Runs(0, [k \in 0..0 |-> start])
    OBVIOUS
  <2> HIDE DEF Runs
  <2> QED
    BY <2>1
<1>2. ASSUME NEW i \in 0..(n - 1), i \in T PROVE i + 1 \in T
  <2>1. PICK f : Runs(i, f)
    BY <1>2
  <2> HIDE DEF start, Next1
  <2>2. /\ \A k \in 0..i : f[k] = IF k = 0 THEN start ELSE Next1(f[k - 1], k)
        /\ i + 1 \in Int
    BY <2>1
  <2> HIDE DEF Runs
  <2> DEFINE g == [k \in 0..(i + 1) |-> IF k <= i THEN f[k] ELSE Next1(f[i], k)]
  <2>3. \A k \in 0..(i + 1) : g[k] = IF k = 0 THEN start ELSE Next1(g[k - 1], k)
    <3> SUFFICES ASSUME NEW k \in 0..(i + 1)
                 PROVE  g[k] = IF k = 0 THEN start ELSE Next1(g[k - 1], k)
      OBVIOUS
    <3>1. CASE k = 0
      BY <2>2, <3>1
    <3>2. CASE k # 0 /\ k <= i
      BY <2>2, <3>2
    <3>3. CASE k = i + 1
      <4>1. g[k - 1] = f[i] /\ k # 0
        BY <3>3
      <4> QED
        BY <3>3, <4>1
    <3> QED
      BY <3>1, <3>2, <3>3
  <2>4. Runs(i + 1, g)
    BY <2>3 DEF Runs
  <2> QED
    BY <2>2, <2>4
<1> HIDE DEF T
<1>3. n \in T
  <2>1. Climbs(T, 0, n)
    BY <1>1, <1>2 DEF Climbs
  <2> QED
    BY <2>1, UpTo
<1>4. PICK some : Runs(n, some)
  BY <1>3 DEF T
<1> DEFINE h == CHOOSE f : Runs(n, f)
<1>5. Runs(n, h)
  BY <1>4
<1>6. MapPages(m, pd, frame, page, n, user, full) = h[n]
  BY DEF MapPages
<1> HIDE DEF h, start, Next1
<1>7. \A k \in 0..n : h[k] = IF k = 0 THEN start ELSE Next1(h[k - 1], k)
  BY <1>5
<1>8. h[0] = start /\ \A k \in 1..n : h[k] = Next1(h[k - 1], k)
  BY <1>7
<1> QED
  BY <1>6, <1>8 DEF start, Next1, MapRun

(* What n rounds did to m: the pages are mapped one after the other to the *)
(* frames, or a page was present.                                          *)
AllMapped(m, r, pd, frame, page, n, user) ==
    \A j \in 0..(n - 1) :
        /\ Pte(m, pd, page + j) = NoPage
        /\ Pte(r, pd, page + j) = [at |-> (frame + j) % FrameSpace, user |-> user]

PagesOrEarly(m, r, pd, frame, page, n, user) ==
    /\ Fit(r)
    /\ Changed(m, r, pd, page..(page + n - 1), user)
    /\ r.early => \E q \in page..(page + n - 1) : Pte(m, pd, q) # NoPage
    /\ ~r.early => AllMapped(m, r, pd, frame, page, n, user)

(* What k rounds did, and one more, is what k + 1 rounds do.               *)
LEMMA OneMorePage ==
    ASSUME NEW m, Fit(m), NEW x, NEW pd \in Owners, NEW frame \in Nat, NEW page \in Nat,
           NEW k \in Nat, page + k \in VirtualPages, NEW user, NEW full,
           NEW y, y = MapRound(x, pd, frame + k, page + k, user, full),
           PagesOrEarly(m, x, pd, frame, page, k, user),
           ~x.early => WindowOf(x, m.win),
           ~x.stop, ~y.stop
    PROVE  /\ PagesOrEarly(m, y, pd, frame, page, k + 1, user)
           /\ ~y.early => WindowOf(y, m.win)
<1> DEFINE P == page..(page + k - 1)
           Q == page..(page + (k + 1) - 1)
           v == page + k
<1>1. P \subseteq Q /\ v \in Q /\ Q = P \cup {v} /\ v \notin P
  OBVIOUS
<1>2. CASE x.early
  <2>1. y = x
    BY <1>2 DEF MapRound
  <2>2. Changed(m, x, pd, P, user) /\ \E q \in P : Pte(m, pd, q) # NoPage
    BY <1>2 DEF PagesOrEarly
  <2> HIDE DEF P, Q
  <2>3. Changed(m, x, pd, Q, user) /\ \E q \in Q : Pte(m, pd, q) # NoPage
    BY <1>1, <2>2, ChangedMore
  <2> QED
    BY <1>2, <2>1, <2>3 DEF PagesOrEarly, Q
<1>3. CASE ~x.early
  <2>1. y = MapOne(x, pd, frame + k, v, user, full)
    BY <1>3 DEF MapRound
  <2>2. Round(x, y, pd, frame + k, v, user)
    BY <1>3, <2>1, MapOneRound DEF PagesOrEarly
  <2>3. Fit(y) /\ Changed(m, y, pd, Q, user)
    <3>1. Changed(m, x, pd, P, user) /\ Changed(x, y, pd, {v}, user)
          /\ Fit(x) /\ Fit(y)
      BY <2>2 DEF PagesOrEarly, Round
    <3> HIDE DEF P, Q, v
    <3> QED
      BY <1>1, <3>1, ChangedTrans
  <2>4. Pte(x, pd, v) = Pte(m, pd, v)
    BY <1>1 DEF PagesOrEarly, Changed, Grown
  <2>5. CASE y.early
    <3>1. Pte(m, pd, v) # NoPage
      BY <2>2, <2>4, <2>5 DEF Round
    <3> HIDE DEF P, Q, v
    <3>2. \E q \in Q : Pte(m, pd, q) # NoPage
      BY <1>1, <3>1
    <3> QED
      BY <2>3, <2>5, <3>2 DEF PagesOrEarly, Q
  <2>6. CASE ~y.early
    <3>1. WindowOf(y, m.win)
      BY <1>3, <2>2, <2>6 DEF Round
    <3>2. /\ Pte(m, pd, v) = NoPage
          /\ Pte(y, pd, v) = [at |-> (frame + k) % FrameSpace, user |-> user]
      BY <2>2, <2>4, <2>6 DEF Round
    <3>3. ASSUME NEW j \in 0..((k + 1) - 1)
          PROVE  /\ Pte(m, pd, page + j) = NoPage
                 /\ Pte(y, pd, page + j) = [at |-> (frame + j) % FrameSpace, user |-> user]
      <4>1. CASE j = k
        BY <3>2, <4>1
      <4>2. CASE j # k
        <5>1. j \in 0..(k - 1) /\ page + j # v
          BY <4>2
        <5>4. page + j \in VirtualPages
          <6>1. PdEntries * PtEntries \in Int
            BY PagingAssumption
          <6> DEFINE all == PdEntries * PtEntries
          <6>2. page + k <= all - 1 /\ all \in Int
            BY <6>1 DEF VirtualPages
          <6> HIDE DEF all
          <6>3. page + j \in 0..(all - 1)
            BY <5>1, <6>2
          <6> QED
            BY <6>3 DEF VirtualPages, all
        <5>2. /\ Pte(m, pd, page + j) = NoPage
              /\ Pte(x, pd, page + j) = [at |-> (frame + j) % FrameSpace, user |-> user]
          BY <1>3, <5>1 DEF PagesOrEarly, AllMapped
        <5>3. Pte(y, pd, page + j) = Pte(x, pd, page + j)
          BY <2>2, <5>1, <5>4 DEF Round, Changed, Grown
        <5> QED
          BY <5>2, <5>3
      <4> QED
        BY <4>1, <4>2
    <3>4. AllMapped(m, y, pd, frame, page, k + 1, user)
      BY <3>3 DEF AllMapped
    <3> QED
      BY <2>3, <2>6, <3>1, <3>4 DEF PagesOrEarly
  <2> QED
    BY <2>5, <2>6
<1> QED
  BY <1>2, <1>3

(* The record keeps its fields.                                            *)
LEMMA MapRoundFields ==
    ASSUME NEW m, DOMAIN m = Fields, NEW pd, NEW frame, NEW page, NEW user, NEW full
    PROVE  DOMAIN MapRound(m, pd, frame, page, user, full) = Fields
<1> DEFINE y == NextTable(m)
           z == OpenTable(y, pd, page, user, full)
           pte == [at |-> frame % FrameSpace, user |-> user]
<1>1. DOMAIN y = Fields
  BY DEF NextTable, Stop, free_directmap
<1> HIDE DEF y
<1>2. DOMAIN NewTable(y, pd, page, user, full) = Fields
  <2> DEFINE a == ppalloc(y, 1)
             b == [a EXCEPT
                      !.tbl = [t \in DOMAIN @ \cup {a.phys} |->
                                  IF t = a.phys THEN EmptyTable ELSE @[t]],
                      !.dir[pd][Dir(page)] = [at |-> a.phys, user |-> user, full |-> full]]
  <2>1. DOMAIN a = Fields
    BY <1>1 DEF ppalloc
  <2> HIDE DEF a
  <2>2. DOMAIN b = Fields /\ DOMAIN Stop(a) = Fields
    BY <2>1 DEF Stop
  <2> HIDE DEF b
  <2>3. DOMAIN phys_to_virt(b, a.phys) = Fields
    BY <2>2 DEF phys_to_virt, Stop
  <2> QED
    BY <2>2, <2>3 DEF NewTable, TableAt, a, b
<1>3. DOMAIN OldTable(y, pd, page) = Fields
  <2>1. DOMAIN phys_to_virt(y, y.dir[pd][Dir(page)].at) = Fields
    BY <1>1 DEF phys_to_virt, Stop
  <2> QED
    BY <1>1, <2>1 DEF OldTable, Stop
<1>4. DOMAIN z = Fields
  BY <1>1, <1>2, <1>3 DEF OpenTable
<1> HIDE DEF z
<1>5. DOMAIN Enter(z, page, pte) = Fields
  BY <1>4 DEF Enter
<1> QED
  BY <1>5 DEF MapRound, MapOne, y, z

(* The loop of map_page: all pages are mapped, or one was present.         *)
LEMMA MapPagesMaps ==
    ASSUME NEW m, Fit(m), ~m.stop, NEW pd \in Owners, NEW frame \in Nat, NEW page \in Nat,
           NEW n \in Nat, page + n <= AllPages, NEW user, NEW full,
           NEW r, r = MapPages(m, pd, frame, page, n, user, full)
    PROVE  /\ DOMAIN r = Fields
           /\ ~r.stop => PagesOrEarly(m, r, pd, frame, page, n, user)
           /\ ~r.stop /\ ~r.early => WindowOf(r, m.win)
<1>0. PICK run : MapRun(run, m, pd, frame, page, n, user, full)
  BY MapRuns
<1>1. /\ run[0] = [m EXCEPT !.tble = None, !.early = FALSE]
      /\ \A k \in 1..n : run[k] = MapRound(run[k - 1], pd, frame + k - 1,
                                           page + k - 1, user, full)
      /\ r = run[n]
  BY <1>0 DEF MapRun
<1> DEFINE Good(k) ==
                 /\ DOMAIN run[k] = Fields
                 /\ ~run[k].stop => PagesOrEarly(m, run[k], pd, frame, page, k, user)
                 /\ ~run[k].stop /\ ~run[k].early => WindowOf(run[k], m.win)
           T == {k \in 0..n : Good(k)}
<1>2. Good(0)
  <2> DEFINE x == run[0]
  <2>1. SameBut(m, x, {"tble", "early"}) /\ x.tble = None /\ ~x.early
    BY <1>1 DEF SameBut, Fit, Fields
  <2> HIDE DEF x
  <2>2. SameBut(m, x, {"win", "tble", "slot", "phys", "early", "stop"}) /\ x.win = m.win
    BY <2>1 DEF SameBut, Fields
  <2>3. Fit(x) /\ Changed(m, x, pd, page..(page + 0 - 1), user)
    BY <2>2, SameTables
  <2>4. AllMapped(m, x, pd, frame, page, 0, user)
    BY DEF AllMapped
  <2>5. PagesOrEarly(m, x, pd, frame, page, 0, user)
    BY <2>1, <2>3, <2>4 DEF PagesOrEarly
  <2>6. WindowOf(x, m.win)
    BY <2>1, <2>2 DEF WindowOf
  <2> QED
    BY <2>2, <2>5, <2>6 DEF x, SameBut
<1>3. ASSUME NEW k \in 0..(n - 1), Good(k) PROVE Good(k + 1)
  <2>1. run[k + 1] = MapRound(run[k], pd, frame + k, page + k, user, full)
    <3>1. k + 1 \in 1..n /\ (k + 1) - 1 = k
      OBVIOUS
    <3>2. frame + (k + 1) - 1 = frame + k /\ page + (k + 1) - 1 = page + k
      OBVIOUS
    <3> QED
      BY <1>1, <3>1, <3>2
  <2>2. page + k \in VirtualPages /\ k \in Nat
    <3>1. PdEntries * PtEntries \in Int
      BY PagingAssumption
    <3> DEFINE all == PdEntries * PtEntries
    <3>2. page + n <= all /\ all \in Int
      BY <3>1 DEF AllPages
    <3> HIDE DEF all
    <3>3. page + k \in 0..(all - 1)
      BY <3>2
    <3> QED
      BY <3>3 DEF VirtualPages, all
  <2>3. ASSUME ~run[k + 1].stop PROVE ~run[k].stop
    BY <2>1, <2>3 DEF MapRound
  <2>4. DOMAIN run[k + 1] = Fields
    BY <1>3, <2>1, MapRoundFields
  <2> QED
    BY <1>3, <2>1, <2>2, <2>3, <2>4, OneMorePage
<1>4. 0 \in T /\ \A k \in 0..(n - 1) : k \in T => k + 1 \in T
  <2> HIDE DEF Good
  <2> QED
    BY <1>2, <1>3
<1> HIDE DEF T, Good
<1>5. n \in T
  <2>1. Climbs(T, 0, n)
    BY <1>4 DEF Climbs
  <2> QED
    BY <2>1, UpTo
<1> QED
  BY <1>1, <1>5 DEF T, Good

(* map_page (paging.c): it also gives its slot back, unless it returned    *)
(* early.                                                                  *)
LEMMA map_pageMaps ==
    ASSUME NEW m, Fit(m), ~m.stop, NEW pd \in Owners, NEW frame \in Nat, NEW page \in Nat,
           NEW n \in Nat, page + n <= AllPages, NEW user, NEW full,
           NEW r, r = map_page(m, pd, frame, page, n, user, full)
    PROVE  /\ DOMAIN r = Fields
           /\ ~r.stop => PagesOrEarly(m, r, pd, frame, page, n, user)
           /\ ~r.stop /\ ~r.early => r.win = m.win
<1> DEFINE x == MapPages(m, pd, frame, page, n, user, full)
<1>1. r = CloseTable(x)
  BY DEF map_page
<1>2. /\ DOMAIN x = Fields
      /\ ~x.stop => PagesOrEarly(m, x, pd, frame, page, n, user)
      /\ ~x.stop /\ ~x.early => WindowOf(x, m.win)
  BY MapPagesMaps
<1> HIDE DEF x
<1>3. DOMAIN r = Fields
  BY <1>1, <1>2 DEF CloseTable, free_directmap
<1>4. ASSUME ~r.stop
      PROVE  /\ ~x.stop /\ SameBut(x, r, {"win", "tble"})
             /\ ~x.early => r.win = m.win
  <2>1. CASE x.stop \/ x.early \/ x.tble = None
    <3>1. r = [x EXCEPT !.tble = None]
      BY <1>1, <2>1 DEF CloseTable
    <3>2. SameBut(x, r, {"win", "tble"}) /\ r.stop = x.stop /\ r.win = x.win
      BY <1>2, <3>1 DEF SameBut, Fields
    <3>3. ~x.stop
      BY <1>4, <3>2
    <3>4. ~x.early => x.win = m.win
      BY <1>2, <2>1, <3>3 DEF WindowOf
    <3> QED
      BY <3>2, <3>3, <3>4
  <2>2. CASE ~x.stop /\ ~x.early /\ x.tble # None
    <3>1. x.slot \in Nat \ m.win /\ x.win = m.win \cup {x.slot}
      BY <1>2, <2>2 DEF WindowOf
    <3>2. r = free_directmap(x, x.slot)
      BY <1>1, <2>2 DEF CloseTable
    <3>3. SameBut(x, r, {"win", "tble"}) /\ r.win = x.win \ {x.slot}
      BY <1>2, <3>1, <3>2, free_directmapCloses
    <3>4. r.win = m.win
      BY <3>1, <3>3
    <3> QED
      BY <2>2, <3>3, <3>4
  <2> QED
    BY <2>1, <2>2
<1>5. ASSUME ~r.stop PROVE PagesOrEarly(m, r, pd, frame, page, n, user)
  <2> DEFINE P == page..(page + n - 1)
  <2>1. /\ Fit(x) /\ Changed(m, x, pd, P, user)
        /\ x.early => \E q \in P : Pte(m, pd, q) # NoPage
        /\ ~x.early => AllMapped(m, x, pd, frame, page, n, user)
    BY <1>2, <1>4, <1>5 DEF PagesOrEarly
  <2>2. /\ SameBut(x, r, {"win", "tble", "slot", "phys", "early", "stop"})
        /\ r.early = x.early /\ r.dir = x.dir /\ r.tbl = x.tbl
        /\ r.used = x.used /\ r.own = x.own /\ r.virt = x.virt
    BY <1>4, <1>5 DEF SameBut, Fields
  <2>3. Fit(r) /\ Changed(x, r, pd, P, user)
    BY <2>1, <2>2, SameTables
  <2>4. Changed(m, r, pd, P, user)
    <3> HIDE DEF P
    <3>1. Changed(m, r, pd, P \cup P, user)
      BY <2>1, <2>3, ChangedTrans
    <3>2. P \cup P = P
      OBVIOUS
    <3> QED
      BY <3>1, <3>2
  <2>5. ~r.early => AllMapped(m, r, pd, frame, page, n, user)
    BY <2>1, <2>2 DEF AllMapped, Pte
  <2> QED
    BY <2>1, <2>2, <2>3, <2>4, <2>5 DEF PagesOrEarly
<1> QED
  BY <1>3, <1>4, <1>5 DEF SameBut, Fields

-----------------------------------------------------------------------------
(* The heap *)

(* More frames are in use, and nothing else is different that tables are.  *)
LEMMA MoreUsed ==
    ASSUME NEW a, Fit(a), NEW b, DOMAIN b = Fields, b.dir = a.dir, b.tbl = a.tbl,
           a.used \subseteq b.used, b.used \subseteq 0..(Limit - 1),
           NEW pd, NEW P, NEW user
    PROVE  Fit(b) /\ Grown(a, b, pd, P, user)
<1>1. Fit(b)
  BY DEF Fit, Placed, Framed, Linked
<1>2. Grown(a, b, pd, P, user)
  BY DEF Grown, Keeps, EntryKept, Pte
<1> QED
  BY <1>1, <1>2

(* vpalloc changes nothing but its result, a run of n pages.               *)
LEMMA vpallocFinds ==
    ASSUME NEW m, DOMAIN m = Fields, NEW pd, NEW n \in Nat \ {0}, n <= AllPages
    PROVE  LET r == vpalloc(m, pd, n)
           IN  /\ DOMAIN r = Fields
               /\ m.stop => r.stop
               /\ ~r.stop => /\ SameBut(m, r, {"virt"})
                             /\ r.virt \in Nat /\ r.virt + n <= AllPages
<1> DEFINE all == PdEntries * PtEntries
           found == HasZeroRun(Taken(m, pd), n, all)
           v == IF found THEN FirstFit(Taken(m, pd), n, all) ELSE 0
           r == vpalloc(m, pd, n)
<1>1. all \in Nat /\ all = AllPages
  BY PagingAssumption DEF AllPages
<1>2. r = Stop(m) \/ r = [m EXCEPT !.virt = v]
  BY DEF vpalloc
<1>3. v \in Nat /\ v + n <= AllPages
  <2>1. CASE found
    <3> HIDE DEF all
    <3>1. /\ FirstFit(Taken(m, pd), n, all) \in 0..all
          /\ ZeroRun(Taken(m, pd), FirstFit(Taken(m, pd), n, all), n, all)
      BY <1>1, <2>1, FirstFitFits
    <3>2. v = FirstFit(Taken(m, pd), n, all)
      BY <2>1
    <3> HIDE DEF v
    <3> QED
      BY <1>1, <3>1, <3>2 DEF ZeroRun
  <2>2. CASE ~found
    <3>1. v = 0
      BY <2>2
    <3> HIDE DEF v
    <3> QED
      BY <3>1
  <2> QED
    BY <2>1, <2>2
<1> HIDE DEF v, r
<1> QED
  BY <1>2, <1>3 DEF Stop, SameBut, Fields, r

(* Frames that have an owner who is no table.                              *)
Holds(m, X) ==
    /\ X \subseteq m.used \ 0..(Reserved - 1)
    /\ X \cap DOMAIN m.tbl = {}

(* Who has frames keeps them.                                              *)
LEMMA HoldsOn ==
    ASSUME NEW a, NEW b, NEW X, Holds(a, X), Keeps(a, b)
    PROVE  Holds(b, X)
BY DEF Holds, Keeps

(* The run of frames at f was free in a and has an owner in b.             *)
FramesGiven(a, b, f, n) ==
    /\ f \in Nat /\ f + n <= Limit
    /\ Run(f, n) \cap a.used = {}
    /\ Holds(b, Run(f, n))

(* n pages of new frames, as long as there were some.                      *)
Given(m, r, pd, n, user) ==
    /\ Fit(r)
    /\ Grown(m, r, pd, r.virt..(r.virt + n - 1), user)
    /\ r.win = m.win /\ r.own = m.own
    /\ r.virt \in Nat /\ r.virt + n <= AllPages
    /\ r.phys \in Nat
    /\ AllMapped(m, r, pd, r.phys, r.virt, n, user)
    /\ r.phys = Failure \/ FramesGiven(m, r, r.phys, n)

(* What ppalloc returns when it fails is no frame it searches.             *)
LEMMA FailureNat == Failure \in Nat /\ Limit \in Nat /\ Limit < Failure
BY PagingAssumption DEF Failure

(* The second half of palloc_virt_and_phys: an early return is one of the  *)
(* ways it stops.                                                          *)
LEMMA MapBlockGives ==
    ASSUME NEW m, Fit(m), ~m.stop, NEW pd \in Owners, NEW n \in Nat \ {0},
           m.virt \in Nat, m.virt + n <= AllPages, m.phys \in Nat, NEW user,
           NEW r, r = MapBlock(m, pd, n, user)
    PROVE  /\ DOMAIN r = Fields
           /\ ~r.stop => /\ PagesOrEarly(m, r, pd, m.phys, m.virt, n, user)
                         /\ ~r.early /\ r.win = m.win /\ r.phys = m.phys
<1> DEFINE x == map_page(m, pd, m.phys, m.virt, n, user, FALSE)
           y == [x EXCEPT !.phys = m.phys]
<1>0. x = map_page(m, pd, m.phys, m.virt, n, user, FALSE)
  OBVIOUS
<1>2. r = Clear(y, n)
  BY DEF MapBlock
<1> HIDE DEF x, y
<1>1. /\ DOMAIN x = Fields
      /\ ~x.stop => PagesOrEarly(m, x, pd, m.phys, m.virt, n, user)
      /\ ~x.stop /\ ~x.early => x.win = m.win
  <2>1. \A full : x = map_page(m, pd, m.phys, m.virt, n, user, full) =>
            /\ DOMAIN x = Fields
            /\ ~x.stop => PagesOrEarly(m, x, pd, m.phys, m.virt, n, user)
            /\ ~x.stop /\ ~x.early => x.win = m.win
    BY map_pageMaps
  <2> QED
    BY <1>0, <2>1
<1> USE DEF y
<1>3. /\ SameBut(x, y, {"phys"}) /\ y.phys = m.phys
      /\ DOMAIN y = Fields /\ y.stop = x.stop /\ y.early = x.early /\ y.win = x.win
      /\ y.dir = x.dir /\ y.tbl = x.tbl /\ y.used = x.used
      /\ y.own = x.own /\ y.virt = x.virt
  BY <1>1 DEF SameBut, Fields
<1> HIDE DEF y
<1>4. DOMAIN r = Fields
  BY <1>2, <1>3 DEF Clear, Stop
<1>5. ASSUME ~r.stop PROVE r = y /\ ~y.early /\ ~y.stop
  <2>1. r = y \/ r = Stop(y)
    BY <1>2 DEF Clear
  <2>2. r = y
    BY <1>3, <1>5, <2>1 DEF Stop, Fields
  <2>3. ~y.early
    BY <1>2, <1>3, <1>5 DEF Clear, Stop, Fields
  <2> QED
    BY <1>5, <2>2, <2>3
<1>6. ASSUME ~r.stop PROVE PagesOrEarly(m, r, pd, m.phys, m.virt, n, user)
  <2> DEFINE P == m.virt..(m.virt + n - 1)
  <2>1. /\ Fit(x) /\ Changed(m, x, pd, P, user)
        /\ AllMapped(m, x, pd, m.phys, m.virt, n, user)
    BY <1>1, <1>3, <1>5, <1>6 DEF PagesOrEarly
  <2>2. SameBut(x, y, {"win", "tble", "slot", "phys", "early", "stop"})
    BY <1>3 DEF SameBut
  <2>3. Fit(y) /\ Changed(x, y, pd, P, user)
    BY <2>1, <2>2, SameTables
  <2>4. Changed(m, y, pd, P, user)
    <3> HIDE DEF P
    <3>1. Changed(m, y, pd, P \cup P, user)
      BY <2>1, <2>3, ChangedTrans
    <3>2. P \cup P = P
      OBVIOUS
    <3> QED
      BY <3>1, <3>2
  <2>5. AllMapped(m, y, pd, m.phys, m.virt, n, user)
    BY <1>3, <2>1 DEF AllMapped, Pte
  <2> QED
    BY <1>5, <1>6, <2>3, <2>4, <2>5 DEF PagesOrEarly
<1> QED
  BY <1>1, <1>3, <1>4, <1>5, <1>6

(* palloc_virt_and_phys (heap.c): pages where nothing was, mapped to       *)
(* frames nobody had, or to no memory when there were none.                *)
LEMMA PallocGives ==
    ASSUME NEW m, Fit(m), ~m.stop, NEW pd \in Owners, NEW n \in Nat \ {0}, n <= AllPages,
           NEW user, NEW r, r = palloc_virt_and_phys(m, pd, n, user)
    PROVE  DOMAIN r = Fields /\ (~r.stop => Given(m, r, pd, n, user))
<1> DEFINE a == ppalloc(m, n)
           b == vpalloc(a, pd, n)
<1>0. r = MapBlock(b, pd, n, user)
  BY DEF palloc_virt_and_phys
<1>1. /\ SameBut(m, a, {"used", "phys"})
      /\ \/ a.phys = Failure /\ a.used = m.used
         \/ Found(m, a, n)
  BY ppallocFinds DEF Fit
<1> HIDE DEF a
<1>2. /\ DOMAIN a = Fields /\ a.dir = m.dir /\ a.tbl = m.tbl /\ a.win = m.win /\ a.own = m.own
      /\ a.stop = m.stop
      /\ a.phys \in Nat /\ m.used \subseteq a.used /\ a.used \subseteq 0..(Limit - 1)
  <2>1. DOMAIN a = Fields /\ a.dir = m.dir /\ a.tbl = m.tbl /\ a.win = m.win /\ a.own = m.own
        /\ a.stop = m.stop
    BY <1>1 DEF SameBut, Fields
  <2>2. a.phys \in Nat /\ m.used \subseteq a.used
    BY <1>1, FailureNat DEF Found
  <2>3. a.used \subseteq 0..(Limit - 1)
    BY <1>1, FailureNat DEF Found, Run, Fit, Framed
  <2> QED
    BY <2>1, <2>2, <2>3
<1>3. /\ DOMAIN b = Fields
      /\ ~b.stop => /\ SameBut(a, b, {"virt"})
                    /\ b.virt \in Nat /\ b.virt + n <= AllPages
  BY <1>2, vpallocFinds
<1> HIDE DEF b
<1>4. CASE b.stop
  <2>1. r = b
    BY <1>0, <1>4 DEF MapBlock
  <2> QED
    BY <1>3, <1>4, <2>1
<1>5. CASE ~b.stop
  <2>1. /\ b.used = a.used /\ b.dir = m.dir /\ b.tbl = m.tbl /\ b.win = m.win /\ b.own = m.own
        /\ b.phys = a.phys /\ b.virt \in Nat /\ b.virt + n <= AllPages
    BY <1>2, <1>3, <1>5 DEF SameBut, Fields
  <2> DEFINE P == b.virt..(b.virt + n - 1)
  <2>2. Fit(b) /\ Grown(m, b, pd, P, user)
    BY <1>2, <1>3, <2>1, MoreUsed
  <2>5. Fit(b) /\ ~b.stop /\ b.virt \in Nat /\ b.virt + n <= AllPages /\ b.phys \in Nat
    BY <1>2, <1>5, <2>1, <2>2
  <2>3. /\ DOMAIN r = Fields
        /\ ~r.stop => /\ PagesOrEarly(b, r, pd, b.phys, b.virt, n, user)
                      /\ ~r.early /\ r.win = b.win /\ r.phys = b.phys
    BY <1>0, <2>5, MapBlockGives
  <2>4. ASSUME ~r.stop PROVE Given(m, r, pd, n, user)
    <3>1. /\ Fit(r) /\ Changed(b, r, pd, P, user)
          /\ AllMapped(b, r, pd, b.phys, b.virt, n, user)
          /\ r.win = b.win /\ r.phys = b.phys /\ r.virt = b.virt /\ r.own = b.own
      BY <2>3, <2>4 DEF PagesOrEarly, Changed
    <3>2. Grown(m, r, pd, P, user)
      <4> HIDE DEF P
      <4>1. Grown(b, r, pd, P, user)
        BY <3>1 DEF Changed
      <4>2. Grown(m, r, pd, P \cup P, user)
        BY <2>2, <3>1, <4>1, GrownTrans
      <4>3. P \cup P = P
        OBVIOUS
      <4> QED
        BY <4>2, <4>3
    <3>3. AllMapped(m, r, pd, r.phys, r.virt, n, user)
      BY <2>1, <3>1 DEF AllMapped, Pte
    <3>4. ASSUME r.phys # Failure PROVE FramesGiven(m, r, r.phys, n)
      <4>1. Found(m, a, n) /\ r.phys = a.phys
        BY <1>1, <2>1, <3>1, <3>4
      <4> DEFINE X == Run(r.phys, n)
      <4>2. X \subseteq b.used /\ X \cap m.used = {} /\ r.phys + n <= Limit
        BY <2>1, <4>1 DEF Found
      <4> HIDE DEF X
      <4>3. Holds(b, X)
        BY <2>1, <4>2 DEF Holds, Fit, Framed
      <4>4. Keeps(b, r)
        BY <3>1 DEF Changed, Grown
      <4>5. Holds(r, X)
        BY <4>3, <4>4, HoldsOn
      <4> QED
        BY <1>2, <2>1, <3>1, <4>2, <4>5 DEF FramesGiven, X
    <3> QED
      BY <1>2, <2>1, <3>1, <3>2, <3>3, <3>4 DEF Given
  <2> QED
    BY <2>3, <2>4
<1> QED
  BY <1>4, <1>5

(* Quotient and remainder.                                                 *)
LEMMA Quotient ==
    ASSUME NEW x \in Nat, NEW d \in Nat \ {0}
    PROVE  x \div d \in Nat /\ x % d \in 0..(d - 1) /\ x = d * (x \div d) + (x % d)
BY SMT

(* A number of bytes below 2^32 has no more pages than there are.          *)
LEMMA PagesBounded ==
    ASSUME NEW x \in Nat
    PROVE  (x % Word) \div PageSize \in Nat /\ (x % Word) \div PageSize <= AllPages
<1>0. /\ Word \in Nat \ {0} /\ PageSize \in Nat \ {0} /\ AllPages \in Nat
      /\ Word <= AllPages * PageSize
  BY PagingAssumption DEF AllPages
<1> DEFINE y == x % Word
           q == y \div PageSize
<1>1. y \in Nat /\ y < Word
  BY <1>0, Quotient
<1> HIDE DEF y
<1>2. q \in Nat /\ PageSize * q <= y
  BY <1>0, <1>1, Quotient
<1> HIDE DEF q
<1>3. q <= AllPages
  <2> SUFFICES ASSUME AllPages < q PROVE FALSE
    BY <1>0, <1>2
  <2>1. PICK j \in Nat : q = AllPages + j
    <3>1. q - AllPages \in Nat /\ q = AllPages + (q - AllPages)
      BY <1>0, <1>2
    <3> QED
      BY <3>1
  <2>2. PageSize * q = AllPages * PageSize + PageSize * j /\ PageSize * j \in Nat
        /\ AllPages * PageSize \in Nat /\ PageSize * q \in Nat
    BY <1>0, <2>1
  <2> QED
    BY <1>0, <1>1, <1>2, <2>2
<1> QED
  BY <1>2, <1>3 DEF q, y

(* amalloc takes one page more than the segment fills.                     *)
AmallocPages(s) == ((s.p_memsz + 2 * PageSize - 1) % Word) \div PageSize

(* A segment that lies in memory fills pages, and the sum that rounds its  *)
(* size does not wrap.                                                     *)
LEMMA SegmentSizes ==
    ASSUME NEW s, s.p_memsz \in Nat \ {0}, s.p_memsz + 2 * PageSize <= Word
    PROVE  SegmentPages(s) \in Nat \ {0} /\ AmallocPages(s) = SegmentPages(s) + 1
           /\ AmallocPages(s) <= AllPages
<1>0. Word \in Nat \ {0} /\ PageSize \in Nat \ {0}
  BY PagingAssumption
<1> DEFINE b == s.p_memsz
           x == b + PageSize - 1
           y == b + 2 * PageSize - 1
<1>1. x \in Nat /\ y \in Nat /\ x < Word /\ y < Word /\ y = x + PageSize /\ PageSize <= x
  BY <1>0
<1>2. SegmentPages(s) = (x % Word) \div PageSize /\ AmallocPages(s) = (y % Word) \div PageSize
  BY DEF SegmentPages, AmallocPages
<1>3. AmallocPages(s) <= AllPages
  BY <1>1, <1>2, PagesBounded
<1> HIDE DEF x, y, b
<1>4. x % Word = x /\ y % Word = y
  BY <1>0, <1>1, SMT
<1>5. y \div PageSize = x \div PageSize + 1
  <2> DEFINE p == x \div PageSize
             q == y \div PageSize
             i == x % PageSize
             j == y % PageSize
  <2>1. /\ p \in Nat /\ q \in Nat /\ i \in 0..(PageSize - 1) /\ j \in 0..(PageSize - 1)
        /\ x = PageSize * p + i /\ y = PageSize * q + j
    BY <1>0, <1>1, Quotient
  <2> HIDE DEF p, q, i, j
  <2>2. PageSize * (p + 1) = PageSize * p + PageSize
    BY <1>0, <2>1
  <2>3. PageSize * q + j = PageSize * (p + 1) + i
    BY <1>0, <1>1, <2>1, <2>2
  <2>4. q = p + 1
    BY <1>0, <2>1, <2>3, SMT
  <2> QED
    BY <2>4 DEF p, q
<1>6. x \div PageSize # 0 /\ x \div PageSize \in Nat
  <2> DEFINE p == x \div PageSize
             i == x % PageSize
  <2>1. p \in Nat /\ i \in 0..(PageSize - 1) /\ x = PageSize * p + i
    BY <1>0, <1>1, Quotient
  <2> HIDE DEF p, i
  <2>2. p # 0
    <3> SUFFICES ASSUME p = 0 PROVE FALSE
      OBVIOUS
    <3>1. PageSize * p = 0
      BY <1>0
    <3> QED
      BY <1>0, <1>1, <2>1, <3>1
  <2> QED
    BY <2>1, <2>2 DEF p
<1> QED
  BY <1>2, <1>3, <1>4, <1>5, <1>6

(* What one directory maps, another or the same maps later.                *)
DirsKept(a, o, b, q) ==
    \A d \in Dirs : \/ a.dir[o][d] = Absent
                    \/ a.dir[o][d] = KernelEntry
                    \/ b.dir[q][d] = a.dir[o][d]

(* A page that is mapped stays where it is.                                *)
LEMMA PteKept ==
    ASSUME NEW a, Fit(a), NEW b, Keeps(a, b), NEW o \in Owners, NEW q,
           DirsKept(a, o, b, q), NEW p \in VirtualPages, Pte(a, o, p) # NoPage
    PROVE  /\ Pte(b, q, p) = Pte(a, o, p)
           /\ b.dir[q][Dir(p)] = a.dir[o][Dir(p)]
           /\ a.dir[o][Dir(p)].at \in DOMAIN a.tbl
<1> DEFINE t == a.dir[o][Dir(p)].at
<1>0. LowPages \in 0..(Reserved - 1) /\ Reserved \in Nat
  BY PagingAssumption
<1>1. Dir(p) \in Dirs /\ Ent(p) \in Ents
  BY DirEnt
<1>2. t \in DOMAIN a.tbl
  BY DEF Pte
<1>3. a.dir[o][Dir(p)] # Absent /\ a.dir[o][Dir(p)] # KernelEntry
  <2>1. DOMAIN a.tbl \subseteq Nat /\ LowPages \notin DOMAIN a.tbl
    BY <1>0, FailureNat DEF Fit, Framed
  <2> QED
    BY <1>2, <2>1 DEF Absent, KernelEntry, None
<1>4. b.dir[q][Dir(p)] = a.dir[o][Dir(p)]
  BY <1>1, <1>3 DEF DirsKept
<1>5. t \in DOMAIN b.tbl /\ (a.tbl[t][Ent(p)] # NoPage => b.tbl[t][Ent(p)] = a.tbl[t][Ent(p)])
  BY <1>1, <1>2 DEF Keeps
<1>6. a.tbl[t][Ent(p)] # NoPage /\ Pte(a, o, p) = a.tbl[t][Ent(p)]
  BY <1>2 DEF Pte
<1>7. Pte(b, q, p) = b.tbl[t][Ent(p)]
  BY <1>4, <1>5 DEF Pte
<1> QED
  BY <1>2, <1>4, <1>5, <1>6, <1>7

(* Keeping twice is keeping.                                               *)
LEMMA KeepsTrans ==
    ASSUME NEW a, NEW b, NEW c, Fit(a), Fit(b), Keeps(a, b), Keeps(b, c)
    PROVE  Keeps(a, c)
BY DEF Keeps

(* The same for DirsKept.                                                  *)
LEMMA DirsKeptTrans ==
    ASSUME NEW a, NEW b, NEW c, NEW o, NEW q, NEW r,
           DirsKept(a, o, b, q), DirsKept(b, q, c, r)
    PROVE  DirsKept(a, o, c, r)
BY DEF DirsKept

(* A directory that grew maps what it mapped.                              *)
LEMMA GrownDirs ==
    ASSUME NEW a, NEW b, NEW pd \in Owners, NEW P, NEW user, Grown(a, b, pd, P, user),
           NEW o \in Owners
    PROVE  DirsKept(a, o, b, o) /\ Keeps(a, b)
BY DEF Grown, EntryKept, DirsKept

(* A block: its pages are mapped to its frames, which are its own.         *)
BlockFit(m, pd, b) ==
    /\ b.page \in Nat /\ b.pages \in Nat \ {0} /\ b.page + b.pages <= AllPages
    /\ b.phys \in Nat
    /\ \A k \in 0..(b.pages - 1) :
            Pte(m, pd, b.page + k) = [at |-> (b.phys + k) % FrameSpace, user |-> b.user]

(* The pages of a run are pages.                                           *)
LEMMA PageInRange ==
    ASSUME NEW v \in Nat, NEW n \in Nat, v + n <= AllPages
    PROVE  v..(v + n - 1) \subseteq VirtualPages
           /\ \A k \in 0..(n - 1) : v + k \in VirtualPages /\ v + k \in v..(v + n - 1)
<1> DEFINE all == PdEntries * PtEntries
<1>1. all \in Nat /\ v + n <= all
  BY PagingAssumption DEF AllPages
<1> HIDE DEF all
<1>2. v..(v + n - 1) \subseteq 0..(all - 1)
  BY <1>1
<1>3. \A k \in 0..(n - 1) : v + k \in v..(v + n - 1)
  OBVIOUS
<1> QED
  BY <1>2, <1>3 DEF VirtualPages, all

(* An entry with a frame is present.                                       *)
LEMMA Present ==
    ASSUME NEW f \in Nat, NEW user
    PROVE  [at |-> f % FrameSpace, user |-> user] # NoPage
<1>1. f % FrameSpace \in 0..(FrameSpace - 1)
  BY PagingAssumption
<1> QED
  BY <1>1 DEF NoPage, None

(* A block stays where it is, also in a copy of the directory.             *)
LEMMA BlockFitOn ==
    ASSUME NEW a, Fit(a), NEW b, Keeps(a, b), NEW o \in Owners, NEW q,
           DirsKept(a, o, b, q), NEW block, BlockFit(a, o, block)
    PROVE  BlockFit(b, q, block)
<1> SUFFICES ASSUME NEW k \in 0..(block.pages - 1)
             PROVE  Pte(b, q, block.page + k)
                        = [at |-> (block.phys + k) % FrameSpace, user |-> block.user]
  BY DEF BlockFit
<1>1. /\ block.page \in Nat /\ block.pages \in Nat /\ block.page + block.pages <= AllPages
      /\ block.phys \in Nat
  BY DEF BlockFit
<1>2. block.page + k \in VirtualPages
  BY <1>1, PageInRange
<1>3. block.phys + k \in Nat
  BY <1>1
<1>4. Pte(a, o, block.page + k) = [at |-> (block.phys + k) % FrameSpace, user |-> block.user]
  BY DEF BlockFit
<1>5. Pte(a, o, block.page + k) # NoPage
  BY <1>3, <1>4, Present
<1> QED
  BY <1>2, <1>4, <1>5, PteKept

-----------------------------------------------------------------------------
(* The loader *)

(* While a program is loaded: what the kernel had before, in both          *)
(* directories.                                                            *)
Stage(m0, m) ==
    /\ Fit(m)
    /\ Keeps(m0, m)
    /\ DirsKept(m0, "kernel", m, "kernel")
    /\ DirsKept(m0, "kernel", m, "prog")

(* Outside of the entries the kernel had, the program's tables are the     *)
(* program's alone.                                                        *)
PrivateEntry(m, d) ==
    /\ m.dir["prog"][d].user = TRUE
    /\ m.dir["prog"][d].at \in DOMAIN m.tbl
    /\ \A c \in Dirs : m.dir["kernel"][c].at # m.dir["prog"][d].at
Private(m, M) ==
    \A d \in Dirs : d \in M \/ m.dir["prog"][d] = Absent \/ PrivateEntry(m, d)

(* and nothing is mapped there but the pages of Q.                         *)
Unmapped(m, M, Q) ==
    \A p \in VirtualPages : Dir(p) \in M \/ p \in Q \/ Pte(m, "prog", p) = NoPage

(* n pages the program may use are mapped to the frames from one on.       *)
LinkedAt(m, frame, page, n) ==
    \A j \in 0..(n - 1) :
        Pte(m, "prog", page + j) = [at |-> (frame + j) % FrameSpace, user |-> TRUE]

(* The program's directory is mapped in itself and has the frame f.        *)
DirectoryAt(m, f) ==
    /\ f \in Nat /\ Holds(m, {f})
    /\ Pte(m, "prog", DirPage) # NoPage /\ Pte(m, "prog", DirPage).at = f

(* Pages that are linked stay so.                                          *)
LEMMA LinkedOn ==
    ASSUME NEW a, Fit(a), NEW b, Keeps(a, b), DirsKept(a, "prog", b, "prog"),
           NEW frame \in Nat, NEW page \in Nat, NEW n \in Nat, page + n <= AllPages,
           LinkedAt(a, frame, page, n)
    PROVE  LinkedAt(b, frame, page, n)
<1> SUFFICES ASSUME NEW j \in 0..(n - 1)
             PROVE  Pte(b, "prog", page + j) = [at |-> (frame + j) % FrameSpace, user |-> TRUE]
  BY DEF LinkedAt
<1>1. page + j \in VirtualPages
  BY PageInRange
<1>2. Pte(a, "prog", page + j) = [at |-> (frame + j) % FrameSpace, user |-> TRUE]
  BY DEF LinkedAt
<1>3. \A user : [at |-> (frame + j) % FrameSpace, user |-> user] # NoPage
  BY Present
<1>4. "prog" \in Owners /\ Pte(a, "prog", page + j) # NoPage
  BY <1>2, <1>3 DEF Owners
<1> QED
  BY <1>1, <1>2, <1>4, PteKept

(* The page of the directory is a page.                                    *)
LEMMA DirPageInRange == DirPage \in VirtualPages
<1> DEFINE all == PdEntries * PtEntries
<1>1. DirPage \in Nat /\ DirPage < all /\ all \in Nat
  BY PagingAssumption
<1> HIDE DEF all
<1> QED
  BY <1>1 DEF VirtualPages, all

(* The directory stays where it is mapped.                                 *)
LEMMA DirectoryOn ==
    ASSUME NEW a, Fit(a), NEW b, Keeps(a, b), DirsKept(a, "prog", b, "prog"),
           NEW f, DirectoryAt(a, f)
    PROVE  DirectoryAt(b, f)
<1>1. Pte(b, "prog", DirPage) = Pte(a, "prog", DirPage)
  BY DirPageInRange, PteKept DEF DirectoryAt, Owners
<1> QED
  BY <1>1, HoldsOn DEF DirectoryAt

(* Tables the kernel opens are its own, and so are the pages it maps.      *)
LEMMA KernelGrows ==
    ASSUME NEW m0, Fit(m0), NEW a, Stage(m0, a), NEW b, Fit(b), NEW P, NEW user,
           Grown(a, b, "kernel", P, user), NEW M, NEW Q, Private(a, M), Unmapped(a, M, Q)
    PROVE  /\ Stage(m0, b) /\ Private(b, M) /\ Unmapped(b, M, Q)
           /\ DirsKept(a, "prog", b, "prog")
<1>0. "kernel" \in Owners /\ "prog" \in Owners /\ "kernel" # "prog"
  BY DEF Owners
<1>1. /\ Keeps(a, b) /\ DirsKept(a, "kernel", b, "kernel") /\ DirsKept(a, "prog", b, "prog")
      /\ b.dir["prog"] = a.dir["prog"]
  BY <1>0, GrownDirs DEF Grown
<1>2. Stage(m0, b)
  BY <1>1, KeepsTrans, DirsKeptTrans DEF Stage
<1>3. DOMAIN a.tbl \subseteq a.used /\ DOMAIN a.tbl \subseteq DOMAIN b.tbl
  BY <1>1 DEF Stage, Fit, Framed, Keeps
<1>4. ASSUME NEW d \in Dirs, d \notin M, a.dir["prog"][d] # Absent
      PROVE  PrivateEntry(b, d) /\ b.tbl[a.dir["prog"][d].at] = a.tbl[a.dir["prog"][d].at]
  <2> DEFINE t == a.dir["prog"][d].at
  <2>1. PrivateEntry(a, d)
    BY <1>4 DEF Private
  <2>2. t \in DOMAIN a.tbl /\ \A c \in Dirs : a.dir["kernel"][c].at # t
    BY <2>1 DEF PrivateEntry
  <2>3. \A c \in Dirs : b.dir["kernel"][c].at # t
    BY <1>3, <2>2 DEF Grown, EntryKept
  <2>4. b.tbl[t] = a.tbl[t]
    BY <2>2 DEF Grown
  <2> QED
    BY <1>1, <1>3, <2>1, <2>2, <2>3, <2>4 DEF PrivateEntry
<1>5. Private(b, M)
  BY <1>1, <1>4 DEF Private
<1>6. ASSUME NEW p \in VirtualPages, Dir(p) \notin M, p \notin Q
      PROVE  Pte(b, "prog", p) = NoPage
  <2>1. Dir(p) \in Dirs
    BY DirEnt
  <2>2. Pte(a, "prog", p) = NoPage
    BY <1>6 DEF Unmapped
  <2>3. CASE a.dir["prog"][Dir(p)] = Absent
    <3>1. b.dir["prog"][Dir(p)].at = None
      BY <1>1, <2>3 DEF Absent
    <3>2. None \notin DOMAIN b.tbl
      BY FailureNat DEF Fit, Framed, None
    <3> QED
      BY <3>1, <3>2 DEF Pte
  <2>4. CASE a.dir["prog"][Dir(p)] # Absent
    <3>1. PrivateEntry(a, Dir(p))
      BY <1>6, <2>1, <2>4 DEF Private
    <3> QED
      BY <1>1, <1>3, <1>4, <1>6, <2>1, <2>2, <2>4, <3>1 DEF Pte, PrivateEntry
  <2> QED
    BY <2>3, <2>4
<1>7. Unmapped(b, M, Q)
  BY <1>6 DEF Unmapped
<1> QED
  BY <1>1, <1>2, <1>5, <1>7

(* Tables that are opened in the program's directory are new.              *)
LEMMA ProgGrows ==
    ASSUME NEW m0, Fit(m0), NEW a, Stage(m0, a), NEW b, Fit(b), NEW P,
           NEW user, Grown(a, b, "prog", P, user),
           NEW M, NEW Q, Private(a, M), Unmapped(a, M, Q)
    PROVE  /\ Stage(m0, b) /\ Unmapped(b, M, Q \cup P)
           /\ DirsKept(a, "prog", b, "prog") /\ Keeps(a, b)
           /\ user = TRUE => Private(b, M)
<1>0. "kernel" \in Owners /\ "prog" \in Owners /\ "kernel" # "prog"
  BY DEF Owners
<1>1. /\ Keeps(a, b) /\ DirsKept(a, "kernel", b, "kernel") /\ DirsKept(a, "prog", b, "prog")
      /\ b.dir["kernel"] = a.dir["kernel"]
  BY <1>0, GrownDirs DEF Grown
<1>2. Stage(m0, b)
  BY <1>1, KeepsTrans, DirsKeptTrans DEF Stage
<1>3. DOMAIN a.tbl \subseteq a.used /\ DOMAIN a.tbl \subseteq DOMAIN b.tbl
      /\ LowPages \notin DOMAIN b.tbl /\ None \notin DOMAIN b.tbl
  <2>1. LowPages \in 0..(Reserved - 1)
    BY PagingAssumption
  <2> QED
    BY <1>1, <2>1, FailureNat DEF Stage, Fit, Framed, Keeps, None
<1>4. ASSUME user = TRUE, NEW d \in Dirs, d \notin M, b.dir["prog"][d] # Absent
      PROVE  PrivateEntry(b, d)
  <2>1. EntryKept(a, b, "prog", d, P, user)
    BY DEF Grown
  <2>2. CASE b.dir["prog"][d] = a.dir["prog"][d]
    BY <1>1, <1>3, <1>4, <2>2 DEF Private, PrivateEntry
  <2>3. CASE b.dir["prog"][d] # a.dir["prog"][d]
    <3> DEFINE t == b.dir["prog"][d].at
    <3>1. b.dir["prog"][d].user = TRUE /\ t \in DOMAIN b.tbl /\ t \notin a.used
      BY <1>4, <2>1, <2>3 DEF EntryKept
    <3>2. ASSUME NEW c \in Dirs PROVE a.dir["kernel"][c].at # t
      <4>1. \/ a.dir["kernel"][c] = Absent \/ a.dir["kernel"][c] = KernelEntry
            \/ a.dir["kernel"][c].at \in DOMAIN a.tbl
        BY <1>0 DEF Stage, Fit, Linked
      <4>2. Absent.at = None /\ KernelEntry.at = LowPages
        BY DEF Absent, KernelEntry
      <4> QED
        BY <1>3, <3>1, <4>1, <4>2
    <3> QED
      BY <1>1, <3>1, <3>2 DEF PrivateEntry
  <2> QED
    BY <2>2, <2>3
<1>5. user = TRUE => Private(b, M)
  BY <1>4 DEF Private
<1>6. Unmapped(b, M, Q \cup P)
  BY DEF Unmapped, Grown
<1> QED
  BY <1>1, <1>2, <1>5, <1>6

(* amalloc: the header names the second of n pages of new frames.          *)
Amalloced(m, r, n) ==
    /\ Fit(r)
    /\ \E P, user : Grown(m, r, "kernel", P, user)
    /\ r.win = m.win /\ r.own = m.own
    /\ r.phys \in Nat \ {0} /\ FramesGiven(m, r, r.phys - 1, n)
    /\ Pte(r, "kernel", r.virt + 1).at = r.phys

(* amalloc (heap.c) for a segment: without frames it stops.                *)
LEMMA amallocGives ==
    ASSUME NEW m, Fit(m), ~m.stop, NEW s, s.p_memsz \in Nat \ {0},
           s.p_memsz + 2 * PageSize <= Word, NEW r, r = amalloc(m, s.p_memsz)
    PROVE  DOMAIN r = Fields /\ (~r.stop => Amalloced(m, r, AmallocPages(s)))
<1> DEFINE n == AmallocPages(s)
           a == palloc_virt_and_phys(m, "kernel", n, FALSE)
<1>1. n \in Nat /\ n >= 2 /\ n <= AllPages
  <2> HIDE DEF n
  <2>1. SegmentPages(s) \in Nat \ {0} /\ n = SegmentPages(s) + 1 /\ n <= AllPages
    BY SegmentSizes DEF n
  <2> QED
    BY <2>1
<1>2. r = Second(a)
  BY DEF amalloc, AmallocPages
<1>3. DOMAIN a = Fields /\ (~a.stop => \E user : Given(m, a, "kernel", n, user))
  <2>1. "kernel" \in Owners /\ n \in Nat \ {0} /\ n <= AllPages
    BY <1>1 DEF Owners
  <2> HIDE DEF n
  <2>2. \A user, x : x = palloc_virt_and_phys(m, "kernel", n, user) =>
            DOMAIN x = Fields /\ (~x.stop => Given(m, x, "kernel", n, user))
    BY <2>1, PallocGives
  <2>3. \A user : LET x == palloc_virt_and_phys(m, "kernel", n, user)
                  IN  DOMAIN x = Fields /\ (~x.stop => \E u : Given(m, x, "kernel", n, u))
    BY <2>2
  <2> QED
    BY <2>3
<1> HIDE DEF a, n
<1>4. DOMAIN r = Fields
  BY <1>2, <1>3 DEF Second, Stop
<1>5. ASSUME ~r.stop PROVE Amalloced(m, r, n)
  <2>1. /\ a.phys # Failure /\ ~a.stop
        /\ r.used = a.used /\ r.dir = a.dir /\ r.tbl = a.tbl /\ r.win = a.win
        /\ r.own = a.own /\ r.virt = a.virt /\ r.phys = a.phys + 1
    BY <1>2, <1>3, <1>5 DEF Second, Stop, Fields
  <2>2. PICK user : Given(m, a, "kernel", n, user)
    BY <1>3, <2>1
  <2>3. Fit(r)
    <3>1. Fit(a)
      BY <2>2 DEF Given
    <3>2. Placed(r)
      BY <2>1, <3>1 DEF Fit, Placed
    <3>3. Framed(r)
      BY <2>1, <3>1 DEF Fit, Framed
    <3>4. Linked(r)
      BY <2>1, <3>1 DEF Fit, Linked
    <3> QED
      BY <1>4, <3>2, <3>3, <3>4 DEF Fit
  <2>4. \E P : Grown(m, r, "kernel", P, user)
    <3>1. PICK P : Grown(m, a, "kernel", P, user)
      BY <2>2 DEF Given
    <3>2. Grown(m, r, "kernel", P, user)
      <4>1. r.used = a.used /\ r.dir = a.dir /\ r.tbl = a.tbl
        BY <2>1
      <4>2. \A p : Pte(r, "kernel", p) = Pte(a, "kernel", p)
        BY <4>1 DEF Pte
      <4>3. Keeps(m, r)
        BY <3>1, <4>1 DEF Grown, Keeps
      <4>4. \A d \in Dirs : EntryKept(m, r, "kernel", d, P, user)
        BY <3>1, <4>1 DEF Grown, EntryKept
      <4> QED
        BY <3>1, <4>1, <4>2, <4>3, <4>4 DEF Grown
    <3> QED
      BY <3>2
  <2>5. a.phys \in Nat /\ FramesGiven(m, a, a.phys, n)
    BY <2>1, <2>2 DEF Given
  <2>6. r.phys \in Nat \ {0} /\ r.phys - 1 = a.phys
    BY <2>1, <2>5
  <2>7. FramesGiven(m, r, r.phys - 1, n)
    BY <2>1, <2>5, <2>6 DEF FramesGiven, Holds
  <2>8. Pte(r, "kernel", r.virt + 1).at = r.phys
    <3>1. 1 \in 0..(n - 1)
      BY <1>1
    <3>2. Pte(a, "kernel", a.virt + 1) = [at |-> (a.phys + 1) % FrameSpace, user |-> user]
      BY <2>2, <3>1 DEF Given, AllMapped
    <3>3. a.phys + 1 < FrameSpace /\ a.phys + 1 \in Nat /\ FrameSpace \in Nat
      BY <1>1, <2>5, PagingAssumption DEF FramesGiven
    <3>4. (a.phys + 1) % FrameSpace = a.phys + 1
      BY <3>3, SMT
    <3>5. Pte(r, "kernel", r.virt + 1) = Pte(a, "kernel", a.virt + 1)
      BY <2>1 DEF Pte
    <3> QED
      BY <2>1, <3>2, <3>4, <3>5
  <2>9. r.win = m.win /\ r.own = m.own
    BY <2>1, <2>2 DEF Given
  <2> QED
    BY <2>3, <2>4, <2>6, <2>7, <2>8, <2>9 DEF Amalloced
<1> QED
  BY <1>4, <1>5 DEF n

(* map_page for the program: n pages from one on are mapped to the frames  *)
(* from f on, or one of them was present.                                  *)
ProgMapped(m, r, f, page, n) ==
    /\ Fit(r)
    /\ \E user : user = TRUE /\ Grown(m, r, "prog", page..(page + n - 1), user)
    /\ r.own = m.own
    /\ \/ r.win = m.win /\ LinkedAt(r, f, page, n)
       \/ \E q \in page..(page + n - 1) : Pte(m, "prog", q) # NoPage

(* map_page for the program, when it passes user_page.                     *)
LEMMA UserMaps ==
    ASSUME NEW m, Fit(m), ~m.stop, NEW f \in Nat, NEW page \in Nat, NEW n \in Nat,
           page + n <= AllPages, NEW user, NEW full,
           NEW r, r = map_page(m, "prog", f, page, n, user, full)
    PROVE  DOMAIN r = Fields /\ (~r.stop /\ user = TRUE => ProgMapped(m, r, f, page, n))
<1>1. "prog" \in Owners
  BY DEF Owners
<1>2. /\ DOMAIN r = Fields
      /\ ~r.stop => PagesOrEarly(m, r, "prog", f, page, n, user)
      /\ ~r.stop /\ ~r.early => r.win = m.win
  BY <1>1, map_pageMaps
<1>3. ASSUME ~r.stop, user = TRUE PROVE ProgMapped(m, r, f, page, n)
  <2>1. /\ Fit(r) /\ Grown(m, r, "prog", page..(page + n - 1), user) /\ r.own = m.own
        /\ r.early => \E q \in page..(page + n - 1) : Pte(m, "prog", q) # NoPage
        /\ ~r.early => AllMapped(m, r, "prog", f, page, n, user)
    BY <1>2, <1>3 DEF PagesOrEarly, Changed
  <2>2. ~r.early => LinkedAt(r, f, page, n)
    BY <1>3, <2>1 DEF AllMapped, LinkedAt
  <2> QED
    BY <1>2, <1>3, <2>1, <2>2 DEF ProgMapped
<1> QED
  BY <1>2, <1>3

(* map_page as the loader calls it.                                        *)
LEMMA ProgMaps ==
    ASSUME NEW m, Fit(m), ~m.stop, NEW f \in Nat, NEW page \in Nat, NEW n \in Nat,
           page + n <= AllPages
    PROVE  LET r == map_page(m, "prog", f, page, n, TRUE, FALSE)
           IN  DOMAIN r = Fields /\ (~r.stop => ProgMapped(m, r, f, page, n))
<1>1. \A user, full : LET r == map_page(m, "prog", f, page, n, user, full)
                      IN  user = TRUE =>
                            DOMAIN r = Fields /\ (~r.stop => ProgMapped(m, r, f, page, n))
  BY UserMaps
<1> QED
  BY <1>1

(* What the loader is given.                                               *)
SegmentFits(s) ==
    /\ s.p_vaddr \in Nat /\ s.p_memsz \in Nat \ {0}
    /\ s.p_memsz + 2 * PageSize <= Word
    /\ FirstPage(s) + SegmentPages(s) <= AllPages
SegmentsFit(segs) == Len(segs) \in Nat /\ \A k \in 1..Len(segs) : SegmentFits(segs[k])

(* The frames of segment j with the page of its header, as in SegmentUses. *)
SegRun(img, segs, j) == (img[j] - 1)..(img[j] + SegmentPages(segs[j]) - 1)

(* Segment j has frames nobody had before the load, and not that of the    *)
(* directory F.                                                            *)
SegmentGiven(m0, m, img, segs, j, F) ==
    /\ img[j] \in Nat \ {0} /\ img[j] + SegmentPages(segs[j]) <= Limit
    /\ Holds(m, SegRun(img, segs, j))
    /\ SegRun(img, segs, j) \cap m0.used = {}
    /\ F \notin SegRun(img, segs, j)

(* The first k segments have, and share none.                              *)
SegmentsGiven(m0, m, img, segs, k, F) ==
    /\ \A j \in 1..k : SegmentGiven(m0, m, img, segs, j, F)
    /\ \A i, j \in 1..k : i = j \/ SegRun(img, segs, i) \cap SegRun(img, segs, j) = {}

(* The pages of the first k segments are mapped to their frames.           *)
SegmentsLinked(m, img, segs, k) ==
    \A j \in 1..k : LinkedAt(m, img[j], FirstPage(segs[j]), SegmentPages(segs[j]))

(* The pages of the first k segments.                                      *)
PagesUpTo(segs, k) == UNION {PagesOf(segs[j]) : j \in 1..k}

(* The pages of the stack.                                                 *)
StackRange == StackPage..(StackPage + StackPages - 1)

(* What Apart says, of entries M the kernel had.                           *)
ApartFrom(segs, M) ==
    /\ \A j, k \in 1..Len(segs) : j = k \/ PagesOf(segs[j]) \cap PagesOf(segs[k]) = {}
    /\ \A k \in 1..Len(segs) :
            /\ PagesOf(segs[k]) \cap StackRange = {}
            /\ {Dir(p) : p \in PagesOf(segs[k])} \cap M = {}
    /\ Dir(StackPage) \notin M

(* The directory that is being filled has the only slot that is taken.     *)
Windows(m) == m.own \notin Permanent /\ m.win = Permanent \cup {m.own}

(* The loader after k segments, from memory m0 on, with the directory in   *)
(* frame F.                                                                *)
Loading(m0, M, F, segs, m, img, k) ==
    /\ Stage(m0, m) /\ Private(m, M) /\ Unmapped(m, M, PagesUpTo(segs, k))
    /\ DirectoryAt(m, F) /\ F \notin m0.used
    /\ m.own \in Nat
    /\ img \in Seq(Nat) /\ Len(img) = k
    /\ SegmentsGiven(m0, m, img, segs, k, F)
    /\ ApartFrom(segs, M) => Windows(m) /\ SegmentsLinked(m, img, segs, k)

(* What segments were given they keep.                                     *)
LEMMA SegmentsGivenOn ==
    ASSUME NEW m0, NEW a, NEW b, Keeps(a, b), NEW img, NEW segs, NEW k, NEW F,
           SegmentsGiven(m0, a, img, segs, k, F)
    PROVE  SegmentsGiven(m0, b, img, segs, k, F)
<1>1. ASSUME NEW j \in 1..k PROVE SegmentGiven(m0, b, img, segs, j, F)
  <2>1. SegmentGiven(m0, a, img, segs, j, F)
    BY DEF SegmentsGiven
  <2>2. Holds(b, SegRun(img, segs, j))
    BY <2>1, HoldsOn DEF SegmentGiven
  <2> QED
    BY <2>1, <2>2 DEF SegmentGiven
<1> QED
  BY <1>1 DEF SegmentsGiven

(* Where segments were linked they stay.                                   *)
LEMMA SegmentsLinkedOn ==
    ASSUME NEW a, Fit(a), NEW b, Keeps(a, b), DirsKept(a, "prog", b, "prog"),
           NEW segs, SegmentsFit(segs), NEW k \in 0..Len(segs), NEW img \in Seq(Nat), Len(img) = k,
           SegmentsLinked(a, img, segs, k)
    PROVE  SegmentsLinked(b, img, segs, k)
<1> SUFFICES ASSUME NEW j \in 1..k
             PROVE  LinkedAt(b, img[j], FirstPage(segs[j]), SegmentPages(segs[j]))
  BY DEF SegmentsLinked
<1>1. j \in 1..Len(segs) /\ img[j] \in Nat
  BY DEF SegmentsFit
<1>2. SegmentFits(segs[j])
  BY <1>1 DEF SegmentsFit
<1>3. FirstPage(segs[j]) \in Nat
  BY <1>2, Quotient, PagingAssumption DEF SegmentFits, FirstPage
<1>4. SegmentPages(segs[j]) \in Nat
  BY <1>2, SegmentSizes DEF SegmentFits
<1>5. LinkedAt(a, img[j], FirstPage(segs[j]), SegmentPages(segs[j]))
  BY DEF SegmentsLinked
<1> QED
  BY <1>1, <1>2, <1>3, <1>4, <1>5, LinkedOn DEF SegmentFits

(* A segment: its block, and its pages in the program's directory.         *)
LEMMA SegmentLoads ==
    ASSUME NEW m0, Fit(m0), NEW M, NEW F, NEW segs, SegmentsFit(segs),
           NEW k \in 0..(Len(segs) - 1), NEW m, NEW img, ~m.stop,
           Loading(m0, M, F, segs, m, img, k),
           NEW s, s = segs[k + 1],
           NEW b, Amalloced(m, b, AmallocPages(s)),
           NEW c, ProgMapped(b, c, b.phys, FirstPage(s), SegmentPages(s))
    PROVE  Loading(m0, M, F, segs, c, Append(img, Pte(b, "kernel", b.virt + 1).at), k + 1)
<1> DEFINE n == SegmentPages(s)
           f == b.phys
           im2 == Append(img, f)
           P == FirstPage(s)..(FirstPage(s) + n - 1)
<1>0. k \in Nat /\ k + 1 \in 1..Len(segs) /\ SegmentFits(s)
  BY DEF SegmentsFit
<1>1. n \in Nat \ {0} /\ AmallocPages(s) = n + 1 /\ FirstPage(s) \in Nat
  <2>1. FirstPage(s) \in Nat
    BY <1>0, Quotient, PagingAssumption DEF SegmentFits, FirstPage
  <2> QED
    BY <1>0, <2>1, SegmentSizes DEF SegmentFits
<1>2. /\ f \in Nat \ {0} /\ Pte(b, "kernel", b.virt + 1).at = f
      /\ FramesGiven(m, b, f - 1, n + 1)
      /\ Fit(b) /\ b.win = m.win /\ b.own = m.own
  BY <1>1 DEF Amalloced
<1>3. /\ Stage(m0, b) /\ Private(b, M) /\ Unmapped(b, M, PagesUpTo(segs, k))
      /\ DirsKept(m, "prog", b, "prog") /\ Keeps(m, b) /\ Fit(m)
  <2>1. PICK Q, user : Grown(m, b, "kernel", Q, user)
    BY DEF Amalloced
  <2>2. Stage(m0, m) /\ Private(m, M) /\ Unmapped(m, M, PagesUpTo(segs, k))
    BY DEF Loading
  <2>3. /\ Stage(m0, b) /\ Private(b, M) /\ Unmapped(b, M, PagesUpTo(segs, k))
        /\ DirsKept(m, "prog", b, "prog")
    BY <1>2, <2>1, <2>2, KernelGrows
  <2>4. Keeps(m, b)
    BY <2>1 DEF Grown
  <2> QED
    BY <2>2, <2>3, <2>4 DEF Stage
<1>4. /\ Stage(m0, c) /\ Private(c, M) /\ Unmapped(c, M, PagesUpTo(segs, k) \cup P)
      /\ DirsKept(b, "prog", c, "prog") /\ Keeps(b, c) /\ Fit(c)
  <2>1. Fit(c) /\ \E user : user = TRUE /\ Grown(b, c, "prog", P, user)
    BY DEF ProgMapped
  <2>2. \A user : Grown(b, c, "prog", P, user) =>
            /\ Stage(m0, c) /\ Unmapped(c, M, PagesUpTo(segs, k) \cup P)
            /\ DirsKept(b, "prog", c, "prog") /\ Keeps(b, c)
            /\ user = TRUE => Private(c, M)
    <3> HIDE DEF P
    <3> QED
      BY <1>3, <2>1, ProgGrows
  <2> QED
    BY <2>1, <2>2
<1>5. Keeps(m, c) /\ DirsKept(m, "prog", c, "prog")
  BY <1>2, <1>3, <1>4, KeepsTrans, DirsKeptTrans
<1>6. PagesUpTo(segs, k) \cup P = PagesUpTo(segs, k + 1)
  <2>1. 1..(k + 1) = (1..k) \cup {k + 1}
    BY <1>0
  <2>2. P = PagesOf(segs[k + 1])
    BY DEF PagesOf
  <2> HIDE DEF P
  <2> QED
    BY <2>1, <2>2 DEF PagesUpTo
<1>7. DirectoryAt(c, F) /\ F \notin m0.used
  BY <1>3, <1>5, DirectoryOn DEF Loading
<1>8. c.own = m.own /\ c.own \in Nat
  BY <1>2 DEF ProgMapped, Loading
<1>9. /\ im2 \in Seq(Nat) /\ Len(im2) = k + 1 /\ im2[k + 1] = f
      /\ \A j \in 1..k : im2[j] = img[j]
  <2>1. img \in Seq(Nat) /\ Len(img) = k /\ f \in Nat
    BY <1>2 DEF Loading
  <2> HIDE DEF f
  <2> QED
    BY <1>0, <2>1
<1> HIDE DEF im2
<1>10. \A j \in 1..k : SegRun(im2, segs, j) = SegRun(img, segs, j)
  BY <1>9 DEF SegRun
<1>11. SegRun(im2, segs, k + 1) = Run(f - 1, n + 1)
  <2>1. SegRun(im2, segs, k + 1) = (f - 1)..(f + n - 1)
    BY <1>9 DEF SegRun
  <2>2. Run(f - 1, n + 1) = (f - 1)..((f - 1) + (n + 1) - 1)
    BY DEF Run
  <2>3. (f - 1) + (n + 1) - 1 = f + n - 1
    <3>1. f \in Nat /\ n \in Nat
      BY <1>1, <1>2
    <3> HIDE DEF f, n
    <3> QED
      BY <3>1
  <2> QED
    BY <2>1, <2>2, <2>3
<1>12. SegmentsGiven(m0, c, img, segs, k, F)
  BY <1>5, SegmentsGivenOn DEF Loading
<1> DEFINE R == Run(f - 1, n + 1)
<1>13. /\ Holds(c, R) /\ R \cap m.used = {} /\ f + n <= Limit
  <2>1. Holds(b, R) /\ R \cap m.used = {} /\ (f - 1) + (n + 1) <= Limit
    BY <1>2 DEF FramesGiven
  <2>2. Holds(c, R)
    BY <1>4, <2>1, HoldsOn
  <2>3. f + n <= Limit
    BY <1>1, <1>2, <2>1, FailureNat
  <2> QED
    BY <2>1, <2>2, <2>3
<1>14. m0.used \subseteq m.used /\ F \in m.used
       /\ \A j \in 1..k : SegRun(img, segs, j) \subseteq m.used
  BY DEF Loading, Stage, Keeps, DirectoryAt, Holds, SegmentsGiven, SegmentGiven
<1> HIDE DEF R
<1>15. SegmentsGiven(m0, c, im2, segs, k + 1, F)
  <2>1. ASSUME NEW j \in 1..(k + 1) PROVE SegmentGiven(m0, c, im2, segs, j, F)
    <3>1. CASE j = k + 1
      <4>1. SegRun(im2, segs, j) = R /\ im2[j] = f /\ SegmentPages(segs[j]) = n
        BY <1>9, <1>11, <3>1 DEF R
      <4> QED
        BY <1>2, <1>13, <1>14, <4>1 DEF SegmentGiven
    <3>2. CASE j # k + 1
      <4>1. j \in 1..k
        BY <1>0, <3>2
      <4> QED
        BY <1>9, <1>10, <1>12, <4>1 DEF SegmentsGiven, SegmentGiven
    <3> QED
      BY <3>1, <3>2
  <2>2. ASSUME NEW i \in 1..(k + 1), NEW j \in 1..(k + 1), i # j
        PROVE  SegRun(im2, segs, i) \cap SegRun(im2, segs, j) = {}
    <3>1. (i \in 1..k \/ i = k + 1) /\ (j \in 1..k \/ j = k + 1)
      BY <1>0
    <3>2. \A h \in 1..k : R \cap SegRun(im2, segs, h) = {}
      BY <1>10, <1>13, <1>14
    <3>3. SegRun(im2, segs, k + 1) = R
      BY <1>11 DEF R
    <3>4. CASE i \in 1..k /\ j \in 1..k
      BY <1>10, <1>12, <2>2, <3>4 DEF SegmentsGiven
    <3>5. CASE i = k + 1 \/ j = k + 1
      BY <2>2, <3>1, <3>2, <3>3, <3>5
    <3> QED
      BY <3>1, <3>4, <3>5
  <2> QED
    BY <2>1, <2>2 DEF SegmentsGiven
<1>16. ASSUME ApartFrom(segs, M) PROVE Windows(c) /\ SegmentsLinked(c, im2, segs, k + 1)
  <2>1. Windows(m) /\ SegmentsLinked(m, img, segs, k) /\ img \in Seq(Nat) /\ Len(img) = k
    BY <1>16 DEF Loading
  <2>2. P \subseteq VirtualPages
    BY <1>0, <1>1, PageInRange DEF SegmentFits
  <2>3. ASSUME NEW q \in P PROVE Pte(b, "prog", q) = NoPage
    <3>1. q \in PagesOf(segs[k + 1])
      BY <2>3 DEF PagesOf
    <3>2. Dir(q) \notin M
      BY <1>0, <1>16, <3>1 DEF ApartFrom
    <3>3. q \notin PagesUpTo(segs, k)
      <4> SUFFICES ASSUME NEW j \in 1..k, q \in PagesOf(segs[j]) PROVE FALSE
        BY DEF PagesUpTo
      <4>1. j \in 1..Len(segs) /\ j # k + 1
        BY <1>0
      <4> QED
        BY <1>0, <1>16, <3>1, <4>1 DEF ApartFrom
    <3> QED
      BY <1>3, <2>2, <3>2, <3>3 DEF Unmapped
  <2>4. c.win = b.win /\ LinkedAt(c, f, FirstPage(s), n)
    BY <2>3 DEF ProgMapped
  <2>5. Windows(c)
    BY <1>2, <1>8, <2>1, <2>4 DEF Windows
  <2>6. SegmentsLinked(c, img, segs, k)
    <3>1. k \in 0..Len(segs)
      BY <1>0
    <3> QED
      BY <1>3, <1>5, <2>1, <3>1, SegmentsLinkedOn
  <2>7. ASSUME NEW j \in 1..(k + 1)
        PROVE  LinkedAt(c, im2[j], FirstPage(segs[j]), SegmentPages(segs[j]))
    <3>1. CASE j = k + 1
      BY <1>9, <2>4, <3>1
    <3>2. CASE j # k + 1
      <4>1. j \in 1..k
        BY <1>0, <3>2
      <4> QED
        BY <1>9, <2>6, <4>1 DEF SegmentsLinked
    <3> QED
      BY <3>1, <3>2
  <2> QED
    BY <2>5, <2>7 DEF SegmentsLinked
<1>17. Unmapped(c, M, PagesUpTo(segs, k + 1))
  BY <1>4, <1>6
<1>18. Loading(m0, M, F, segs, c, im2, k + 1)
  BY <1>4, <1>7, <1>8, <1>9, <1>15, <1>16, <1>17 DEF Loading
<1> QED
  BY <1>2, <1>18 DEF im2

(* One round of the loop over the program header (kernel.c).               *)
LEMMA LoadSegmentLoads ==
    ASSUME NEW m0, Fit(m0), NEW M, NEW F, NEW segs, SegmentsFit(segs),
           NEW k \in 0..(Len(segs) - 1), NEW x, ~x.m.stop,
           Loading(m0, M, F, segs, x.m, x.image, k),
           NEW y, y = LoadSegment(x, segs[k + 1])
    PROVE  /\ DOMAIN y.m = Fields
           /\ ~y.m.stop => Loading(m0, M, F, segs, y.m, y.image, k + 1)
<1> DEFINE s == segs[k + 1]
           b == amalloc(x.m, s.p_memsz)
           c == map_page(b, "prog", b.phys, FirstPage(s), SegmentPages(s), TRUE, FALSE)
<1>1. SegmentFits(s) /\ Fit(x.m)
  <2>1. k + 1 \in 1..Len(segs)
    BY DEF SegmentsFit
  <2> QED
    BY <2>1 DEF SegmentsFit, Loading, Stage
<1>2. y = MapSegment(b, x.image, s)
  BY DEF LoadSegment
<1>3. s.p_memsz \in Nat \ {0} /\ s.p_memsz + 2 * PageSize <= Word
  BY <1>1 DEF SegmentFits
<1> HIDE DEF s
<1>4. DOMAIN b = Fields /\ (~b.stop => Amalloced(x.m, b, AmallocPages(s)))
  BY <1>1, <1>3, amallocGives
<1> HIDE DEF b
<1>5. CASE b.stop
  <2>1. y.m = b
    BY <1>2, <1>5 DEF MapSegment
  <2> QED
    BY <1>4, <1>5, <2>1
<1>6. CASE ~b.stop
  <2>1. y.m = c /\ y.image = Append(x.image, Pte(b, "kernel", b.virt + 1).at)
    BY <1>2, <1>6 DEF MapSegment
  <2>2. Fit(b) /\ b.phys \in Nat /\ Amalloced(x.m, b, AmallocPages(s))
    BY <1>4, <1>6 DEF Amalloced
  <2>3. FirstPage(s) \in Nat /\ SegmentPages(s) \in Nat /\ FirstPage(s) + SegmentPages(s) <= AllPages
    <3>1. FirstPage(s) \in Nat
      BY <1>1, Quotient, PagingAssumption DEF SegmentFits, FirstPage
    <3> QED
      BY <1>1, <1>3, <3>1, SegmentSizes DEF SegmentFits
  <2>4. DOMAIN c = Fields
        /\ (~c.stop => ProgMapped(b, c, b.phys, FirstPage(s), SegmentPages(s)))
    BY <1>6, <2>2, <2>3, ProgMaps
  <2> HIDE DEF c
  <2>5. ASSUME ~c.stop
        PROVE  Loading(m0, M, F, segs, c, Append(x.image, Pte(b, "kernel", b.virt + 1).at), k + 1)
    <3>1. ProgMapped(b, c, b.phys, FirstPage(s), SegmentPages(s)) /\ s = segs[k + 1]
      BY <2>4, <2>5 DEF s
    <3> QED
      BY <2>2, <3>1, SegmentLoads
  <2> QED
    BY <2>1, <2>4, <2>5
<1> QED
  BY <1>5, <1>6

(* The rounds of that loop, one after the other.                           *)
LoadRun(run, m, segs) ==
    /\ run[0] = [m |-> m, image |-> <<>>]
    /\ \A k \in 1..Len(segs) : run[k] = LoadSegment(run[k - 1], segs[k])
    /\ LoadSegments(m, segs) = run[Len(segs)]

(* The recursive function of LoadSegments computes these rounds.           *)
LEMMA LoadRuns ==
    ASSUME NEW m, NEW segs, Len(segs) \in Nat
    PROVE  \E run : LoadRun(run, m, segs)
<1> DEFINE start == [m |-> m, image |-> <<>>]
           n == Len(segs)
           Next1(x, k) == LoadSegment(x, segs[k])
           Runs(i, f) == f = [k \in 0..i |-> IF k = 0 THEN start ELSE Next1(f[k - 1], k)]
           T == {i \in Int : \E f : Runs(i, f)}
<1>1. 0 \in T
  <2>1. Runs(0, [k \in 0..0 |-> start])
    OBVIOUS
  <2> HIDE DEF Runs
  <2> QED
    BY <2>1
<1>2. ASSUME NEW i \in 0..(n - 1), i \in T PROVE i + 1 \in T
  <2>1. PICK f : Runs(i, f)
    BY <1>2
  <2> HIDE DEF start, Next1
  <2>2. /\ \A k \in 0..i : f[k] = IF k = 0 THEN start ELSE Next1(f[k - 1], k)
        /\ i + 1 \in Int
    BY <2>1
  <2> HIDE DEF Runs
  <2> DEFINE g == [k \in 0..(i + 1) |-> IF k <= i THEN f[k] ELSE Next1(f[i], k)]
  <2>3. \A k \in 0..(i + 1) : g[k] = IF k = 0 THEN start ELSE Next1(g[k - 1], k)
    <3> SUFFICES ASSUME NEW k \in 0..(i + 1)
                 PROVE  g[k] = IF k = 0 THEN start ELSE Next1(g[k - 1], k)
      OBVIOUS
    <3>1. CASE k = 0
      BY <2>2, <3>1
    <3>2. CASE k # 0 /\ k <= i
      BY <2>2, <3>2
    <3>3. CASE k = i + 1
      <4>1. g[k - 1] = f[i] /\ k # 0
        BY <3>3
      <4> QED
        BY <3>3, <4>1
    <3> QED
      BY <3>1, <3>2, <3>3
  <2>4. Runs(i + 1, g)
    BY <2>3 DEF Runs
  <2> QED
    BY <2>2, <2>4
<1> HIDE DEF T
<1>3. n \in T
  <2>1. Climbs(T, 0, n)
    BY <1>1, <1>2 DEF Climbs
  <2> QED
    BY <2>1, UpTo
<1>4. PICK some : Runs(n, some)
  BY <1>3 DEF T
<1> DEFINE h == CHOOSE f : Runs(n, f)
<1>5. Runs(n, h)
  BY <1>4
<1>6. LoadSegments(m, segs) = h[n]
  BY DEF LoadSegments
<1> HIDE DEF h, start, Next1
<1>7. \A k \in 0..n : h[k] = IF k = 0 THEN start ELSE Next1(h[k - 1], k)
  BY <1>5
<1>8. h[0] = start /\ \A k \in 1..n : h[k] = Next1(h[k - 1], k)
  BY <1>7
<1> QED
  BY <1>6, <1>8 DEF start, Next1, LoadRun

(* The loop loads every segment, or the kernel stopped.                    *)
LEMMA LoadSegmentsLoads ==
    ASSUME NEW m0, Fit(m0), NEW M, NEW F, NEW segs, SegmentsFit(segs),
           NEW m, DOMAIN m = Fields, ~m.stop => Loading(m0, M, F, segs, m, <<>>, 0),
           NEW x, x = LoadSegments(m, segs)
    PROVE  /\ DOMAIN x.m = Fields
           /\ ~x.m.stop => Loading(m0, M, F, segs, x.m, x.image, Len(segs))
<1>0. Len(segs) \in Nat
  BY DEF SegmentsFit
<1>1. PICK run : LoadRun(run, m, segs)
  BY <1>0, LoadRuns
<1> DEFINE Good(k) == /\ DOMAIN run[k].m = Fields
                      /\ ~run[k].m.stop =>
                            Loading(m0, M, F, segs, run[k].m, run[k].image, k)
           T == {k \in 0..Len(segs) : Good(k)}
<1>2. Good(0)
  <2>1. run[0].m = m /\ run[0].image = <<>>
    BY <1>1 DEF LoadRun
  <2> QED
    BY <2>1
<1>3. ASSUME NEW k \in 0..(Len(segs) - 1), Good(k) PROVE Good(k + 1)
  <2>1. run[k + 1] = LoadSegment(run[k], segs[k + 1])
    <3>1. k + 1 \in 1..Len(segs) /\ (k + 1) - 1 = k
      BY <1>0
    <3> QED
      BY <1>1, <3>1 DEF LoadRun
  <2>2. CASE run[k].m.stop
    <3>1. run[k + 1] = run[k]
      BY <2>1, <2>2 DEF LoadSegment
    <3> QED
      BY <1>3, <2>2, <3>1
  <2>3. CASE ~run[k].m.stop
    <3>1. Loading(m0, M, F, segs, run[k].m, run[k].image, k)
      BY <1>3, <2>3
    <3> HIDE DEF Good
    <3>2. /\ DOMAIN run[k + 1].m = Fields
          /\ ~run[k + 1].m.stop =>
                Loading(m0, M, F, segs, run[k + 1].m, run[k + 1].image, k + 1)
      BY <2>1, <2>3, <3>1, LoadSegmentLoads
    <3> QED
      BY <3>2 DEF Good
  <2> QED
    BY <2>2, <2>3
<1>4. 0 \in T /\ \A k \in 0..(Len(segs) - 1) : k \in T => k + 1 \in T
  <2> HIDE DEF Good
  <2> QED
    BY <1>0, <1>2, <1>3
<1> HIDE DEF T, Good
<1>5. Len(segs) \in T
  <2>1. Climbs(T, 0, Len(segs))
    BY <1>4 DEF Climbs
  <2> QED
    BY <1>0, <2>1, UpTo
<1>6. x = run[Len(segs)]
  BY <1>1 DEF LoadRun
<1> QED
  BY <1>5, <1>6 DEF T, Good

(* The entries the kernel's directory has in use.                          *)
Used(m) == {d \in Dirs : m.dir["kernel"][d] # Absent}

(* The directory load_program fills, before its own page is mapped.        *)
Copied(m, d, F) ==
    /\ Fit(d) /\ Keeps(m, d)
    /\ d.dir["kernel"] = m.dir["kernel"]
    /\ d.dir["prog"] = [m.dir["kernel"] EXCEPT ![Dir(DirPage)] = Absent]
    /\ d.phys = F /\ F \in 0..(Limit - 1) /\ F \notin m.used /\ Holds(d, {F})
    /\ d.own \in Nat \ m.win /\ d.win = m.win \cup {d.own}
    /\ ~d.stop

(* load_program takes a frame and a slot for the directory and copies the  *)
(* kernel's to it, but for one entry.                                      *)
LEMMA DirectoryCopied ==
    ASSUME NEW m, Fit(m), ~m.stop, NEW c, c = KeepSlot(OpenDirectory(ppalloc(m, 1))), ~c.stop,
           NEW d, d = [c EXCEPT !.dir["prog"] = [c.dir["kernel"] EXCEPT ![Dir(DirPage)] = Absent]]
    PROVE  \E F : Copied(m, d, F)
<1> DEFINE a == ppalloc(m, 1)
           b == OpenDirectory(a)
           F == a.phys
<1>0. c = KeepSlot(b)
  OBVIOUS
<1>1. /\ SameBut(m, a, {"used", "phys"})
      /\ \/ F = Failure /\ a.used = m.used
         \/ Found(m, a, 1)
  BY ppallocFinds DEF Fit
<1>2. b = IF a.phys = Failure THEN Stop(a) ELSE phys_to_virt(a, a.phys)
  BY DEF OpenDirectory
<1> HIDE DEF a
<1>3. DOMAIN a = Fields /\ a.dir = m.dir /\ a.tbl = m.tbl /\ a.win = m.win /\ a.stop = m.stop
  BY <1>1 DEF SameBut, Fields
<1> DEFINE v == phys_to_virt(a, F)
<1>4. \/ v.stop /\ DOMAIN v = Fields
      \/ SameBut(a, v, {"win", "slot", "tble"}) /\ v.slot \in Nat \ a.win
         /\ v.win = a.win \cup {v.slot}
  BY <1>3, phys_to_virtOpens
<1> HIDE DEF v
<1>5. DOMAIN v = Fields
  BY <1>4 DEF SameBut
<1>6. F # Failure /\ b = v
  <2>1. CASE F = Failure
    <3>1. b.stop /\ DOMAIN b = Fields
      BY <1>2, <1>3, <2>1 DEF Stop, Fields
    <3> HIDE DEF b
    <3> QED
      BY <1>0, <3>1 DEF KeepSlot, Fields
  <2> QED
    BY <1>2, <2>1 DEF v
<1> HIDE DEF b
<1>7. /\ DOMAIN c = Fields /\ c.own = v.slot /\ c.stop = v.stop /\ c.dir = v.dir
      /\ c.tbl = v.tbl /\ c.used = v.used /\ c.win = v.win /\ c.phys = v.phys
  BY <1>0, <1>5, <1>6 DEF KeepSlot, Fields
<1>8. SameBut(a, v, {"win", "slot", "tble"}) /\ v.slot \in Nat \ a.win
      /\ v.win = a.win \cup {v.slot}
  BY <1>4, <1>7
<1>9. v.dir = m.dir /\ v.tbl = m.tbl /\ v.used = a.used /\ v.phys = a.phys
  BY <1>3, <1>8 DEF SameBut, Fields
<1>10. F \in 0..(Limit - 1) /\ F \notin m.used /\ a.used = m.used \cup {F}
  <2>1. Found(m, a, 1)
    BY <1>1, <1>6
  <2>2. Run(a.phys, 1) = {a.phys}
    BY <2>1, FailureNat DEF Found, Run
  <2> QED
    BY <2>1, <2>2 DEF Found
<1> HIDE DEF F
<1>11. /\ DOMAIN d = Fields /\ d.own = v.slot /\ d.stop = v.stop
       /\ d.tbl = m.tbl /\ d.used = m.used \cup {F} /\ d.phys = F
       /\ d.win = m.win \cup {d.own} /\ d.own \in Nat \ m.win
  BY <1>3, <1>7, <1>8, <1>9, <1>10 DEF F, Fields
<1>12. "kernel" \in Owners /\ "prog" \in Owners /\ Owners = {"kernel", "prog"}
  BY DEF Owners
<1>13. /\ DOMAIN d.dir = Owners
       /\ d.dir["kernel"] = m.dir["kernel"]
       /\ d.dir["prog"] = [m.dir["kernel"] EXCEPT ![Dir(DirPage)] = Absent]
  BY <1>7, <1>9, <1>12 DEF Fit, Placed, Fields
<1>14. Dir(DirPage) \in Dirs
  BY DirPageInRange, DirEnt
<1>15. \A e \in Dirs : d.dir["prog"][e]
                        = IF e = Dir(DirPage) THEN Absent ELSE m.dir["kernel"][e]
  BY <1>12, <1>13 DEF Fit, Placed
<1>16. Placed(d)
  BY <1>11, <1>12, <1>13 DEF Fit, Placed
<1>17. Framed(d) /\ Holds(d, {F})
  BY <1>10, <1>11, FailureNat DEF Fit, Framed, Holds
<1>18. Linked(d)
  <2>1. ASSUME NEW o \in Owners, NEW e \in Dirs
        PROVE  \/ d.dir[o][e] = Absent
               \/ d.dir[o][e] = KernelEntry
               \/ d.dir[o][e].at \in DOMAIN d.tbl
    BY <1>11, <1>12, <1>13, <1>15 DEF Fit, Linked
  <2>2. ASSUME NEW o \in Owners, NEW e \in Dirs, NEW g \in Dirs,
               d.dir[o][g].at = d.dir[o][e].at, d.dir[o][e].at \in DOMAIN d.tbl
        PROVE  g = e
    <3>1. Absent.at \notin DOMAIN d.tbl
      BY <1>17, FailureNat DEF Framed, Absent, None
    <3>2. d.dir[o][e] = m.dir["kernel"][e] /\ d.dir[o][g] = m.dir["kernel"][g]
      BY <1>12, <1>13, <1>15, <2>2, <3>1
    <3> QED
      BY <1>11, <1>12, <2>2, <3>2 DEF Fit, Linked
  <2> QED
    BY <2>1, <2>2 DEF Linked
<1>19. Fit(d) /\ Keeps(m, d)
  BY <1>11, <1>16, <1>17, <1>18 DEF Fit, Keeps
<1>20. ~d.stop
  BY <1>7, <1>11
<1>21. Copied(m, d, F)
  BY <1>10, <1>11, <1>13, <1>17, <1>19, <1>20 DEF Copied
<1> QED
  BY <1>21

(* The directory is mapped in itself, by a table of its own.               *)
LEMMA OwnDirectoryMaps ==
    ASSUME NEW m, Fit(m), ~m.stop, m.win = Permanent,
           m.dir["kernel"][Dir(DirPage)] = KernelEntry,
           NEW segs, NEW d, NEW F, Copied(m, d, F),
           NEW user, NEW full, NEW r, r = map_page(d, "prog", d.phys, DirPage, 1, user, full)
    PROVE  /\ DOMAIN r = Fields
           /\ ~r.stop => Loading(m, Used(m), F, segs, r, <<>>, 0)
<1> DEFINE M == Used(m)
           D == Dir(DirPage)
<1>0. "kernel" \in Owners /\ "prog" \in Owners /\ "kernel" # "prog" /\ D \in Dirs
      /\ DirPage \in VirtualPages /\ DirPage \in Nat /\ DirPage + 1 <= AllPages
  <2>1. DirPage + 1 <= AllPages
    BY PagingAssumption DEF AllPages
  <2> QED
    BY <2>1, DirPageInRange, DirEnt, PagingAssumption DEF Owners
<1>1. F \in Nat /\ F < FrameSpace /\ F = d.phys
  BY PagingAssumption DEF Copied
<1>2. /\ DOMAIN r = Fields
      /\ ~r.stop => PagesOrEarly(d, r, "prog", F, DirPage, 1, user)
      /\ ~r.stop /\ ~r.early => r.win = d.win
  <2>1. Fit(d) /\ ~d.stop
    BY DEF Copied
  <2>2. 1 \in Nat /\ F \in Nat /\ r = map_page(d, "prog", F, DirPage, 1, user, full)
    BY <1>1
  <2> QED
    BY <1>0, <2>1, <2>2, map_pageMaps
<1>3. \A e \in Dirs : d.dir["prog"][e] = IF e = D THEN Absent ELSE m.dir["kernel"][e]
  BY <1>0 DEF Copied, Fit, Placed
<1>4. D \in M
  BY <1>0 DEF Used, KernelEntry, Absent, None
<1>5. Stage(m, d)
  <2>1. DirsKept(m, "kernel", d, "kernel")
    BY DEF Copied, DirsKept
  <2>2. DirsKept(m, "kernel", d, "prog")
    BY <1>3 DEF DirsKept
  <2> QED
    BY <2>1, <2>2 DEF Stage, Copied
<1>6. None \notin DOMAIN d.tbl
  BY FailureNat DEF Copied, Fit, Framed, None
<1>7. ASSUME NEW e \in Dirs, e \notin M PROVE d.dir["prog"][e] = Absent
  BY <1>3, <1>7 DEF Used
<1>8. Private(d, M)
  BY <1>7 DEF Private
<1>9. Unmapped(d, M, {})
  <2> SUFFICES ASSUME NEW p \in VirtualPages, Dir(p) \notin M
               PROVE  Pte(d, "prog", p) = NoPage
    BY DEF Unmapped
  <2>1. d.dir["prog"][Dir(p)] = Absent
    BY <1>7, DirEnt
  <2> QED
    BY <1>6, <2>1 DEF Pte, Absent
<1> SUFFICES ASSUME ~r.stop PROVE Loading(m, M, F, segs, r, <<>>, 0)
  BY <1>2
<1>10. DirPage..(DirPage + 1 - 1) = {DirPage}
  BY <1>0
<1>11. /\ Fit(r) /\ Grown(d, r, "prog", {DirPage}, user) /\ r.own = d.own
       /\ r.early => Pte(d, "prog", DirPage) # NoPage
       /\ ~r.early => AllMapped(d, r, "prog", F, DirPage, 1, user)
  BY <1>2, <1>10 DEF PagesOrEarly, Changed
<1>12. Pte(d, "prog", DirPage) = NoPage
  BY <1>0, <1>3, <1>6 DEF Pte, Absent
<1>13. r.win = d.win /\ Pte(r, "prog", DirPage) = [at |-> F, user |-> user]
  <2>1. AllMapped(d, r, "prog", F, DirPage, 1, user)
    BY <1>11, <1>12
  <2>2. DirPage + 0 = DirPage /\ (F + 0) % FrameSpace = F /\ 0 \in 0..(1 - 1)
    BY <1>0, <1>1, PagingAssumption, SMT
  <2>3. Pte(r, "prog", DirPage + 0) = [at |-> (F + 0) % FrameSpace, user |-> user]
    BY <2>1, <2>2 DEF AllMapped
  <2>4. r.win = d.win
    BY <1>2, <1>11, <1>12
  <2> QED
    BY <2>2, <2>3, <2>4
<1>14. /\ Stage(m, r) /\ Unmapped(r, M, {} \cup {DirPage}) /\ Keeps(d, r)
  <2>1. Fit(m) /\ Stage(m, d) /\ Fit(r) /\ Private(d, M) /\ Unmapped(d, M, {})
    BY <1>5, <1>8, <1>9, <1>11
  <2> HIDE DEF M
  <2>2. ASSUME NEW P, NEW Q, Grown(d, r, "prog", P, user), Unmapped(d, M, Q)
        PROVE  Stage(m, r) /\ Unmapped(r, M, Q \cup P) /\ Keeps(d, r)
    BY <2>1, <2>2, ProgGrows, ZenonT(60)
  <2> QED
    BY <1>11, <2>1, <2>2
<1>15. r.dir["kernel"] = d.dir["kernel"]
  BY <1>0, <1>11 DEF Grown
<1>16. ASSUME NEW e \in Dirs, e \notin M PROVE r.dir["prog"][e] = Absent
  <2>1. EntryKept(d, r, "prog", e, {DirPage}, user)
    BY <1>11 DEF Grown
  <2>2. e # D
    BY <1>4, <1>16
  <2> QED
    BY <1>7, <1>16, <2>1, <2>2 DEF EntryKept
<1>17. Private(r, M)
  BY <1>16 DEF Private
<1>18. Unmapped(r, M, PagesUpTo(segs, 0))
  BY <1>4, <1>14 DEF Unmapped
<1>19. DirectoryAt(r, F) /\ F \notin m.used
  <2>1. Holds(r, {F}) /\ F \notin m.used
    BY <1>14, HoldsOn DEF Copied
  <2>2. Pte(r, "prog", DirPage) # NoPage /\ Pte(r, "prog", DirPage).at = F
    BY <1>1, <1>13 DEF NoPage, None
  <2> QED
    BY <1>1, <2>1, <2>2 DEF DirectoryAt
<1>20. <<>> \in Seq(Nat) /\ Len(<<>>) = 0
  OBVIOUS
<1>21. SegmentsGiven(m, r, <<>>, segs, 0, F) /\ SegmentsLinked(r, <<>>, segs, 0)
  BY DEF SegmentsGiven, SegmentsLinked
<1>22. r.own \in Nat /\ Windows(r)
  BY <1>11, <1>13 DEF Copied, Windows
<1> QED
  BY <1>14, <1>17, <1>18, <1>19, <1>20, <1>21, <1>22 DEF Loading

(* So begins the load.                                                     *)
LEMMA OwnDirectoryGives ==
    ASSUME NEW m, Fit(m), ~m.stop, m.win = Permanent,
           m.dir["kernel"][Dir(DirPage)] = KernelEntry,
           NEW segs, NEW r, r = OwnDirectory(m)
    PROVE  /\ DOMAIN r = Fields
           /\ ~r.stop => \E F : Loading(m, Used(m), F, segs, r, <<>>, 0)
<1> DEFINE a == ppalloc(m, 1)
           b == OpenDirectory(a)
           c == KeepSlot(b)
           d == [c EXCEPT !.dir["prog"] = [c.dir["kernel"] EXCEPT ![Dir(DirPage)] = Absent]]
<1>1. r = add_page_essential(c)
  BY DEF OwnDirectory
<1>2. DOMAIN a = Fields
  BY ppallocFinds DEF Fit, SameBut
<1>3. b = IF a.phys = Failure THEN Stop(a) ELSE phys_to_virt(a, a.phys)
  BY DEF OpenDirectory
<1>4. c = KeepSlot(OpenDirectory(ppalloc(m, 1)))
  OBVIOUS
<1>5. DOMAIN c = Fields
  <2> HIDE DEF a
  <2>1. DOMAIN phys_to_virt(a, a.phys) = Fields
    BY <1>2, phys_to_virtOpens DEF SameBut
  <2>2. DOMAIN b = Fields
    BY <1>2, <1>3, <2>1 DEF Stop
  <2> HIDE DEF b
  <2> QED
    BY <2>2 DEF KeepSlot
<1> HIDE DEF c
<1>6. CASE c.stop
  <2>1. r = c
    BY <1>1, <1>6 DEF add_page_essential
  <2> QED
    BY <1>5, <1>6, <2>1
<1>7. CASE ~c.stop
  <2>1. PICK F : Copied(m, d, F)
    BY <1>4, <1>7, DirectoryCopied
  <2>2. d.phys = c.phys
    BY <1>5 DEF Fields
  <2>3. r = map_page(d, "prog", d.phys, DirPage, 1, FALSE, TRUE)
    BY <1>1, <1>7, <2>2 DEF add_page_essential
  <2> HIDE DEF d
  <2>4. \A user, full : LET x == map_page(d, "prog", d.phys, DirPage, 1, user, full)
                        IN  /\ DOMAIN x = Fields
                            /\ ~x.stop => Loading(m, Used(m), F, segs, x, <<>>, 0)
    BY <2>1, OwnDirectoryMaps
  <2> QED
    BY <2>3, <2>4
<1> QED
  BY <1>6, <1>7

(* n pages the program may use, tables included.                           *)
UsableAt(m, frame, page, n) ==
    /\ LinkedAt(m, frame, page, n)
    /\ \A j \in 0..(n - 1) : m.dir["prog"][Dir(page + j)].user = TRUE

(* Pages the program may use stay so.                                      *)
LEMMA UsableOn ==
    ASSUME NEW a, Fit(a), NEW b, Keeps(a, b), DirsKept(a, "prog", b, "prog"),
           NEW frame \in Nat, NEW page \in Nat, NEW n \in Nat, page + n <= AllPages,
           UsableAt(a, frame, page, n)
    PROVE  UsableAt(b, frame, page, n)
<1>1. LinkedAt(b, frame, page, n)
  BY LinkedOn DEF UsableAt
<1>2. ASSUME NEW j \in 0..(n - 1) PROVE b.dir["prog"][Dir(page + j)].user = TRUE
  <2>1. page + j \in VirtualPages /\ frame + j \in Nat
    BY PageInRange
  <2>2. Pte(a, "prog", page + j) = [at |-> (frame + j) % FrameSpace, user |-> TRUE]
    BY DEF UsableAt, LinkedAt
  <2>3. \A user : [at |-> (frame + j) % FrameSpace, user |-> user] # NoPage
    BY <2>1, Present
  <2>4. "prog" \in Owners /\ Pte(a, "prog", page + j) # NoPage
    BY <2>2, <2>3 DEF Owners
  <2>5. b.dir["prog"][Dir(page + j)] = a.dir["prog"][Dir(page + j)]
    BY <2>1, <2>4, PteKept
  <2> QED
    BY <2>5 DEF UsableAt
<1> QED
  BY <1>1, <1>2 DEF UsableAt

(* Pages of the program's own tables.                                      *)
LEMMA PrivateUsable ==
    ASSUME NEW m, Fit(m), NEW M, Private(m, M),
           NEW frame \in Nat, NEW page \in Nat, NEW n \in Nat, page + n <= AllPages,
           LinkedAt(m, frame, page, n),
           \A q \in page..(page + n - 1) : Dir(q) \notin M
    PROVE  UsableAt(m, frame, page, n)
<1> SUFFICES ASSUME NEW j \in 0..(n - 1)
             PROVE  m.dir["prog"][Dir(page + j)].user = TRUE
  BY DEF UsableAt
<1> DEFINE q == page + j
<1>1. q \in VirtualPages /\ q \in page..(page + n - 1) /\ frame + j \in Nat
  BY PageInRange
<1>2. Dir(q) \in Dirs /\ Dir(q) \notin M
  BY <1>1, DirEnt
<1>3. Pte(m, "prog", q) = [at |-> (frame + j) % FrameSpace, user |-> TRUE]
  BY DEF LinkedAt
<1>4. \A user : [at |-> (frame + j) % FrameSpace, user |-> user] # NoPage
  BY <1>1, Present
<1>5. Pte(m, "prog", q) # NoPage
  BY <1>3, <1>4
<1> HIDE DEF q
<1>6. m.dir["prog"][Dir(q)] # Absent
  <2>1. None \notin DOMAIN m.tbl
    BY FailureNat DEF Fit, Framed, None
  <2> QED
    BY <1>5, <2>1 DEF Pte, Absent
<1>7. m.dir["prog"][Dir(q)].user = TRUE
  BY <1>2, <1>6 DEF Private, PrivateEntry
<1> QED
  BY <1>7 DEF q

(* The stack lies in one entry of the directory.                           *)
LEMMA StackEntry ==
    /\ StackPage \in Nat /\ StackPages \in Nat \ {0} /\ StackPage + StackPages <= AllPages
    /\ \A q \in StackRange : Dir(q) = Dir(StackPage)
<1>1. StackPage \in Nat /\ StackPages \in Nat \ {0} /\ StackPage + StackPages <= AllPages
  <2> DEFINE all == PdEntries * PtEntries
  <2>1. /\ StackPage \in Nat /\ StackPages \in Nat \ {0} /\ DirPage \in Nat /\ all \in Nat
        /\ StackPage + StackPages <= DirPage /\ DirPage < all
    BY PagingAssumption
  <2> HIDE DEF all
  <2>2. StackPage + StackPages <= all
    BY <2>1
  <2> QED
    BY <2>1, <2>2 DEF AllPages, all
<1>2. ASSUME NEW q \in StackRange PROVE Dir(q) = Dir(StackPage)
  <2> DEFINE a == StackPage
             z == StackPage + StackPages - 1
             i == a % PtEntries
             j == q % PtEntries
             k == z % PtEntries
             s == a \div PtEntries
             t == q \div PtEntries
             u == z \div PtEntries
  <2>1. a \in Nat /\ q \in Nat /\ z \in Nat /\ a <= q /\ q <= z
    BY <1>1 DEF StackRange
  <2>2. PtEntries \in Nat \ {0}
    BY PagingAssumption
  <2>3. s = u
    BY DirectoryAssumption DEF Dir
  <2> HIDE DEF a, z
  <2>4. /\ s \in Nat /\ t \in Nat /\ i \in 0..(PtEntries - 1) /\ j \in 0..(PtEntries - 1)
        /\ k \in 0..(PtEntries - 1)
        /\ a = PtEntries * s + i /\ q = PtEntries * t + j /\ z = PtEntries * s + k
    BY <2>1, <2>2, <2>3, Quotient
  <2> HIDE DEF i, j, k, s, t, u
  <2>5. t = s
    <3>1. CASE t < s
      <4>1. PICK h \in Nat : s = t + 1 + h
        <5>1. s - t - 1 \in Nat /\ s = t + 1 + (s - t - 1)
          BY <2>4, <3>1
        <5> QED
          BY <5>1
      <4>2. PtEntries * s = PtEntries * t + PtEntries + PtEntries * h
            /\ PtEntries * h \in Nat /\ PtEntries * t \in Nat
        BY <2>2, <2>4, <4>1
      <4> QED
        BY <2>1, <2>2, <2>4, <4>2
    <3>2. CASE s < t
      <4>1. PICK h \in Nat : t = s + 1 + h
        <5>1. t - s - 1 \in Nat /\ t = s + 1 + (t - s - 1)
          BY <2>4, <3>2
        <5> QED
          BY <5>1
      <4>2. PtEntries * t = PtEntries * s + PtEntries + PtEntries * h
            /\ PtEntries * h \in Nat /\ PtEntries * s \in Nat
        BY <2>2, <2>4, <4>1
      <4> QED
        BY <2>1, <2>2, <2>4, <4>2
    <3> QED
      BY <2>4, <3>1, <3>2
  <2> QED
    BY <2>5 DEF Dir, s, t, a
<1> QED
  BY <1>1, <1>2

(* The stack has new frames, as long as there were some.                   *)
StackGiven(m0, m, img, segs, F) ==
    LET f == img[Len(segs) + 1]
    IN  \/ f = Failure
        \/ /\ f \in Nat /\ f + StackPages <= Limit
           /\ Holds(m, Run(f, StackPages))
           /\ Run(f, StackPages) \cap m0.used = {}
           /\ F \notin Run(f, StackPages)
           /\ \A j \in 1..Len(segs) : SegRun(img, segs, j) \cap Run(f, StackPages) = {}

(* The program finds its segments and its stack where it was linked to.    *)
ProgramUsable(m, img, segs) ==
    /\ \A j \in 1..Len(segs) :
            UsableAt(m, img[j], FirstPage(segs[j]), SegmentPages(segs[j]))
    /\ UsableAt(m, img[Len(segs) + 1], StackPage, StackPages)

(* The loader is done.                                                     *)
LoadedFrom(m0, M, F, segs, m, img) ==
    /\ Fit(m) /\ Keeps(m0, m) /\ DirsKept(m0, "kernel", m, "prog")
    /\ DirectoryAt(m, F) /\ F \notin m0.used
    /\ img \in Seq(Nat) /\ Len(img) = Len(segs) + 1
    /\ SegmentsGiven(m0, m, img, segs, Len(segs), F)
    /\ StackGiven(m0, m, img, segs, F)
    /\ ApartFrom(segs, M) => m.win = Permanent /\ ProgramUsable(m, img, segs)

(* The tables of a program that lies apart are its own, so it may use      *)
(* what they map.                                                          *)
LEMMA AllUsable ==
    ASSUME NEW segs, SegmentsFit(segs), NEW M, ApartFrom(segs, M),
           NEW m, Fit(m), Private(m, M), NEW img \in Seq(Nat), Len(img) = Len(segs) + 1,
           SegmentsLinked(m, img, segs, Len(segs)),
           LinkedAt(m, img[Len(segs) + 1], StackPage, StackPages)
    PROVE  ProgramUsable(m, img, segs)
<1>0. Len(segs) \in Nat
  BY DEF SegmentsFit
<1>1. ASSUME NEW j \in 1..Len(segs)
      PROVE  UsableAt(m, img[j], FirstPage(segs[j]), SegmentPages(segs[j]))
  <2>1. img[j] \in Nat /\ SegmentFits(segs[j])
    BY <1>0 DEF SegmentsFit
  <2>2. FirstPage(segs[j]) \in Nat
    BY <2>1, Quotient, PagingAssumption DEF SegmentFits, FirstPage
  <2>3. SegmentPages(segs[j]) \in Nat /\ FirstPage(segs[j]) + SegmentPages(segs[j]) <= AllPages
    BY <2>1, SegmentSizes DEF SegmentFits
  <2>4. LinkedAt(m, img[j], FirstPage(segs[j]), SegmentPages(segs[j]))
    BY DEF SegmentsLinked
  <2>5. \A q \in FirstPage(segs[j])..(FirstPage(segs[j]) + SegmentPages(segs[j]) - 1) :
            Dir(q) \notin M
    BY DEF ApartFrom, PagesOf
  <2> QED
    BY <2>1, <2>2, <2>3, <2>4, <2>5, PrivateUsable
<1>2. UsableAt(m, img[Len(segs) + 1], StackPage, StackPages)
  <2>1. img[Len(segs) + 1] \in Nat
    BY <1>0
  <2>2. \A q \in StackPage..(StackPage + StackPages - 1) : Dir(q) \notin M
    BY StackEntry DEF ApartFrom, StackRange
  <2> QED
    BY <2>1, <2>2, StackEntry, PrivateUsable
<1> QED
  BY <1>1, <1>2 DEF ProgramUsable

(* The stack and the end of the load, when nothing stopped.                *)
LEMMA StackLoads ==
    ASSUME NEW m0, Fit(m0), NEW M, NEW F, NEW segs, SegmentsFit(segs),
           NEW m, NEW img, ~m.stop, Loading(m0, M, F, segs, m, img, Len(segs)),
           NEW a, a = ppalloc(m, StackPages),
           NEW b, ProgMapped(a, b, a.phys, StackPage, StackPages),
           NEW r, r = free_directmap(b, b.own)
    PROVE  LoadedFrom(m0, M, F, segs, r, Append(img, a.phys))
<1> DEFINE f == a.phys
           n == Len(segs)
           im2 == Append(img, f)
           Q == PagesUpTo(segs, n)
<1>0. n \in Nat
  BY DEF SegmentsFit
<1>1. /\ Stage(m0, m) /\ Private(m, M) /\ Unmapped(m, M, Q)
      /\ DirectoryAt(m, F) /\ F \notin m0.used /\ m.own \in Nat
      /\ img \in Seq(Nat) /\ Len(img) = n
      /\ SegmentsGiven(m0, m, img, segs, n, F)
  BY DEF Loading
<1>2. /\ SameBut(m, a, {"used", "phys"})
      /\ \/ f = Failure /\ a.used = m.used
         \/ Found(m, a, StackPages)
  BY <1>1, StackEntry, ppallocFinds DEF Stage, Fit
<1> HIDE DEF f
<1>3. /\ DOMAIN a = Fields /\ a.dir = m.dir /\ a.tbl = m.tbl /\ a.win = m.win /\ a.own = m.own
      /\ f = a.phys
  BY <1>2 DEF SameBut, Fields, f
<1>4. f \in Nat /\ m.used \subseteq a.used /\ a.used \subseteq 0..(Limit - 1)
  <2>1. f \in Nat /\ m.used \subseteq a.used
    BY <1>2, <1>3, FailureNat DEF Found
  <2>2. a.used \subseteq 0..(Limit - 1)
    <3>1. m.used \subseteq 0..(Limit - 1) /\ Limit \in Nat /\ StackPages \in Nat
      BY <1>1, FailureNat, StackEntry DEF Stage, Fit, Framed
    <3>2. CASE Found(m, a, StackPages)
      <4>1. /\ a.phys \in Nat /\ a.phys + StackPages <= Limit
            /\ a.used = m.used \cup Run(a.phys, StackPages)
        BY <3>1, <3>2 DEF Found
      <4>2. Run(a.phys, StackPages) \subseteq 0..(Limit - 1)
        BY <3>1, <4>1 DEF Run
      <4> QED
        BY <3>1, <4>1, <4>2
    <3> QED
      BY <1>2, <3>1, <3>2
  <2> QED
    BY <2>1, <2>2
<1>5. \A user : Fit(a) /\ Grown(m, a, "prog", {}, user)
  BY <1>1, <1>3, <1>4, MoreUsed DEF Stage
<1>6. /\ Stage(m0, a) /\ Private(a, M) /\ Unmapped(a, M, Q)
      /\ DirsKept(m, "prog", a, "prog") /\ Keeps(m, a)
  <2>1. \A user : /\ Stage(m0, a) /\ Unmapped(a, M, Q \cup {})
                  /\ DirsKept(m, "prog", a, "prog") /\ Keeps(m, a)
                  /\ user = TRUE => Private(a, M)
    BY <1>1, <1>5, ProgGrows
  <2>2. Q \cup {} = Q
    OBVIOUS
  <2> HIDE DEF Q
  <2> QED
    BY <2>1, <2>2
<1>7. /\ Stage(m0, b) /\ Private(b, M) /\ DirsKept(a, "prog", b, "prog") /\ Keeps(a, b) /\ Fit(b)
  <2>1. Fit(b) /\ \E user : user = TRUE
                        /\ Grown(a, b, "prog", StackPage..(StackPage + StackPages - 1), user)
    BY DEF ProgMapped
  <2>2. \A user, P : Grown(a, b, "prog", P, user) =>
            /\ Stage(m0, b) /\ DirsKept(a, "prog", b, "prog") /\ Keeps(a, b)
            /\ user = TRUE => Private(b, M)
    BY <1>6, <2>1, ProgGrows
  <2> QED
    BY <2>1, <2>2
<1>8. b.own = m.own /\ b.own \in Nat
  BY <1>1, <1>3 DEF ProgMapped
<1>9. SameBut(b, r, {"win", "tble"}) /\ r.win = b.win \ {b.own}
  BY <1>7, <1>8, free_directmapCloses DEF Fit
<1>10. Fit(r) /\ \A user : Grown(b, r, "prog", {}, user)
  <2>1. SameBut(b, r, {"win", "tble", "slot", "phys", "early", "stop"})
    BY <1>9 DEF SameBut
  <2> QED
    BY <1>7, <2>1, SameTables DEF Changed
<1>11. /\ Stage(m0, r) /\ Private(r, M) /\ DirsKept(b, "prog", r, "prog") /\ Keeps(b, r)
  <2>1. r.dir = b.dir /\ r.tbl = b.tbl /\ r.used = b.used
    BY <1>9 DEF SameBut, Fields
  <2> QED
    BY <1>7, <1>10, <2>1 DEF Stage, Private, PrivateEntry, Keeps, DirsKept
<1>12. Fit(m) /\ Fit(a) /\ Fit(b) /\ Fit(r)
  BY <1>1, <1>6, <1>7, <1>10 DEF Stage
<1>13. Keeps(a, r) /\ DirsKept(a, "prog", r, "prog")
  BY <1>7, <1>11, <1>12, KeepsTrans, DirsKeptTrans
<1>14. Keeps(m, r) /\ DirsKept(m, "prog", r, "prog")
  BY <1>6, <1>12, <1>13, KeepsTrans, DirsKeptTrans
<1>15. DirectoryAt(r, F)
  BY <1>1, <1>12, <1>14, DirectoryOn
<1>16. /\ im2 \in Seq(Nat) /\ Len(im2) = n + 1 /\ im2[n + 1] = f
       /\ \A j \in 1..n : im2[j] = img[j]
  <2> HIDE DEF n
  <2> QED
    BY <1>0, <1>1, <1>4
<1> HIDE DEF im2
<1>17. \A j \in 1..n : SegRun(im2, segs, j) = SegRun(img, segs, j)
  BY <1>16 DEF SegRun
<1>18. SegmentsGiven(m0, r, img, segs, n, F)
  BY <1>1, <1>14, SegmentsGivenOn
<1>19. SegmentsGiven(m0, r, im2, segs, n, F)
  BY <1>16, <1>17, <1>18 DEF SegmentsGiven, SegmentGiven
<1>20. StackGiven(m0, r, im2, segs, F)
  <2> SUFFICES ASSUME f # Failure
               PROVE  /\ f + StackPages <= Limit
                      /\ Holds(r, Run(f, StackPages))
                      /\ Run(f, StackPages) \cap m0.used = {}
                      /\ F \notin Run(f, StackPages)
                      /\ \A j \in 1..n : SegRun(im2, segs, j) \cap Run(f, StackPages) = {}
    BY <1>4, <1>16 DEF StackGiven
  <2> DEFINE X == Run(f, StackPages)
  <2>1. X \cap m.used = {} /\ X \subseteq a.used /\ f + StackPages <= Limit
    BY <1>2, <1>3 DEF Found
  <2>2. m0.used \subseteq m.used /\ F \in m.used
        /\ \A j \in 1..n : SegRun(img, segs, j) \subseteq m.used
    BY <1>1 DEF Stage, Keeps, DirectoryAt, Holds, SegmentsGiven, SegmentGiven
  <2> HIDE DEF X
  <2>3. Holds(a, X)
    BY <1>3, <1>12, <2>1 DEF Holds, Fit, Framed
  <2>4. Holds(r, X)
    BY <1>13, <2>3, HoldsOn
  <2>5. \A j \in 1..n : SegRun(im2, segs, j) \cap X = {}
    BY <1>17, <2>1, <2>2
  <2> QED
    BY <2>1, <2>2, <2>4, <2>5 DEF X
<1>21. ASSUME ApartFrom(segs, M) PROVE r.win = Permanent /\ ProgramUsable(r, im2, segs)
  <2>1. Windows(m) /\ SegmentsLinked(m, img, segs, n)
    BY <1>21 DEF Loading
  <2>2. ASSUME NEW q \in StackPage..(StackPage + StackPages - 1)
        PROVE  Pte(a, "prog", q) = NoPage
    <3>1. q \in StackRange /\ Dir(q) = Dir(StackPage)
      BY <2>2, StackEntry DEF StackRange
    <3>2. Dir(q) \notin M
      BY <1>21, <3>1 DEF ApartFrom
    <3>3. q \notin Q
      BY <1>21, <3>1 DEF ApartFrom, PagesUpTo
    <3>4. q \in VirtualPages
      BY <2>2, StackEntry, PageInRange
    <3> HIDE DEF Q
    <3> QED
      BY <1>6, <3>2, <3>3, <3>4 DEF Unmapped
  <2>3. b.win = a.win /\ LinkedAt(b, f, StackPage, StackPages)
    BY <1>3, <2>2 DEF ProgMapped
  <2>4. r.win = Permanent
    BY <1>3, <1>8, <1>9, <2>1, <2>3 DEF Windows
  <2>5. LinkedAt(r, f, StackPage, StackPages)
    <3>1. r.dir = b.dir /\ r.tbl = b.tbl
      BY <1>9 DEF SameBut, Fields
    <3> QED
      BY <2>3, <3>1 DEF LinkedAt, Pte
  <2>6. n \in 0..Len(segs)
    BY <1>0
  <2>7. SegmentsLinked(r, img, segs, n)
    BY <1>1, <1>12, <1>14, <2>1, <2>6, SegmentsLinkedOn
  <2>8. SegmentsLinked(r, im2, segs, n)
    BY <1>16, <2>7 DEF SegmentsLinked
  <2>9. LinkedAt(r, im2[n + 1], StackPage, StackPages)
    BY <1>16, <2>5
  <2> QED
    BY <1>11, <1>12, <1>16, <1>21, <2>4, <2>8, <2>9, AllUsable
<1>22. LoadedFrom(m0, M, F, segs, r, im2)
  BY <1>1, <1>11, <1>12, <1>15, <1>16, <1>19, <1>20, <1>21 DEF LoadedFrom, Stage
<1> QED
  BY <1>22 DEF im2, f

(* The same from what the loop returned.                                   *)
LEMMA LoadStackLoads ==
    ASSUME NEW m0, Fit(m0), NEW M, NEW F, NEW segs, SegmentsFit(segs),
           NEW x, DOMAIN x.m = Fields,
           ~x.m.stop => Loading(m0, M, F, segs, x.m, x.image, Len(segs)),
           NEW y, y = LoadStack(x), NEW r, r = CloseDirectory(y.m), ~r.stop
    PROVE  LoadedFrom(m0, M, F, segs, r, y.image)
<1> DEFINE a == ppalloc(x.m, StackPages)
           b == map_page(a, "prog", a.phys, StackPage, StackPages, TRUE, FALSE)
<1>1. y = MapStack(a, x.image)
  BY DEF LoadStack
<1>2. /\ SameBut(x.m, a, {"used", "phys"})
      /\ \/ a.phys = Failure /\ a.used = x.m.used
         \/ Found(x.m, a, StackPages)
  BY StackEntry, ppallocFinds
<1>3. a = ppalloc(x.m, StackPages)
  OBVIOUS
<1> HIDE DEF a
<1>4. /\ DOMAIN a = Fields /\ a.dir = x.m.dir /\ a.tbl = x.m.tbl /\ a.stop = x.m.stop
  BY <1>2 DEF SameBut, Fields
<1>5. y.image = Append(x.image, a.phys) /\ y.m = IF a.stop THEN a ELSE b
  BY <1>1 DEF MapStack
<1>6. r = IF y.m.stop THEN y.m ELSE free_directmap(y.m, y.m.own)
  BY DEF CloseDirectory
<1>7. ~y.m.stop
  BY <1>6
<1>8. ~a.stop /\ y.m = b /\ ~x.m.stop
  BY <1>4, <1>5, <1>7
<1>9. Loading(m0, M, F, segs, x.m, x.image, Len(segs)) /\ Fit(x.m)
  BY <1>8 DEF Loading, Stage
<1>10. Fit(a) /\ a.phys \in Nat
  <2>1. x.m.used \subseteq 0..(Limit - 1) /\ Limit \in Nat /\ StackPages \in Nat
    BY <1>9, FailureNat, StackEntry DEF Fit, Framed
  <2>2. a.phys \in Nat /\ x.m.used \subseteq a.used /\ a.used \subseteq 0..(Limit - 1)
    <3>1. CASE Found(x.m, a, StackPages)
      <4>1. /\ a.phys \in Nat /\ a.phys + StackPages <= Limit
            /\ a.used = x.m.used \cup Run(a.phys, StackPages)
        BY <2>1, <3>1 DEF Found
      <4>2. Run(a.phys, StackPages) \subseteq 0..(Limit - 1)
        BY <2>1, <4>1 DEF Run
      <4> QED
        BY <2>1, <4>1, <4>2
    <3> QED
      BY <1>2, <2>1, <3>1, FailureNat
  <2> QED
    BY <1>4, <1>9, <2>2, MoreUsed
<1>11. DOMAIN b = Fields /\ (~b.stop => ProgMapped(a, b, a.phys, StackPage, StackPages))
  BY <1>8, <1>10, StackEntry, ProgMaps
<1> HIDE DEF b
<1>12. ProgMapped(a, b, a.phys, StackPage, StackPages)
  BY <1>7, <1>8, <1>11
<1>13. r = free_directmap(b, b.own)
  BY <1>6, <1>7, <1>8
<1>14. LoadedFrom(m0, M, F, segs, r, Append(x.image, a.phys))
  BY <1>3, <1>8, <1>9, <1>12, <1>13, StackLoads
<1> QED
  BY <1>5, <1>14

(* load_program (kernel.c): the program has what it needs, and nobody      *)
(* else lost anything.                                                     *)
LEMMA ProgramLoads ==
    ASSUME NEW m, Fit(m), ~m.stop, m.win = Permanent,
           m.dir["kernel"][Dir(DirPage)] = KernelEntry,
           NEW prog, SegmentsFit(prog.segments),
           NEW x, x = load_program(m, prog), ~x.m.stop
    PROVE  \E F : LoadedFrom(m, Used(m), F, prog.segments, x.m, x.image)
<1> DEFINE segs == prog.segments
           o == OwnDirectory(m)
           l == LoadSegments(o, segs)
           y == LoadStack(l)
<1>1. prog.compatible
  <2> SUFFICES ASSUME ~prog.compatible PROVE FALSE
    OBVIOUS
  <2>1. x.m = Stop(m)
    BY DEF load_program
  <2>2. Stop(m).stop
    BY DEF Stop, Fit, Fields
  <2> QED
    BY <2>1, <2>2
<1>2. x = [y EXCEPT !.m = CloseDirectory(@)]
  BY <1>1 DEF load_program
<1>3. y = LoadStack(l) /\ l = LoadSegments(o, segs) /\ o = OwnDirectory(m)
  OBVIOUS
<1> HIDE DEF o, l, y
<1>4. DOMAIN o = Fields /\ (~o.stop => \E F : Loading(m, Used(m), F, segs, o, <<>>, 0))
  BY <1>3, OwnDirectoryGives
<1>5. PICK F : ~o.stop => Loading(m, Used(m), F, segs, o, <<>>, 0)
  BY <1>4
<1>6. /\ DOMAIN l.m = Fields
      /\ ~l.m.stop => Loading(m, Used(m), F, segs, l.m, l.image, Len(segs))
  BY <1>3, <1>4, <1>5, LoadSegmentsLoads
<1>7. y = MapStack(ppalloc(l.m, StackPages), l.image)
  BY <1>3 DEF LoadStack
<1>8. x.m = CloseDirectory(y.m) /\ x.image = y.image
  BY <1>2, <1>7 DEF MapStack
<1>9. LoadedFrom(m, Used(m), F, segs, x.m, y.image)
  BY <1>3, <1>6, <1>8, LoadStackLoads
<1> QED
  BY <1>8, <1>9

-----------------------------------------------------------------------------
(* What holds of the memory between two operations.                        *)

(* The frames of everything that is not a table.                           *)
BlockUses == {<<"block", b.page, FramesFrom(b.phys, b.pages)>> :
                  b \in {x \in blocks : x.phys # Failure}}
OtherUses == BlockUses \cup (IF Loaded THEN ProgramUses ELSE {})

(* They have an owner, are no tables, and are apart.                       *)
UsesFit(m, U) ==
    /\ \A u \in U : Holds(m, u[3])
    /\ \A u, w \in U : u = w \/ u[3] \cap w[3] = {}

(* Blocks are mapped to their frames, and share no page.                   *)
BlocksFit ==
    /\ \A b \in blocks : BlockFit(mem, cr3, b)
    /\ \A b, c \in blocks : b = c \/ BlockPages(b) \cap BlockPages(c) = {}

(* Before the load every slot is free but the two, and the entry for the   *)
(* directory is one of config_paging.                                      *)
KernelReady == cr3 = "kernel" =>
    mem.win = Permanent /\ mem.dir["kernel"][Dir(DirPage)] = KernelEntry

(* Afterwards the directory is mapped in itself, and a program that lies   *)
(* apart can use what it was given.                                        *)
ProgramReady == cr3 = "prog" =>
    /\ image \in Seq(Nat) /\ Len(image) = Len(program.segments) + 1
    /\ DirectoryAt(mem, Pte(mem, "prog", DirPage).at)
    /\ ApartFrom(program.segments, met) =>
            mem.win = Permanent /\ ProgramUsable(mem, image, program.segments)

MemoryFit == Fit(mem) /\ BlocksFit /\ UsesFit(mem, OtherUses) /\ KernelReady /\ ProgramReady

(* The inductive invariant.                                                *)
Inv ==
    /\ cr3 \in Owners
    /\ cr3 = "kernel" => program = NoProgram
    /\ cr3 = "prog" => program \in Programs
    /\ Running => MemoryFit

(* Frames that had no owner are shared with nobody.                        *)
LEMMA UsesGrow ==
    ASSUME NEW a, NEW b, NEW U, NEW V, Fit(a), UsesFit(a, U), Keeps(a, b), UsesFit(b, V),
           \A v \in V : v[3] \cap a.used = {}
    PROVE  UsesFit(b, U \cup V)
<1>1. \A u \in U : Holds(b, u[3]) /\ u[3] \subseteq a.used
  BY HoldsOn DEF UsesFit, Holds
<1> QED
  BY <1>1 DEF UsesFit

(* Who gives up a use takes no other's.                                    *)
LEMMA FewerUses ==
    ASSUME NEW m, NEW U, UsesFit(m, U), NEW V \in SUBSET U
    PROVE  UsesFit(m, V)
BY DEF UsesFit

(* Frames that are searched do not wrap.                                   *)
LEMMA RunOfFrames ==
    ASSUME NEW f \in Nat, NEW n \in Nat, f + n <= Limit
    PROVE  FramesFrom(f, n) = Run(f, n)
<1>1. Limit < FrameSpace /\ Limit \in Nat /\ FrameSpace \in Nat \ {0}
  BY PagingAssumption
<1>2. ASSUME NEW k \in 0..(n - 1) PROVE (f + k) % FrameSpace = f + k
  <2>1. f + k \in Nat /\ f + k < FrameSpace
    BY <1>1
  <2> QED
    BY <1>1, <2>1, SMT
<1>3. FramesFrom(f, n) = {f + k : k \in 0..(n - 1)}
  BY <1>2 DEF FramesFrom
<1>4. {f + k : k \in 0..(n - 1)} = f..(f + n - 1)
  <2>1. ASSUME NEW x \in f..(f + n - 1) PROVE \E k \in 0..(n - 1) : x = f + k
    <3>1. x - f \in 0..(n - 1) /\ x = f + (x - f)
      BY <2>1
    <3> QED
      BY <3>1
  <2>2. ASSUME NEW k \in 0..(n - 1) PROVE f + k \in f..(f + n - 1)
    BY <2>2
  <2> QED
    BY <2>1, <2>2
<1> QED
  BY <1>3, <1>4 DEF Run

(* The programs are as the loader needs them.                              *)
LEMMA ProgramsFit == \A prog \in Programs : /\ SegmentsFit(prog.segments)
                                            /\ DOMAIN prog.segments = 1..Len(prog.segments)
<1> SUFFICES ASSUME NEW prog \in Programs
             PROVE  /\ SegmentsFit(prog.segments)
                    /\ DOMAIN prog.segments = 1..Len(prog.segments)
  OBVIOUS
<1> DEFINE segs == prog.segments
<1>1. segs \in Seq([p_vaddr : Nat, p_memsz : Nat \ {0}])
  BY ProgramAssumption
<1>2. \A k \in DOMAIN segs :
          /\ segs[k].p_memsz + 2 * PageSize <= Word
          /\ FirstPage(segs[k]) + SegmentPages(segs[k]) <= AllPages
  BY ProgramAssumption DEF AllPages
<1> HIDE DEF segs
<1>3. Len(segs) \in Nat /\ DOMAIN segs = 1..Len(segs)
  BY <1>1
<1>4. \A k \in 1..Len(segs) : segs[k].p_vaddr \in Nat /\ segs[k].p_memsz \in Nat \ {0}
  <2> DEFINE S == [p_vaddr : Nat, p_memsz : Nat \ {0}]
  <2>1. \A k \in 1..Len(segs) : segs[k] \in S
    <3>1. segs \in Seq(S)
      BY <1>1
    <3> HIDE DEF S
    <3> QED
      BY <1>3, <3>1
  <2> QED
    BY <2>1
<1>5. SegmentsFit(segs)
  BY <1>2, <1>3, <1>4 DEF SegmentsFit, SegmentFits
<1> QED
  BY <1>3, <1>5 DEF segs

(* malloc: a block of new frames on pages where nothing was.               *)
MallocGives(m, pd, bytes, user, r) ==
    LET n == PagesFor(bytes) IN n \in Nat \ {0} /\ Given(m, r, pd, n, user)

(* malloc (heap.c 60-73), when it returns.                                 *)
LEMMA mallocGives ==
    ASSUME NEW m, Fit(m), ~m.stop, NEW pd \in Owners, NEW bytes \in Sizes, NEW user,
           NEW r, r = malloc(m, pd, bytes, user), ~r.stop
    PROVE  MallocGives(m, pd, bytes, user, r)
<1> DEFINE n == PagesFor(bytes)
           x == bytes + Header + PageSize - 1
<1>1. x \in Nat
  BY PagingAssumption
<1>2. n = (x % Word) \div PageSize
  BY DEF PagesFor
<1> HIDE DEF x
<1>3. n \in Nat /\ n <= AllPages
  BY <1>1, <1>2, PagesBounded
<1> HIDE DEF n
<1>4. n # 0
  <2> SUFFICES ASSUME n = 0 PROVE FALSE
    OBVIOUS
  <2>1. r = Stop(m)
    BY DEF malloc, n
  <2> QED
    BY <2>1 DEF Stop, Fit, Fields
<1>5. r = palloc_virt_and_phys(m, pd, n, user)
  BY <1>4 DEF malloc, n
<1>6. Given(m, r, pd, n, user)
  BY <1>3, <1>4, <1>5, PallocGives
<1> QED
  BY <1>3, <1>4, <1>6 DEF MallocGives, n

(* A new block is mapped to new frames, on pages where no other block is.  *)
LEMMA GivenBlock ==
    ASSUME NEW m, Fit(m), NEW pd \in Owners, NEW user, NEW r, NEW n \in Nat \ {0},
           Given(m, r, pd, n, user), NEW new,
           new.page = r.virt, new.pages = n, new.phys = r.phys, new.user = user
    PROVE  /\ Fit(r) /\ Keeps(m, r) /\ \A o \in Owners : DirsKept(m, o, r, o)
           /\ r.win = m.win
           /\ BlockFit(r, pd, new)
           /\ \A b : BlockFit(m, pd, b) => BlockPages(b) \cap BlockPages(new) = {}
           /\ r.phys # Failure =>
                /\ Holds(r, FramesFrom(new.phys, new.pages))
                /\ FramesFrom(new.phys, new.pages) \cap m.used = {}
<1>1. /\ Fit(r) /\ Grown(m, r, pd, r.virt..(r.virt + n - 1), user) /\ r.win = m.win
      /\ r.virt \in Nat /\ r.virt + n <= AllPages /\ r.phys \in Nat
      /\ AllMapped(m, r, pd, r.phys, r.virt, n, user)
      /\ r.phys = Failure \/ FramesGiven(m, r, r.phys, n)
  BY DEF Given
<1>2. Keeps(m, r) /\ \A o \in Owners : DirsKept(m, o, r, o)
  <2> DEFINE P == r.virt..(r.virt + n - 1)
  <2>1. Grown(m, r, pd, P, user)
    BY <1>1
  <2> HIDE DEF P
  <2> QED
    BY <2>1, GrownDirs DEF Grown
<1>3. BlockFit(r, pd, new)
  BY <1>1 DEF BlockFit, AllMapped
<1>4. ASSUME NEW b, BlockFit(m, pd, b), NEW q \in BlockPages(b) \cap BlockPages(new)
      PROVE  FALSE
  <2>1. b.page \in Nat /\ b.pages \in Nat /\ b.phys \in Nat
    BY <1>4 DEF BlockFit
  <2>2. q - b.page \in 0..(b.pages - 1) /\ b.page + (q - b.page) = q
        /\ b.phys + (q - b.page) \in Nat
    BY <2>1 DEF BlockPages
  <2>3. Pte(m, pd, q) = [at |-> (b.phys + (q - b.page)) % FrameSpace, user |-> b.user]
    BY <1>4, <2>2 DEF BlockFit
  <2>4. Pte(m, pd, q) # NoPage
    BY <2>2, <2>3, Present
  <2>5. q - r.virt \in 0..(n - 1) /\ r.virt + (q - r.virt) = q
    BY <1>1 DEF BlockPages
  <2> QED
    BY <1>1, <2>4, <2>5 DEF AllMapped
<1>5. ASSUME r.phys # Failure
      PROVE  /\ Holds(r, FramesFrom(new.phys, new.pages))
             /\ FramesFrom(new.phys, new.pages) \cap m.used = {}
  <2>1. FramesGiven(m, r, r.phys, n)
    BY <1>1, <1>5
  <2>2. FramesFrom(r.phys, n) = Run(r.phys, n)
    BY <2>1, RunOfFrames DEF FramesGiven
  <2> QED
    BY <2>1, <2>2 DEF FramesGiven
<1> QED
  BY <1>1, <1>2, <1>3, <1>4, <1>5

(* What a program can use it can use later.                                *)
LEMMA ProgramUsableOn ==
    ASSUME NEW a, Fit(a), NEW b, Keeps(a, b), DirsKept(a, "prog", b, "prog"),
           NEW segs, SegmentsFit(segs), NEW img \in Seq(Nat), Len(img) = Len(segs) + 1,
           ProgramUsable(a, img, segs)
    PROVE  ProgramUsable(b, img, segs)
<1>0. Len(segs) \in Nat
  BY DEF SegmentsFit
<1>1. ASSUME NEW j \in 1..Len(segs)
      PROVE  UsableAt(b, img[j], FirstPage(segs[j]), SegmentPages(segs[j]))
  <2>1. img[j] \in Nat /\ SegmentFits(segs[j])
    BY <1>0 DEF SegmentsFit
  <2>2. FirstPage(segs[j]) \in Nat
    BY <2>1, Quotient, PagingAssumption DEF SegmentFits, FirstPage
  <2>3. SegmentPages(segs[j]) \in Nat /\ FirstPage(segs[j]) + SegmentPages(segs[j]) <= AllPages
    BY <2>1, SegmentSizes DEF SegmentFits
  <2>4. UsableAt(a, img[j], FirstPage(segs[j]), SegmentPages(segs[j]))
    BY DEF ProgramUsable
  <2> QED
    BY <2>1, <2>2, <2>3, <2>4, UsableOn
<1>2. UsableAt(b, img[Len(segs) + 1], StackPage, StackPages)
  <2>1. img[Len(segs) + 1] \in Nat
    BY <1>0
  <2>2. UsableAt(a, img[Len(segs) + 1], StackPage, StackPages)
    BY DEF ProgramUsable
  <2> QED
    BY <2>1, <2>2, StackEntry, UsableOn
<1> QED
  BY <1>1, <1>2 DEF ProgramUsable

(* The kernel starts so.                                                   *)
LEMMA InitInv == Init => Inv
<1> SUFFICES ASSUME Init PROVE Inv
  OBVIOUS
<1> USE DEF Init
<1>1. DOMAIN mem = Fields
  BY DEF Fields
<1>2. /\ mem.dir["kernel"] = page_directory /\ mem.dir["prog"] = page_directory
      /\ DOMAIN mem.dir = Owners /\ DOMAIN mem.tbl = {}
      /\ mem.used = 0..(Reserved - 1) /\ mem.win = Permanent
  BY DEF Owners
<1>3. /\ DOMAIN page_directory = Dirs
      /\ \A d \in Dirs : page_directory[d] = Absent \/ page_directory[d] = KernelEntry
  BY DEF page_directory, Dirs
<1>4. \A o \in Owners : mem.dir[o] = page_directory
  BY <1>2 DEF Owners
<1>5. Placed(mem) /\ Linked(mem)
  BY <1>2, <1>3, <1>4 DEF Placed, Linked
<1>6. Framed(mem)
  <2>1. Reserved \in Nat /\ Limit \in Nat /\ Reserved <= Limit
    BY PagingAssumption
  <2>2. mem.used \subseteq 0..(Limit - 1)
    BY <1>2, <2>1
  <2> QED
    BY <1>2, <2>2 DEF Framed
<1>7. Fit(mem)
  BY <1>1, <1>5, <1>6 DEF Fit
<1>8. cr3 = "kernel" /\ cr3 \in Owners /\ cr3 # "prog" /\ blocks = {} /\ program = NoProgram
  BY DEF Owners
<1>9. KernelReady
  <2>1. page_directory[Dir(DirPage)] = KernelEntry
    BY DirectoryAssumption, DirPageInRange, DirEnt DEF page_directory, Dirs
  <2> QED
    BY <1>2, <2>1 DEF KernelReady
<1>10. BlocksFit /\ UsesFit(mem, OtherUses) /\ ProgramReady
  BY <1>8 DEF BlocksFit, OtherUses, BlockUses, UsesFit, Loaded, ProgramReady
<1> QED
  BY <1>7, <1>8, <1>9, <1>10 DEF Inv, MemoryFit

(* Memory that grew and kept what a program was given.                     *)
LEMMA ProgramStays ==
    ASSUME Inv, Running, Running', Fit(mem'), Keeps(mem, mem'),
           DirsKept(mem, "prog", mem', "prog"), mem'.win = mem.win,
           UNCHANGED <<cr3, program, image, met>>
    PROVE  /\ ProgramReady'
           /\ Loaded' = Loaded
           /\ Loaded => ProgramUses' = ProgramUses
<1>1. Fit(mem) /\ ProgramReady
  BY DEF Inv, MemoryFit
<1>2. Loaded' = Loaded
  BY DEF Loaded
<1>3. ASSUME cr3 = "prog"
      PROVE  /\ ProgramReady' /\ ProgramUses' = ProgramUses
  <2>1. /\ image \in Seq(Nat) /\ Len(image) = Len(program.segments) + 1
        /\ DirectoryAt(mem, Pte(mem, "prog", DirPage).at)
        /\ ApartFrom(program.segments, met) =>
                mem.win = Permanent /\ ProgramUsable(mem, image, program.segments)
    BY <1>1, <1>3 DEF ProgramReady
  <2>2. SegmentsFit(program.segments)
    BY <1>3, ProgramsFit DEF Inv
  <2>3. Pte(mem', "prog", DirPage) = Pte(mem, "prog", DirPage)
    BY <1>1, <2>1, DirPageInRange, PteKept DEF DirectoryAt, Owners
  <2>4. DirectoryAt(mem', Pte(mem', "prog", DirPage).at)
    BY <1>1, <2>1, <2>3, DirectoryOn
  <2>5. ApartFrom(program.segments, met) =>
            mem'.win = Permanent /\ ProgramUsable(mem', image, program.segments)
    BY <1>1, <2>1, <2>2, ProgramUsableOn
  <2>6. ProgramReady'
    BY <2>1, <2>4, <2>5 DEF ProgramReady
  <2>7. ProgramUses' = ProgramUses
    BY <2>3 DEF ProgramUses, SegmentUses, StackFrame
  <2> QED
    BY <2>6, <2>7
<1>4. cr3 # "prog" => ProgramReady'
  BY DEF ProgramReady
<1> QED
  BY <1>2, <1>3, <1>4 DEF Loaded

(* malloc keeps the invariant.                                             *)
LEMMA MallocInv ==
    ASSUME Inv, NEW bytes \in Sizes, NEW user \in BOOLEAN, Malloc(bytes, user)
    PROVE  Inv'
<1>1. /\ ~mem.stop /\ mem' = malloc(mem, cr3, bytes, user)
      /\ UNCHANGED <<cr3, program, image, met>>
      /\ blocks' = IF mem'.stop THEN blocks
                   ELSE blocks \cup {[page |-> mem'.virt, pages |-> PagesFor(bytes),
                                      phys |-> mem'.phys, user |-> user, bytes |-> bytes]}
  BY DEF Malloc
<1> SUFFICES ASSUME ~mem'.stop PROVE MemoryFit'
  BY <1>1 DEF Inv, Running
<1> DEFINE new == [page |-> mem'.virt, pages |-> PagesFor(bytes),
                   phys |-> mem'.phys, user |-> user, bytes |-> bytes]
           n == PagesFor(bytes)
<1>2. Fit(mem) /\ BlocksFit /\ UsesFit(mem, OtherUses) /\ KernelReady /\ ProgramReady
      /\ cr3 \in Owners /\ Running /\ Running'
  BY <1>1 DEF Inv, MemoryFit, Running
<1>3. n \in Nat \ {0} /\ Given(mem, mem', cr3, n, user)
  BY <1>1, <1>2, mallocGives DEF MallocGives
<1>4. blocks' = blocks \cup {new} /\ new.page = mem'.virt /\ new.pages = n
      /\ new.phys = mem'.phys /\ new.user = user
  BY <1>1
<1> HIDE DEF new, n
<1>5. /\ Fit(mem') /\ Keeps(mem, mem') /\ \A o \in Owners : DirsKept(mem, o, mem', o)
      /\ mem'.win = mem.win
      /\ BlockFit(mem', cr3, new)
      /\ \A b : BlockFit(mem, cr3, b) => BlockPages(b) \cap BlockPages(new) = {}
      /\ mem'.phys # Failure =>
            /\ Holds(mem', FramesFrom(new.phys, new.pages))
            /\ FramesFrom(new.phys, new.pages) \cap mem.used = {}
  BY <1>2, <1>3, <1>4, GivenBlock
<1>6. BlocksFit'
  <2>1. \A b \in blocks : BlockFit(mem', cr3, b)
    BY <1>2, <1>5, BlockFitOn DEF BlocksFit
  <2>2. \A b, c \in blocks \cup {new} : b = c \/ BlockPages(b) \cap BlockPages(c) = {}
    BY <1>2, <1>5 DEF BlocksFit
  <2> QED
    BY <1>1, <1>4, <1>5, <2>1, <2>2 DEF BlocksFit, BlockPages
<1>7. /\ ProgramReady' /\ Loaded' = Loaded /\ (Loaded => ProgramUses' = ProgramUses)
  <2>1. DirsKept(mem, "prog", mem', "prog")
    BY <1>5 DEF Owners
  <2> QED
    BY <1>1, <1>2, <1>5, <2>1, ProgramStays
<1>8. KernelReady'
  <2> SUFFICES ASSUME cr3 = "kernel"
               PROVE  mem'.win = Permanent /\ mem'.dir["kernel"][Dir(DirPage)] = KernelEntry
    BY <1>1 DEF KernelReady
  <2>1. \A P : Grown(mem, mem', "kernel", P, user) =>
            mem'.dir["kernel"][Dir(DirPage)] = KernelEntry
    <3>1. Dir(DirPage) \in Dirs
      BY DirPageInRange, DirEnt
    <3>2. KernelEntry # Absent
      BY DEF KernelEntry, Absent, None
    <3> QED
      BY <1>2, <3>1, <3>2 DEF Grown, EntryKept, KernelReady
  <2> QED
    BY <1>2, <1>3, <1>5, <2>1 DEF Given, KernelReady
<1>9. UsesFit(mem', OtherUses')
  <2> DEFINE V == {<<"block", b.page, FramesFrom(b.phys, b.pages)>> :
                       b \in {x \in {new} : x.phys # Failure}}
  <2>1. UsesFit(mem', V) /\ \A v \in V : v[3] \cap mem.used = {}
    BY <1>4, <1>5 DEF UsesFit
  <2>2. BlockUses' = BlockUses \cup V
    BY <1>4 DEF BlockUses
  <2>3. OtherUses' = OtherUses \cup V
    BY <1>7, <2>2 DEF OtherUses
  <2> HIDE DEF V
  <2> QED
    BY <1>2, <1>5, <2>1, <2>3, UsesGrow
<1> QED
  BY <1>5, <1>6, <1>7, <1>8, <1>9 DEF MemoryFit

(* free keeps it: nothing is unmapped and nothing given back.              *)
LEMMA FreeInv ==
    ASSUME Inv, NEW b \in blocks, Free(b)
    PROVE  Inv'
<1>1. /\ ~mem.stop /\ mem' \in {mem, Stop(mem)} /\ blocks' = blocks \ {b}
      /\ UNCHANGED <<cr3, program, image, met>>
  BY DEF Free, unmap_page
<1> SUFFICES ASSUME ~mem'.stop PROVE MemoryFit'
  BY <1>1 DEF Inv, Running
<1>2. MemoryFit /\ Fit(mem)
  BY <1>1 DEF Inv, MemoryFit, Running
<1>3. mem' = mem
  BY <1>1, <1>2 DEF Stop, Fit, Fields
<1>4. BlocksFit'
  BY <1>1, <1>2, <1>3 DEF MemoryFit, BlocksFit, BlockPages
<1>5. Loaded' = Loaded /\ ProgramUses' = ProgramUses
  BY <1>1, <1>3 DEF Loaded, Running, ProgramUses, SegmentUses, StackFrame
<1>6. UsesFit(mem', OtherUses')
  <2>1. BlockUses' \subseteq BlockUses
    BY <1>1 DEF BlockUses
  <2>2. OtherUses' \subseteq OtherUses
    BY <1>5, <2>1 DEF OtherUses
  <2> QED
    BY <1>2, <1>3, <2>2, FewerUses DEF MemoryFit
<1>7. KernelReady' /\ ProgramReady'
  BY <1>1, <1>2, <1>3 DEF MemoryFit, KernelReady, ProgramReady
<1> QED
  BY <1>2, <1>3, <1>4, <1>6, <1>7 DEF MemoryFit

(* The frames of a program that was loaded are its own.                    *)
LEMMA LoadedUses ==
    ASSUME NEW m0, NEW M, NEW F, NEW prog \in Programs, NEW m, NEW img,
           LoadedFrom(m0, M, F, prog.segments, m, img),
           mem' = m, image' = img, program' = prog
    PROVE  UsesFit(m, ProgramUses') /\ \A u \in ProgramUses' : u[3] \cap m0.used = {}
<1> DEFINE segs == prog.segments
           n == Len(segs)
           f == img[n + 1]
           Seg(u) == \E k \in 1..n : u = <<"segment", k, SegRun(img, segs, k)>>
           Stk(u) == f # Failure /\ u = <<"stack", 0, Run(f, StackPages)>>
           Drc(u) == u = <<"directory", 0, {F}>>
<1>1. SegmentsFit(segs) /\ DOMAIN segs = 1..n /\ n \in Nat
  BY ProgramsFit DEF SegmentsFit
<1>2. /\ img \in Seq(Nat) /\ Len(img) = n + 1
      /\ DirectoryAt(m, F) /\ F \notin m0.used
      /\ SegmentsGiven(m0, m, img, segs, n, F)
      /\ StackGiven(m0, m, img, segs, F)
  BY DEF LoadedFrom
<1>3. StackFrame' = f
  BY <1>2 DEF StackFrame
<1>4. f = Failure \/ /\ FramesFrom(f, StackPages) = Run(f, StackPages)
                     /\ Holds(m, Run(f, StackPages))
                     /\ Run(f, StackPages) \cap m0.used = {}
                     /\ F \notin Run(f, StackPages)
                     /\ \A j \in 1..n : SegRun(img, segs, j) \cap Run(f, StackPages) = {}
  BY <1>2, StackEntry, RunOfFrames DEF StackGiven
<1>5. ASSUME NEW u \in ProgramUses' PROVE Seg(u) \/ Stk(u) \/ Drc(u)
  <2>1. \/ u \in SegmentUses'
        \/ f # Failure /\ u = <<"stack", 0, FramesFrom(f, StackPages)>>
        \/ u = <<"directory", 0, {Pte(m, "prog", DirPage).at}>>
    BY <1>3 DEF ProgramUses
  <2>2. u \in SegmentUses' => Seg(u)
    BY <1>1 DEF SegmentUses, SegRun
  <2>3. Pte(m, "prog", DirPage).at = F
    BY <1>2 DEF DirectoryAt
  <2> QED
    BY <1>4, <2>1, <2>2, <2>3
<1>6. /\ \A j \in 1..n : /\ Holds(m, SegRun(img, segs, j))
                         /\ SegRun(img, segs, j) \cap m0.used = {}
                         /\ F \notin SegRun(img, segs, j)
      /\ \A i, j \in 1..n : i = j \/ SegRun(img, segs, i) \cap SegRun(img, segs, j) = {}
  BY <1>2 DEF SegmentsGiven, SegmentGiven
<1>7. Holds(m, {F}) /\ F \notin m0.used
  BY <1>2 DEF DirectoryAt
<1> HIDE DEF f, n, segs
<1>8. ASSUME NEW u \in ProgramUses'
      PROVE  Holds(m, u[3]) /\ u[3] \cap m0.used = {}
  <2>1. CASE Seg(u)
    BY <1>6, <2>1
  <2>2. CASE Stk(u)
    BY <1>4, <2>2
  <2>3. CASE Drc(u)
    BY <1>7, <2>3
  <2> QED
    BY <1>5, <2>1, <2>2, <2>3
<1>9. ASSUME NEW u \in ProgramUses', NEW w \in ProgramUses'
      PROVE  u = w \/ u[3] \cap w[3] = {}
  <2>1. (Seg(u) \/ Stk(u) \/ Drc(u)) /\ (Seg(w) \/ Stk(w) \/ Drc(w))
    BY <1>5
  <2>2. Seg(u) /\ Seg(w) => u = w \/ u[3] \cap w[3] = {}
    BY <1>6
  <2>3. /\ Seg(u) /\ Stk(w) => u[3] \cap w[3] = {}
        /\ Stk(u) /\ Seg(w) => u[3] \cap w[3] = {}
    BY <1>4
  <2>4. /\ Seg(u) /\ Drc(w) => u[3] \cap w[3] = {}
        /\ Drc(u) /\ Seg(w) => u[3] \cap w[3] = {}
    BY <1>6
  <2>5. /\ Stk(u) /\ Drc(w) => u[3] \cap w[3] = {}
        /\ Drc(u) /\ Stk(w) => u[3] \cap w[3] = {}
    BY <1>4
  <2>6. (Stk(u) /\ Stk(w) => u = w) /\ (Drc(u) /\ Drc(w) => u = w)
    OBVIOUS
  <2> HIDE DEF Seg, Stk, Drc
  <2> QED
    BY <2>1, <2>2, <2>3, <2>4, <2>5, <2>6
<1> QED
  BY <1>8, <1>9 DEF UsesFit

(* load_program keeps it, with every block and the directory exchanged.    *)
LEMMA LoadInv ==
    ASSUME Inv, NEW prog \in Programs, Load(prog)
    PROVE  Inv'
<1> DEFINE x == load_program(mem, prog)
<1>1. /\ ~mem.stop /\ cr3 = "kernel" /\ mem' = x.m /\ cr3' = "prog" /\ program' = prog
      /\ image' = x.image /\ met' = Used(mem) /\ blocks' = blocks
  BY DEF Load, Used, Dirs
<1>2. x = load_program(mem, prog)
  OBVIOUS
<1> HIDE DEF x
<1>3. cr3' \in Owners /\ cr3' # "kernel" /\ program' \in Programs
  BY <1>1 DEF Owners
<1> SUFFICES ASSUME ~mem'.stop PROVE MemoryFit'
  BY <1>1, <1>3 DEF Inv, Running
<1>4. /\ Fit(mem) /\ BlocksFit /\ UsesFit(mem, OtherUses)
      /\ mem.win = Permanent /\ mem.dir["kernel"][Dir(DirPage)] = KernelEntry
  BY <1>1 DEF Inv, MemoryFit, Running, KernelReady
<1>5. SegmentsFit(prog.segments)
  BY ProgramsFit
<1>6. PICK F : LoadedFrom(mem, Used(mem), F, prog.segments, x.m, x.image)
  BY <1>1, <1>2, <1>4, <1>5, ProgramLoads
<1>7. Fit(mem') /\ Keeps(mem, mem') /\ DirsKept(mem, "kernel", mem', "prog")
  BY <1>1, <1>6 DEF LoadedFrom
<1>8. BlocksFit'
  <2>1. "kernel" \in Owners
    BY DEF Owners
  <2>2. \A b \in blocks : BlockFit(mem', "prog", b)
    BY <1>1, <1>4, <1>7, <2>1, BlockFitOn DEF BlocksFit
  <2> QED
    BY <1>1, <1>4, <2>2 DEF BlocksFit, BlockPages
<1>9. UsesFit(mem', OtherUses')
  <2>1. UsesFit(mem', ProgramUses') /\ \A u \in ProgramUses' : u[3] \cap mem.used = {}
    BY <1>1, <1>6, LoadedUses
  <2>2. Loaded' /\ ~Loaded
    BY <1>1 DEF Loaded, Running
  <2>3. BlockUses' = BlockUses
    BY <1>1 DEF BlockUses
  <2>4. OtherUses' = OtherUses \cup ProgramUses'
    BY <2>2, <2>3 DEF OtherUses
  <2> QED
    BY <1>4, <1>7, <2>1, <2>4, UsesGrow
<1>10. KernelReady'
  BY <1>1 DEF KernelReady
<1>11. ProgramReady'
  <2>1. /\ x.image \in Seq(Nat) /\ Len(x.image) = Len(prog.segments) + 1
        /\ DirectoryAt(x.m, F)
        /\ ApartFrom(prog.segments, Used(mem)) =>
                x.m.win = Permanent /\ ProgramUsable(x.m, x.image, prog.segments)
    BY <1>6 DEF LoadedFrom
  <2>2. DirectoryAt(x.m, Pte(x.m, "prog", DirPage).at)
    BY <2>1 DEF DirectoryAt
  <2> QED
    BY <1>1, <2>1, <2>2 DEF ProgramReady
<1> QED
  BY <1>7, <1>8, <1>9, <1>10, <1>11 DEF MemoryFit

(* All the results below follow from it.                                   *)
LEMMA Invariant == Spec => []Inv
<1>1. Init => Inv
  BY InitInv
<1>2. Inv /\ [Next]_vars => Inv'
  <2> SUFFICES ASSUME Inv, [Next]_vars PROVE Inv'
    OBVIOUS
  <2>1. ASSUME NEW bytes \in Sizes, NEW user \in BOOLEAN, Malloc(bytes, user) PROVE Inv'
    BY <2>1, MallocInv
  <2>2. ASSUME NEW b \in blocks, Free(b) PROVE Inv'
    BY <2>2, FreeInv
  <2>3. ASSUME NEW prog \in Programs, Load(prog) PROVE Inv'
    BY <2>3, LoadInv
  <2>4. CASE UNCHANGED vars
    BY <2>4 DEF vars, Inv, Running, MemoryFit, BlocksFit, BlockPages, OtherUses, BlockUses,
                Loaded, ProgramUses, SegmentUses, StackFrame, KernelReady, ProgramReady
  <2> QED
    BY <2>1, <2>2, <2>3, <2>4 DEF Next
<1> QED
  BY <1>1, <1>2, PTL DEF Spec

(* Tables, blocks and the program share no frame.                          *)
LEMMA InvSingleUse == Inv => SingleUse
<1> SUFFICES ASSUME Inv, Running
             PROVE  /\ \A u, w \in FrameUses : u = w \/ u[3] \cap w[3] = {}
                    /\ \A u \in FrameUses : u[3] \subseteq Reserved..(Limit - 1)
  BY DEF SingleUse
<1> DEFINE T == {<<"table", t, {t}>> : t \in DOMAIN mem.tbl}
<1>1. FrameUses = T \cup OtherUses
  BY DEF FrameUses, OtherUses, BlockUses
<1>2. Fit(mem) /\ UsesFit(mem, OtherUses)
  BY DEF Inv, MemoryFit
<1>3. DOMAIN mem.tbl \subseteq mem.used \ 0..(Reserved - 1) /\ mem.used \subseteq 0..(Limit - 1)
  BY <1>2 DEF Fit, Framed
<1>4. mem.used \ 0..(Reserved - 1) \subseteq Reserved..(Limit - 1)
  <2>1. Reserved \in Nat /\ Limit \in Nat
    BY PagingAssumption
  <2> QED
    BY <1>3, <2>1
<1>5. \A u \in OtherUses : Holds(mem, u[3])
  BY <1>2 DEF UsesFit
<1>6. \A u \in T : u[3] \subseteq DOMAIN mem.tbl
  OBVIOUS
<1>7. \A u, w \in T : u = w \/ u[3] \cap w[3] = {}
  OBVIOUS
<1> HIDE DEF T
<1>8. \A u \in FrameUses : u[3] \subseteq Reserved..(Limit - 1)
  BY <1>1, <1>3, <1>4, <1>5, <1>6 DEF Holds
<1>9. \A u, w \in FrameUses : u = w \/ u[3] \cap w[3] = {}
  BY <1>1, <1>2, <1>5, <1>6, <1>7 DEF Holds, UsesFit
<1> QED
  BY <1>8, <1>9

(* Every page frame has one use, whatever was allocated, freed and loaded  *)
(* before, and requests that failed included (ppalloc, map_page, malloc,   *)
(* load_program).                                                          *)
THEOREM FramesHaveOneUse == Spec => []SingleUse
BY Invariant, InvSingleUse, PTL

(* Blocks are where their headers say.                                     *)
LEMMA InvBlockMapped == Inv => BlockMapped
<1> SUFFICES ASSUME Inv, Running
             PROVE  /\ \A b \in blocks : \A k \in 0..(b.pages - 1) :
                            Pte(mem, cr3, b.page + k).at = (b.phys + k) % FrameSpace
                    /\ \A b, c \in blocks : b = c \/ BlockPages(b) \cap BlockPages(c) = {}
  BY DEF BlockMapped
<1>1. BlocksFit
  BY DEF Inv, MemoryFit
<1>2. ASSUME NEW b \in blocks, NEW k \in 0..(b.pages - 1)
      PROVE  Pte(mem, cr3, b.page + k).at = (b.phys + k) % FrameSpace
  <2>1. Pte(mem, cr3, b.page + k) = [at |-> (b.phys + k) % FrameSpace, user |-> b.user]
    BY <1>1 DEF BlocksFit, BlockFit
  <2> QED
    BY <2>1
<1> QED
  BY <1>1, <1>2 DEF BlocksFit

(* A block stays mapped to the frames its header names, also when the      *)
(* directory becomes the program's, and no two blocks share a page.        *)
THEOREM BlocksAreMapped == Spec => []BlockMapped
BY Invariant, InvBlockMapped, PTL

(* Apart, in the form the loader's lemmas have.                            *)
LEMMA ApartIs ==
    ASSUME Inv, cr3 = "prog", Apart(program)
    PROVE  ApartFrom(program.segments, met)
<1>1. program \in Programs
  BY DEF Inv
<1>2. DOMAIN program.segments = 1..Len(program.segments)
  BY <1>1, ProgramsFit
<1> QED
  BY <1>2 DEF Apart, ApartFrom, StackRange

(* No slot is lost.                                                        *)
LEMMA InvWindowsReturned == Inv => WindowsReturned
<1> SUFFICES ASSUME Inv, Running, Apart(program) PROVE mem.win = Permanent
  BY DEF WindowsReturned
<1>1. KernelReady /\ ProgramReady /\ (cr3 = "kernel" \/ cr3 = "prog")
  BY DEF Inv, MemoryFit, Owners
<1> QED
  BY <1>1, ApartIs DEF KernelReady, ProgramReady

(* Every slot of the direct map but the two permanent ones is given back   *)
(* by every operation, unless a program or its stack runs into what is     *)
(* mapped (map_page's early return).                                       *)
THEOREM WindowsComeBack == Spec => []WindowsReturned
BY Invariant, InvWindowsReturned, PTL

(* A page of a run the program may use.                                    *)
LEMMA UsableReached ==
    ASSUME NEW frame \in Nat, NEW page \in Nat, NEW n \in Nat,
           UsableAt(mem, frame, page, n), NEW q \in page..(page + n - 1)
    PROVE  /\ Pte(mem, "prog", q).at = (frame + (q - page)) % FrameSpace
           /\ Reachable(q)
<1> DEFINE j == q - page
<1>1. j \in 0..(n - 1) /\ page + j = q
  OBVIOUS
<1> HIDE DEF j
<1>2. /\ Pte(mem, "prog", q) = [at |-> (frame + j) % FrameSpace, user |-> TRUE]
      /\ mem.dir["prog"][Dir(q)].user = TRUE
  BY <1>1 DEF UsableAt, LinkedAt
<1>3. Pte(mem, "prog", q).at = (frame + j) % FrameSpace
  BY <1>2
<1>4. Pte(mem, "prog", q).user = TRUE
  BY <1>2
<1>5. Reachable(q)
  BY <1>2, <1>4 DEF Reachable
<1> QED
  BY <1>3, <1>5 DEF j

(* A program finds itself where it was linked to.                          *)
LEMMA InvLoadedAsLinked == Inv => LoadedAsLinked
<1> SUFFICES ASSUME Inv, Running, cr3 = "prog", Apart(program)
             PROVE  /\ \A k \in DOMAIN program.segments :
                        \A p \in PagesOf(program.segments[k]) :
                            /\ Pte(mem, "prog", p).at
                                    = image[k] + (p - FirstPage(program.segments[k]))
                            /\ Reachable(p)
                    /\ \A k \in 0..(StackPages - 1) :
                            /\ Pte(mem, "prog", StackPage + k).at
                                    = (StackFrame + k) % FrameSpace
                            /\ Reachable(StackPage + k)
  BY DEF LoadedAsLinked, Loaded
<1> DEFINE segs == program.segments
           n == Len(segs)
<1>1. program \in Programs /\ MemoryFit /\ Loaded
  BY DEF Inv, Loaded
<1>2. SegmentsFit(segs) /\ DOMAIN segs = 1..n /\ n \in Nat
  BY <1>1, ProgramsFit DEF SegmentsFit
<1>3. ProgramUsable(mem, image, segs) /\ image \in Seq(Nat) /\ Len(image) = n + 1
  BY <1>1, ApartIs DEF MemoryFit, ProgramReady
<1>4. ASSUME NEW k \in 1..n, NEW p \in PagesOf(segs[k])
      PROVE  Pte(mem, "prog", p).at = image[k] + (p - FirstPage(segs[k])) /\ Reachable(p)
  <2> DEFINE s == segs[k]
             g == SegmentPages(s)
  <2>1. SegmentFits(s)
    BY <1>2 DEF SegmentsFit
  <2>2. FirstPage(s) \in Nat
    BY <2>1, Quotient, PagingAssumption DEF SegmentFits, FirstPage
  <2>3. g \in Nat \ {0}
    BY <2>1, SegmentSizes DEF SegmentFits
  <2>4. image[k] \in Nat
    BY <1>2, <1>3
  <2>5. UsableAt(mem, image[k], FirstPage(s), g)
    BY <1>3 DEF ProgramUsable
  <2>6. p \in FirstPage(s)..(FirstPage(s) + g - 1)
    BY DEF PagesOf
  <2>7. Pte(mem, "prog", p).at = (image[k] + (p - FirstPage(s))) % FrameSpace /\ Reachable(p)
    BY <2>2, <2>3, <2>4, <2>5, <2>6, UsableReached
  <2>8. (image[k] - 1)..(image[k] + g - 1) \subseteq mem.used
    <3>1. <<"segment", k, (image[k] - 1)..(image[k] + g - 1)>> \in OtherUses
      BY <1>1, <1>2 DEF OtherUses, ProgramUses, SegmentUses
    <3> QED
      BY <1>1, <3>1 DEF MemoryFit, UsesFit, Holds
  <2>9. mem.used \subseteq 0..(Limit - 1) /\ Limit < FrameSpace /\ Limit \in Nat
        /\ FrameSpace \in Nat \ {0}
    <3>1. Limit < FrameSpace /\ Limit \in Nat /\ FrameSpace \in Nat \ {0}
      BY PagingAssumption
    <3>2. mem.used \subseteq 0..(Limit - 1)
      BY <1>1 DEF MemoryFit, Fit, Framed
    <3> QED
      BY <3>1, <3>2
  <2> HIDE DEF s, g
  <2>10. image[k] + g - 1 < Limit
    <3>1. image[k] + g - 1 \in (image[k] - 1)..(image[k] + g - 1)
      BY <2>3, <2>4
    <3>2. image[k] + g - 1 \in 0..(Limit - 1)
      BY <2>8, <2>9, <3>1
    <3> QED
      BY <2>9, <3>2
  <2> DEFINE y == image[k] + (p - FirstPage(s))
  <2>11. y \in Nat /\ y < FrameSpace
    BY <2>2, <2>3, <2>4, <2>6, <2>9, <2>10
  <2>12. y % FrameSpace = y
    <3> HIDE DEF y
    <3> QED
      BY <2>9, <2>11, SMT
  <2>13. Pte(mem, "prog", p).at = y
    BY <2>7, <2>12
  <2> QED
    BY <2>7, <2>13 DEF s
<1>5. ASSUME NEW k \in 0..(StackPages - 1)
      PROVE  /\ Pte(mem, "prog", StackPage + k).at = (StackFrame + k) % FrameSpace
             /\ Reachable(StackPage + k)
  <2>1. StackFrame = image[n + 1] /\ StackFrame \in Nat
    BY <1>2, <1>3 DEF StackFrame
  <2>2. UsableAt(mem, StackFrame, StackPage, StackPages)
    BY <1>3, <2>1 DEF ProgramUsable
  <2>3. /\ StackPage + k \in StackPage..(StackPage + StackPages - 1)
        /\ (StackPage + k) - StackPage = k
    BY StackEntry
  <2>4. /\ Pte(mem, "prog", StackPage + k).at
                = (StackFrame + ((StackPage + k) - StackPage)) % FrameSpace
        /\ Reachable(StackPage + k)
    BY <2>1, <2>2, <2>3, StackEntry, UsableReached
  <2> QED
    BY <2>3, <2>4
<1> QED
  BY <1>2, <1>4, <1>5

(* A program whose segments lie apart has each segment and its stack       *)
(* where it was linked to, with the user bit in the directory and in the   *)
(* table, and no later malloc or free takes it away.                       *)
THEOREM ProgramsLoadAsLinked == Spec => []LoadedAsLinked
BY Invariant, InvLoadedAsLinked, PTL
=============================================================================
