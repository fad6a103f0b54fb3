----------------------------- MODULE AtufsProofs ------------------------------
(***************************************************************************)
(* Proofs about Atufs and Directory, for every number of files, clusters   *)
(* and extents and every length that is written.                           *)
(*                                                                         *)
(* An operation is followed from a state s of its computation to the next  *)
(* by what each write does to s.disk. What the running operation has still *)
(* to write leads from the disk to the volume it computed (Leads), so what *)
(* holds of that volume holds of the disk when nothing is left to write.   *)
(* With crashes (the last parts, about Directory) what has to be known is  *)
(* each disk on the way (Reaches), and, where files and what directories   *)
(* name matter, each sector on the way and what it holds (Sends).          *)
(***************************************************************************)
EXTENDS Atufs, Directory, FiniteSetTheorems, TLAPS

FileNumbers == 0..(Files - 1)
ClusterNumbers == 0..(Clusters - 1)

(* The contents of each kind of sector.                                    *)
Counts == [files : Nat, clusters : Nat]
Extent == [start : Nat, many : Nat]
ExtentLists == [1..Extents -> Extent]

(* An inode has its extents in its first slots, all of them in the volume, *)
(* and none when its contents are inline.                                  *)
Compact(ext) == \A i, j \in 1..Extents : i <= j /\ ext[i].many = 0 => ext[j].many = 0
InVolume(ext) == \A i \in 1..Extents : Cells(ext[i]) \subseteq ClusterNumbers
Trim(n) ==
    /\ Compact(n.ext) /\ InVolume(n.ext)
    /\ (~n.large \/ n.size <= InlineMax) => n.ext = NoExtents
InodeRecords == [large : BOOLEAN, size : Nat, ext : ExtentLists, inline : Stamps \cup {<<>>}]
Inodes == {n \in InodeRecords : Trim(n)}
Parts == (Stamps \cup {<<>>}) \X Int

Writes ==
    [at : {Info}, is : Counts]
    \cup [at : {FBmp}, is : SUBSET (0..BitOf(Files - 1))]
    \cup [at : {CBmp}, is : SUBSET ClusterNumbers]
    \cup [at : {Inode(f) : f \in FileNumbers}, is : Inodes]
    \cup [at : {Data(c) : c \in ClusterNumbers}, is : Parts]

Volume(v) ==
    /\ v = [a \in Addresses |-> v[a]]
    /\ \A a \in Addresses : [at |-> a, is |-> v[a]] \in Writes

(* The sectors of the log, written to d, give v.                           *)
Leads(d, log, v) == \A a \in Addresses :
    \/ v[a] = d[a] /\ \A i \in 1..Len(log) : log[i].at # a
    \/ \E i \in 1..Len(log) :
           /\ log[i].at = a /\ log[i].is = v[a]
           /\ \A j \in (i + 1)..Len(log) : log[j].at # a

-----------------------------------------------------------------------------
(* No two sectors have one address.                                        *)
LEMMA AddressesApart ==
  /\ Info \in Addresses /\ FBmp \in Addresses /\ CBmp \in Addresses
  /\ Info # FBmp /\ Info # CBmp /\ FBmp # CBmp
  /\ \A f \in FileNumbers : /\ Inode(f) \in Addresses
                            /\ Inode(f) # Info /\ Inode(f) # FBmp /\ Inode(f) # CBmp
                            /\ \A g \in FileNumbers : Inode(f) = Inode(g) => f = g
                            /\ \A c \in ClusterNumbers : Inode(f) # Data(c)
  /\ \A c \in ClusterNumbers : /\ Data(c) \in Addresses
                               /\ Data(c) # Info /\ Data(c) # FBmp /\ Data(c) # CBmp
                               /\ \A b \in ClusterNumbers : Data(b) = Data(c) => b = c
  /\ \A a \in Addresses : \/ a = Info \/ a = FBmp \/ a = CBmp
                          \/ \E f \in FileNumbers : a = Inode(f)
                          \/ \E c \in ClusterNumbers : a = Data(c)
  BY DEF Addresses, Info, FBmp, CBmp, Inode, Data, FileNumbers, ClusterNumbers

(* Only the data sectors have a name that begins with "data".              *)
LEMMA DataNames ==
  /\ Info[1] # "data" /\ FBmp[1] # "data" /\ CBmp[1] # "data"
  /\ \A f \in FileNumbers : Inode(f)[1] # "data"
  /\ \A c \in ClusterNumbers : Data(c)[1] = "data" /\ Data(c)[2] = c
  BY DEF Info, FBmp, CBmp, Inode, Data

LEMMA WritesTypes ==
  ASSUME NEW r \in Writes
  PROVE  /\ r.at \in Addresses /\ r = [at |-> r.at, is |-> r.is]
         /\ r.at = Info => r.is \in Counts
         /\ r.at = FBmp => r.is \in SUBSET (0..BitOf(Files - 1))
         /\ r.at = CBmp => r.is \in SUBSET ClusterNumbers
         /\ \A f \in FileNumbers : r.at = Inode(f) => r.is \in Inodes
  <1> HIDE DEF Counts, Inodes, Parts
  <1>1. CASE r \in [at : {Info}, is : Counts]
    BY <1>1, AddressesApart
  <1>2. CASE r \in [at : {FBmp}, is : SUBSET (0..BitOf(Files - 1))]
    BY <1>2, AddressesApart
  <1>3. CASE r \in [at : {CBmp}, is : SUBSET ClusterNumbers]
    BY <1>3, AddressesApart
  <1>4. CASE r \in [at : {Inode(f) : f \in FileNumbers}, is : Inodes]
    BY <1>4, AddressesApart
  <1>5. CASE r \in [at : {Data(c) : c \in ClusterNumbers}, is : Parts]
    BY <1>5, AddressesApart
  <1>6. QED
    BY <1>1, <1>2, <1>3, <1>4, <1>5 DEF Writes

LEMMA VolumeTypes ==
  ASSUME NEW v, Volume(v)
  PROVE  /\ DOMAIN v = Addresses
         /\ v[Info] \in Counts
         /\ v[FBmp] \in SUBSET (0..BitOf(Files - 1))
         /\ v[CBmp] \in SUBSET ClusterNumbers
         /\ \A f \in FileNumbers : v[Inode(f)] \in Inodes
  <1>1. DOMAIN v = Addresses
    BY DEF Volume
  <1>2. \A a \in Addresses : [at |-> a, is |-> v[a]] \in Writes
    BY DEF Volume
  <1>3. ASSUME NEW a \in Addresses
        PROVE  /\ a = Info => v[a] \in Counts
               /\ a = FBmp => v[a] \in SUBSET (0..BitOf(Files - 1))
               /\ a = CBmp => v[a] \in SUBSET ClusterNumbers
               /\ \A f \in FileNumbers : a = Inode(f) => v[a] \in Inodes
    <2> DEFINE r == [at |-> a, is |-> v[a]]
    <2>1. r \in Writes /\ r.at = a /\ r.is = v[a]
      BY <1>2
    <2> HIDE DEF r
    <2>2. QED
      BY ONLY <2>1, WritesTypes
  <1>4. QED
    BY ONLY <1>1, <1>3, AddressesApart

LEMMA VolumeWritten ==
  ASSUME NEW v, Volume(v), NEW r \in Writes
  PROVE  /\ Volume([v EXCEPT ![r.at] = r.is])
         /\ \A a \in Addresses : [v EXCEPT ![r.at] = r.is][a] = IF a = r.at THEN r.is ELSE v[a]
  BY WritesTypes DEF Volume

-----------------------------------------------------------------------------
LEMMA LeadsNowhere == ASSUME NEW d PROVE Leads(d, <<>>, d)
  BY DEF Leads

LEMMA LeadsDone ==
  ASSUME NEW d, NEW v, Volume(d), Volume(v), Leads(d, <<>>, v)
  PROVE  v = d
  BY DEF Leads, Volume

LEMMA LeadsAppend ==
  ASSUME NEW d, NEW v, NEW log \in Seq(Writes), NEW r \in Writes,
         Volume(v), Leads(d, log, v)
  PROVE  Leads(d, Append(log, r), [v EXCEPT ![r.at] = r.is])
  <1> DEFINE l == Append(log, r)
             u == [v EXCEPT ![r.at] = r.is]
  <1>1. /\ Len(log) \in Nat /\ Len(l) = Len(log) + 1 /\ l[Len(l)] = r
        /\ \A i \in 1..Len(log) : l[i] = log[i]
    OBVIOUS
  <1>2. \A a \in Addresses : u[a] = IF a = r.at THEN r.is ELSE v[a]
    BY VolumeWritten
  <1> HIDE DEF l, u
  <1> SUFFICES ASSUME NEW a \in Addresses
               PROVE  \/ u[a] = d[a] /\ \A i \in 1..Len(l) : l[i].at # a
                      \/ \E i \in 1..Len(l) :
                             /\ l[i].at = a /\ l[i].is = u[a]
                             /\ \A j \in (i + 1)..Len(l) : l[j].at # a
    BY DEF Leads, l, u
  <1>3. CASE a = r.at
    BY <1>1, <1>2, <1>3
  <1>4. CASE a # r.at
    <2>1. CASE v[a] = d[a] /\ \A i \in 1..Len(log) : log[i].at # a
      BY <1>1, <1>2, <1>4, <2>1
    <2>2. ASSUME NEW i \in 1..Len(log), log[i].at = a, log[i].is = v[a],
                 \A j \in (i + 1)..Len(log) : log[j].at # a
          PROVE  /\ i \in 1..Len(l) /\ l[i].at = a /\ l[i].is = u[a]
                 /\ \A j \in (i + 1)..Len(l) : l[j].at # a
      <3>1. i \in 1..Len(l) /\ l[i] = log[i] /\ u[a] = v[a]
        BY <1>1, <1>2, <1>4
      <3>2. \A j \in (i + 1)..Len(l) : l[j].at # a
        BY <1>1, <1>4, <2>2
      <3>3. QED
        BY <2>2, <3>1, <3>2
    <2>3. QED
      BY <2>1, <2>2 DEF Leads
  <1>5. QED
    BY <1>3, <1>4

(* The next sector reaches the disk.                                       *)
LEMMA LeadsFlush ==
  ASSUME NEW d, NEW v, NEW log \in Seq(Writes), log # <<>>,
         Volume(d), Leads(d, log, v)
  PROVE  Leads([d EXCEPT ![Head(log).at] = Head(log).is], Tail(log), v)
  <1> DEFINE l == Tail(log)
             r == Head(log)
             u == [d EXCEPT ![r.at] = r.is]
  <1>1. /\ Len(log) \in Nat /\ Len(l) = Len(log) - 1 /\ Len(log) > 0 /\ r = log[1]
        /\ \A i \in 1..Len(l) : l[i] = log[i + 1]
        /\ r \in Writes
    OBVIOUS
  <1>2. \A a \in Addresses : u[a] = IF a = r.at THEN r.is ELSE d[a]
    BY <1>1, VolumeWritten
  <1> HIDE DEF l, u, r
  <1> SUFFICES ASSUME NEW a \in Addresses
               PROVE  \/ v[a] = u[a] /\ \A i \in 1..Len(l) : l[i].at # a
                      \/ \E i \in 1..Len(l) :
                             /\ l[i].at = a /\ l[i].is = v[a]
                             /\ \A j \in (i + 1)..Len(l) : l[j].at # a
    BY DEF Leads, l, u, r
  <1>3. CASE v[a] = d[a] /\ \A i \in 1..Len(log) : log[i].at # a
    BY <1>1, <1>2, <1>3
  <1>4. ASSUME NEW i \in 1..Len(log), log[i].at = a, log[i].is = v[a],
               \A j \in (i + 1)..Len(log) : log[j].at # a
        PROVE  \/ v[a] = u[a] /\ \A k \in 1..Len(l) : l[k].at # a
               \/ \E k \in 1..Len(l) :
                      /\ l[k].at = a /\ l[k].is = v[a]
                      /\ \A j \in (k + 1)..Len(l) : l[j].at # a
    <2>1. CASE i = 1
      <3>1. v[a] = u[a]
        BY <1>1, <1>2, <1>4, <2>1
      <3>2. \A k \in 1..Len(l) : l[k].at # a
        BY <1>1, <1>4, <2>1
      <3>3. QED
        BY <3>1, <3>2
    <2>2. CASE i # 1
      <3>1. i - 1 \in 1..Len(l) /\ l[i - 1] = log[i]
        BY <1>1, <2>2
      <3>2. \A j \in ((i - 1) + 1)..Len(l) : l[j].at # a
        BY <1>1, <1>4
      <3>3. QED
        BY <1>4, <3>1, <3>2
    <2>3. QED
      BY <2>1, <2>2
  <1>5. QED
    BY <1>3, <1>4 DEF Leads

-----------------------------------------------------------------------------
(* A state of the computation: what its log leads to is its disk.          *)
Safe(s) ==
    /\ s = [disk |-> s.disk, info |-> s.info, log |-> s.log]
    /\ Volume(s.disk) /\ s.info \in Counts /\ s.log \in Seq(Writes)
    /\ Leads(disk, s.log, s.disk)

(* The counters of atufsinfo are those of the information sector and of    *)
(* the bitmaps. The bit of the root is not counted.                        *)
Counted(v, i) ==
    /\ v[Info] = i
    /\ i.clusters = Cardinality(v[CBmp])
    /\ i.files + 1 = Cardinality(v[FBmp])
    /\ Root \in v[FBmp]

Sound(s) == Safe(s) /\ Counted(s.disk, s.info)

(* Neither an inode nor the bitmap of the files was written.               *)
SameFiles(s, t) ==
    /\ t.disk[FBmp] = s.disk[FBmp]
    /\ \A f \in FileNumbers : t.disk[Inode(f)] = s.disk[Inode(f)]

LEMMA WriteSafe ==
  ASSUME NEW s, NEW at, NEW is, Safe(s), [at |-> at, is |-> is] \in Writes
  PROVE  /\ Safe(Write(s, at, is))
         /\ Write(s, at, is).info = s.info
         /\ \A a \in Addresses :
                Write(s, at, is).disk[a] = IF a = at THEN is ELSE s.disk[a]
  <1> DEFINE r == [at |-> at, is |-> is]
             t == Write(s, at, is)
  <1>1. /\ t.disk = [s.disk EXCEPT ![at] = is] /\ t.info = s.info
        /\ t.log = Append(s.log, r) /\ t = [disk |-> t.disk, info |-> t.info, log |-> t.log]
    BY DEF Write
  <1>2. r \in Writes /\ r.at = at /\ r.is = is
    OBVIOUS
  <1> HIDE DEF t, r
  <1>3. t.log \in Seq(Writes) /\ Leads(disk, t.log, t.disk)
    <2>1. Leads(disk, Append(s.log, r), [s.disk EXCEPT ![r.at] = r.is])
      BY <1>2, LeadsAppend DEF Safe
    <2>2. QED
      BY <1>1, <1>2, <2>1 DEF Safe
  <1>4. /\ Volume(t.disk)
        /\ \A a \in Addresses : t.disk[a] = IF a = at THEN is ELSE s.disk[a]
    <2> DEFINE d == [s.disk EXCEPT ![r.at] = r.is]
    <2>1. Volume(d) /\ \A a \in Addresses : d[a] = IF a = r.at THEN r.is ELSE s.disk[a]
      BY <1>2, VolumeWritten DEF Safe
    <2>2. d = t.disk
      BY <1>1, <1>2
    <2> HIDE DEF d
    <2>3. QED
      BY <1>2, <2>1, <2>2
  <1>5. QED
    BY <1>1, <1>3, <1>4 DEF Safe, t

(* The bitmap of the files, then the information sector.                   *)
LEMMA SetFilesSound ==
  ASSUME NEW s, Sound(s), NEW n \in Nat, NEW bits \in SUBSET (0..BitOf(Files - 1)),
         n + 1 = Cardinality(bits), Root \in bits
  PROVE  /\ Sound(SetFiles(s, n, bits))
         /\ SetFiles(s, n, bits).disk[FBmp] = bits
         /\ SetFiles(s, n, bits).disk[CBmp] = s.disk[CBmp]
         /\ \A f \in FileNumbers : SetFiles(s, n, bits).disk[Inode(f)] = s.disk[Inode(f)]
  <1> DEFINE i == [s.info EXCEPT !.files = n]
             t == [s EXCEPT !.info.files = n]
             u == Write(t, FBmp, bits)
             v == Write(u, Info, u.info)
  <1>1. /\ t = [disk |-> s.disk, info |-> i, log |-> s.log]
        /\ i \in Counts /\ i.files = n /\ i.clusters = s.info.clusters
    BY DEF Sound, Safe, Counts
  <1>2. [at |-> Info, is |-> i] \in Writes /\ [at |-> FBmp, is |-> bits] \in Writes
    BY <1>1 DEF Writes
  <1> HIDE DEF i
  <1>3. Safe(t) /\ t.info = i /\ t.disk = s.disk
    BY <1>1 DEF Sound, Safe
  <1> HIDE DEF t
  <1>4. /\ Safe(u) /\ u.info = i
        /\ \A a \in Addresses : u.disk[a] = IF a = FBmp THEN bits ELSE s.disk[a]
    BY <1>2, <1>3, WriteSafe
  <1> HIDE DEF u
  <1>5. /\ Safe(v) /\ v.info = i
        /\ \A a \in Addresses : v.disk[a] = IF a = Info THEN i ELSE u.disk[a]
    BY <1>2, <1>4, WriteSafe
  <1> HIDE DEF v
  <1>6. /\ v.disk[Info] = i /\ v.disk[FBmp] = bits /\ v.disk[CBmp] = s.disk[CBmp]
        /\ \A f \in FileNumbers : v.disk[Inode(f)] = s.disk[Inode(f)]
    BY <1>4, <1>5, AddressesApart
  <1>7. Counted(v.disk, v.info)
    BY <1>1, <1>5, <1>6 DEF Sound, Counted
  <1>8. v = SetFiles(s, n, bits)
    BY DEF SetFiles, v, u, t
  <1>9. QED
    BY <1>5, <1>6, <1>7, <1>8 DEF Sound

-----------------------------------------------------------------------------
(* A set of naturals that is not empty has a least element, and a greatest *)
(* one when it is bounded.                                                 *)
LEMMA Smallest ==
  ASSUME NEW T \in SUBSET Nat, T # {}
  PROVE  Min(T) \in T /\ \A x \in T : Min(T) <= x
  <1> DEFINE R == OpToRel(<, Nat)
  <1>1. IsWellFoundedOn(R, Nat)
    BY NatLessThanWellFounded
  <1>2. \A x, y \in Nat : y < x => <<y, x>> \in R
    BY DEF OpToRel
  <1> HIDE DEF R
  <1>3. PICK x \in T : \A y \in T : ~(<<y, x>> \in R)
    BY <1>1, WFMin
  <1>4. \A y \in T : ~(y < x)
    BY <1>2, <1>3
  <1>5. \A y \in T : x <= y
    BY <1>4
  <1>6. QED
    BY <1>5 DEF Min

LEMMA Greatest ==
  ASSUME NEW n \in Nat, NEW T \in SUBSET (0..n), T # {}
  PROVE  Max(T) \in T /\ \A x \in T : x <= Max(T)
  <1> DEFINE U == {n - x : x \in T}
  <1>1. U \in SUBSET Nat /\ U # {}
    <2>1. \A x \in T : n - x \in Nat
      OBVIOUS
    <2>2. U \in SUBSET Nat
      BY <2>1
    <2>3. PICK x : x \in T
      OBVIOUS
    <2>4. n - x \in U
      BY <2>3
    <2>5. QED
      BY <2>2, <2>4
  <1>2. PICK u \in U : \A y \in U : u <= y
    BY <1>1, Smallest
  <1>3. PICK x \in T : u = n - x
    BY <1>2
  <1>4. ASSUME NEW y \in T PROVE x >= y
    <2>1. u <= n - y
      BY <1>2
    <2>2. QED
      BY <1>3, <2>1
  <1>5. QED
    BY <1>4 DEF Max

(* From a to b, one after the other.                                       *)
Climbs(T, a, b) == a \in T /\ \A i \in a..(b - 1) : i \in T => i + 1 \in T

LEMMA UpTo ==
  ASSUME NEW a \in Int, NEW b \in Int, NEW T, Climbs(T, a, b)
  PROVE  a..b \subseteq T
  <1> DEFINE U == {n \in Nat : a + n \in a..b /\ a + n \notin T}
  <1> SUFFICES ASSUME U # {} PROVE FALSE
    <2>1. ASSUME NEW i \in a..b, i \notin T PROVE i - a \in U
      BY <2>1
    <2>2. QED
      BY <2>1
  <1>1. PICK n \in U : \A m \in U : n <= m
    BY Smallest
  <1>2. n # 0
    BY <1>1 DEF Climbs
  <1>3. n - 1 \in Nat /\ n - 1 \notin U
    BY <1>1, <1>2
  <1>4. a + (n - 1) \in T /\ a + (n - 1) \in a..(b - 1)
    BY <1>1, <1>2, <1>3
  <1>5. (a + (n - 1)) + 1 = a + n
    BY <1>1
  <1>6. QED
    BY <1>1, <1>4, <1>5 DEF Climbs

-----------------------------------------------------------------------------
(* A later cluster is not in an earlier sector of the bitmap.              *)
LEMMA SectorNumbers ==
  ASSUME NEW a \in Nat, NEW b \in Nat, a <= b
  PROVE  SectorOf(a) \in Nat /\ SectorOf(b) \in Nat /\ SectorOf(a) <= SectorOf(b)
  <1> DEFINE c == SectorBits
             p == a \div c
             q == b \div c
  <1>1. c \in Nat /\ c > 0
    BY AtufsAssumption
  <1> HIDE DEF c
  <1>2. /\ p \in Nat /\ q \in Nat
        /\ c * p <= a /\ a < c * (p + 1) /\ c * q <= b /\ b < c * (q + 1)
    BY <1>1
  <1> HIDE DEF p, q
  <1>3. p <= q
    <2>1. SUFFICES ASSUME p >= q + 1 PROVE FALSE
      BY <1>2
    <2>2. c * p >= c * (q + 1)
      BY <1>1, <1>2, <2>1
    <2>3. c * p \in Nat /\ c * (q + 1) \in Nat
      BY <1>1, <1>2
    <2>4. QED
      BY <1>1, <1>2, <2>2, <2>3
  <1>4. QED
    BY <1>2, <1>3 DEF SectorOf, p, q, c

(* The loop over the sectors of the bitmap runs.                           *)
LEMMA MarkEarlyRuns ==
  ASSUME NEW s, NEW bits, NEW first \in Int, NEW last \in Int, first <= last
  PROVE  \E run : /\ run[first] = s
                  /\ \A k \in (first + 1)..last :
                        run[k] = Write(run[k - 1], CBmp, Through(s.disk[CBmp], bits, k))
                  /\ MarkEarly(s, bits, first, last) = run[last]
  <1> DEFINE step(w, k) == Write(w, CBmp, Through(s.disk[CBmp], bits, k))
             Runs(m, f) == f = [k \in first..m |-> IF k = first THEN s ELSE step(f[k - 1], k)]
             T == {m \in Int : \E f : Runs(m, f)}
  <1>1. first \in T
    <2>1. Runs(first, [k \in first..first |-> s])
      OBVIOUS
    <2> HIDE DEF Runs
    <2>2. QED
      BY <2>1
  <1>2. ASSUME NEW m \in first..(last - 1), m \in T PROVE m + 1 \in T
    <2>1. PICK f : Runs(m, f)
      BY <1>2
    <2> HIDE DEF step
    <2>2. /\ \A k \in first..m : f[k] = IF k = first THEN s ELSE step(f[k - 1], k)
          /\ m + 1 \in Int
      BY <2>1
    <2> HIDE DEF Runs
    <2> DEFINE g == [k \in first..(m + 1) |-> IF k <= m THEN f[k] ELSE step(f[m], k)]
    <2>3. \A k \in first..(m + 1) : g[k] = IF k = first THEN s ELSE step(g[k - 1], k)
      <3> SUFFICES ASSUME NEW k \in first..(m + 1)
                   PROVE  g[k] = IF k = first THEN s ELSE step(g[k - 1], k)
        OBVIOUS
      <3>1. CASE k = first
        BY <2>2, <3>1
      <3>2. CASE k # first /\ k <= m
        BY <2>2, <3>2
      <3>3. CASE k = m + 1
        <4>1. g[k - 1] = f[m] /\ k # first
          BY <3>3
        <4>2. QED
          BY <3>3, <4>1
      <3>4. QED
        BY <3>1, <3>2, <3>3
    <2>4. Runs(m + 1, g)
      BY <2>3 DEF Runs
    <2>5. QED
      BY <2>2, <2>4
  <1> HIDE DEF T
  <1>3. last \in T
    <2>1. Climbs(T, first, last)
      BY <1>1, <1>2 DEF Climbs
    <2>2. QED
      BY <2>1, UpTo
  <1>4. PICK some : Runs(last, some)
    BY <1>3 DEF T
  <1> DEFINE h == CHOOSE f : Runs(last, f)
  <1>5. Runs(last, h)
    BY <1>4
  <1>6. MarkEarly(s, bits, first, last) = h[last]
    BY DEF MarkEarly
  <1> HIDE DEF h
  <1>7. \A k \in first..last : h[k] = IF k = first THEN s ELSE step(h[k - 1], k)
    BY <1>5
  <1>8. h[first] = s /\ \A k \in (first + 1)..last : h[k] = step(h[k - 1], k)
    BY <1>7
  <1>9. QED
    BY <1>6, <1>8

(* From s to t the bitmap of the clusters was written, nothing else.       *)
Marks(s, t) ==
    /\ Safe(t) /\ t.info = s.info
    /\ \A a \in Addresses : a # CBmp => t.disk[a] = s.disk[a]

LEMMA MarkEarlySafe ==
  ASSUME NEW s, Safe(s), NEW bits \in SUBSET ClusterNumbers,
         NEW first \in Int, NEW last \in Int, first <= last
  PROVE  Marks(s, MarkEarly(s, bits, first, last))
  <1>1. PICK run : /\ run[first] = s
                   /\ \A k \in (first + 1)..last :
                         run[k] = Write(run[k - 1], CBmp, Through(s.disk[CBmp], bits, k))
                   /\ MarkEarly(s, bits, first, last) = run[last]
    BY MarkEarlyRuns
  <1> DEFINE T == {k \in first..last : Marks(s, run[k])}
  <1>2. first \in T
    BY <1>1 DEF Marks
  <1>3. ASSUME NEW k \in first..(last - 1), k \in T PROVE k + 1 \in T
    <2> DEFINE is == Through(s.disk[CBmp], bits, k + 1)
    <2>1. k + 1 \in (first + 1)..last /\ k + 1 \in first..last /\ (k + 1) - 1 = k
      OBVIOUS
    <2>2. run[k + 1] = Write(run[k], CBmp, is)
      BY <1>1, <2>1
    <2>3. is \in SUBSET ClusterNumbers
      BY VolumeTypes DEF Safe, Through
    <2>4. [at |-> CBmp, is |-> is] \in Writes
      BY <2>3 DEF Writes
    <2> HIDE DEF is
    <2>5. Marks(s, run[k])
      BY <1>3
    <2>6. Marks(s, run[k + 1])
      BY <2>2, <2>4, <2>5, WriteSafe DEF Marks
    <2>7. QED
      BY <2>1, <2>6
  <1> HIDE DEF T
  <1>4. last \in T
    <2>1. Climbs(T, first, last)
      BY <1>2, <1>3 DEF Climbs
    <2>2. QED
      BY <2>1, UpTo
  <1>5. QED
    BY <1>1, <1>4 DEF T

(* Sectors of the bitmap, the information sector, the rest of the bitmap.  *)
LEMMA SetClustersSound ==
  ASSUME NEW s, Sound(s), NEW n \in Nat, NEW bits \in SUBSET ClusterNumbers,
         n = Cardinality(bits), NEW first \in Int, NEW last \in Int, first <= last
  PROVE  LET v == SetClusters(s, n, bits, first, last)
         IN  Sound(v) /\ v.disk[CBmp] = bits /\ SameFiles(s, v)
  <1> DEFINE i == [s.info EXCEPT !.clusters = n]
             r == [s EXCEPT !.info.clusters = n]
             t == MarkEarly(r, bits, first, last)
             u == Write(t, Info, t.info)
             v == Write(u, CBmp, bits)
  <1>1. /\ r = [disk |-> s.disk, info |-> i, log |-> s.log]
        /\ i \in Counts /\ i.clusters = n /\ i.files = s.info.files
    BY DEF Sound, Safe, Counts
  <1>2. [at |-> Info, is |-> i] \in Writes /\ [at |-> CBmp, is |-> bits] \in Writes
    BY <1>1 DEF Writes
  <1> HIDE DEF i
  <1>3. Safe(r) /\ r.info = i /\ r.disk = s.disk
    BY <1>1 DEF Sound, Safe
  <1> HIDE DEF r
  <1>4. /\ Safe(t) /\ t.info = i
        /\ \A a \in Addresses : a # CBmp => t.disk[a] = s.disk[a]
    <2>1. Marks(r, t)
      BY <1>3, MarkEarlySafe
    <2> HIDE DEF t
    <2>2. QED
      BY <1>3, <2>1 DEF Marks
  <1> HIDE DEF t
  <1>5. /\ Safe(u) /\ u.info = i
        /\ \A a \in Addresses : u.disk[a] = IF a = Info THEN i ELSE t.disk[a]
    BY <1>2, <1>4, WriteSafe
  <1> HIDE DEF u
  <1>6. /\ Safe(v) /\ v.info = i
        /\ \A a \in Addresses : v.disk[a] = IF a = CBmp THEN bits ELSE u.disk[a]
    BY <1>2, <1>5, WriteSafe
  <1> HIDE DEF v
  <1>7. /\ v.disk[Info] = i /\ v.disk[CBmp] = bits /\ v.disk[FBmp] = s.disk[FBmp]
        /\ \A f \in FileNumbers : v.disk[Inode(f)] = s.disk[Inode(f)]
    BY <1>4, <1>5, <1>6, AddressesApart
  <1>8. Counted(v.disk, v.info)
    BY <1>1, <1>6, <1>7 DEF Sound, Counted
  <1>9. v = SetClusters(s, n, bits, first, last)
    BY DEF SetClusters, v, u, t, r
  <1>10. QED
    BY <1>6, <1>7, <1>8, <1>9 DEF Sound, SameFiles

-----------------------------------------------------------------------------
LEMMA CellsCounted ==
  ASSUME NEW e \in Extent
  PROVE  /\ Cells(e) = e.start..(e.start + e.many - 1)
         /\ IsFiniteSet(Cells(e)) /\ Cardinality(Cells(e)) = e.many
         /\ e.many = 0 => Cells(e) = {}
  <1>1. Cells(e) = e.start..(e.start + e.many - 1)
    BY DEF Cells, Run
  <1>2. e.start \in Int /\ e.start + e.many - 1 \in Int /\ e.many \in Nat
    BY DEF Extent
  <1>3. IsFiniteSet(Cells(e)) /\ Cardinality(Cells(e)) = e.many
    <2> DEFINE a == e.start
               b == e.start + e.many - 1
    <2>1. IsFiniteSet(a..b) /\ Cardinality(a..b) = IF a > b THEN 0 ELSE b - a + 1
      BY <1>2, FS_Interval
    <2>2. (IF a > b THEN 0 ELSE b - a + 1) = e.many
      BY <1>2
    <2>3. QED
      BY <1>1, <2>1, <2>2
  <1>4. QED
    BY <1>1, <1>2, <1>3

LEMMA BitsFinite ==
  ASSUME NEW s, Sound(s)
  PROVE  /\ s.disk[CBmp] \in SUBSET ClusterNumbers /\ IsFiniteSet(s.disk[CBmp])
         /\ s.disk[FBmp] \in SUBSET (0..BitOf(Files - 1))
         /\ Cardinality(s.disk[CBmp]) \in Nat /\ s.info \in Counts
         /\ s.info.clusters = Cardinality(s.disk[CBmp])
  <1>1. s.disk[CBmp] \in SUBSET ClusterNumbers /\ s.disk[FBmp] \in SUBSET (0..BitOf(Files - 1))
    BY VolumeTypes DEF Sound, Safe
  <1>2. IsFiniteSet(ClusterNumbers)
    BY AtufsAssumption, FS_Interval DEF ClusterNumbers
  <1>3. IsFiniteSet(s.disk[CBmp])
    BY <1>1, <1>2, FS_Subset
  <1>4. QED
    BY <1>1, <1>3, FS_CardinalityType DEF Sound, Safe, Counted

(* The sectors of the bitmap that an extent lies in.                       *)
LEMMA ClearedSectors ==
  ASSUME NEW e \in Extent, e.many # 0
  PROVE  /\ SectorOf(e.start) \in Int /\ SectorOf(e.start + e.many - 1) \in Int
         /\ SectorOf(e.start) <= SectorOf(e.start + e.many - 1)
  <1>1. e.start \in Nat /\ e.start + e.many - 1 \in Nat /\ e.start <= e.start + e.many - 1
    BY DEF Extent
  <1>2. QED
    BY <1>1, SectorNumbers

(* The sectors that alocate_clusters looks at.                             *)
LEMMA LookedSectors ==
  ASSUME NEW e \in Extent, NEW n
  PROVE  LastLooked(e, n) \in Int /\ 0 <= LastLooked(e, n)
  <1>1. Clusters - 1 \in Nat /\ e.start + e.many \in Nat
        /\ (e.many # 0 => e.start + e.many - 1 \in Nat)
    BY AtufsAssumption DEF Extent
  <1>2. QED
    BY <1>1, SectorNumbers DEF LastLooked

(* clear_clusters frees the clusters of a marked extent and counts them.   *)
LEMMA ClearSound ==
  ASSUME NEW s, Sound(s), NEW e \in Extent, Cells(e) \subseteq s.disk[CBmp]
  PROVE  /\ Sound(clear_clusters(s, e))
         /\ clear_clusters(s, e).disk[CBmp] = s.disk[CBmp] \ Cells(e)
         /\ SameFiles(s, clear_clusters(s, e))
  <1> DEFINE bits == s.disk[CBmp]
  <1>1. /\ bits \in SUBSET ClusterNumbers /\ IsFiniteSet(bits) /\ Cardinality(bits) \in Nat
        /\ s.info.clusters = Cardinality(bits)
    BY BitsFinite
  <1>2. e.many \in Nat /\ Cardinality(Cells(e)) = e.many /\ Cells(e) = Run(e.start, e.many)
    BY CellsCounted DEF Extent, Cells
  <1>3. CASE e.many = 0
    BY <1>3, CellsCounted DEF clear_clusters, SameFiles
  <1>4. CASE e.many # 0
    <2>1. bits \cap Cells(e) = Cells(e)
      OBVIOUS
    <2>2. Cardinality(bits \ Cells(e)) = Cardinality(bits) - e.many /\ e.many <= Cardinality(bits)
      <3>1. Cardinality(bits \ Cells(e)) = Cardinality(bits) - Cardinality(bits \cap Cells(e))
        BY <1>1, FS_Difference
      <3>2. Cardinality(Cells(e)) <= Cardinality(bits)
        BY <1>1, FS_Subset
      <3>3. QED
        BY <1>2, <2>1, <3>1, <3>2
    <2> DEFINE first == SectorOf(e.start)
               last == SectorOf(e.start + e.many - 1)
    <2>3. clear_clusters(s, e)
             = SetClusters(s, Cardinality(bits) - e.many, bits \ Cells(e), first, last)
      BY <1>1, <1>2, <1>4, <2>2 DEF clear_clusters, mark_false
    <2>4. Cardinality(bits) - e.many \in Nat /\ bits \ Cells(e) \in SUBSET ClusterNumbers
      BY <1>1, <1>2, <2>2
    <2> DEFINE n == Cardinality(bits) - e.many
               rest == bits \ Cells(e)
    <2>5. n \in Nat /\ rest \in SUBSET ClusterNumbers /\ n = Cardinality(rest)
      BY <2>2, <2>4
    <2>6. clear_clusters(s, e) = SetClusters(s, n, rest, first, last)
      BY <2>3
    <2>7. first \in Int /\ last \in Int /\ first <= last
      BY <1>4, ClearedSectors
    <2> HIDE DEF n, rest, first, last
    <2>8. /\ Sound(SetClusters(s, n, rest, first, last))
          /\ SetClusters(s, n, rest, first, last).disk[CBmp] = rest
          /\ SameFiles(s, SetClusters(s, n, rest, first, last))
      BY <2>5, <2>7, SetClustersSound
    <2>9. QED
      BY <2>6, <2>8 DEF rest
  <1>5. QED
    BY <1>3, <1>4

(* alocate_clusters takes free clusters only, no more than was asked, and  *)
(* counts and marks what it takes.                                         *)
LEMMA FreeRunFree ==
  ASSUME NEW s, NEW n \in Nat
  PROVE  LET e == FreeRun(s, n)
         IN  /\ e \in Extent /\ e.many <= n
             /\ Cells(e) \subseteq ClusterNumbers \ s.disk[CBmp]
  <1> DEFINE free == (0..(Clusters - 1)) \ s.disk[CBmp]
             first == IF free = {} THEN 0 ELSE Min(free)
             T == {m \in 0..n : Run(first, m) \subseteq free}
             e == FreeRun(s, n)
  <1>1. first \in Nat
    <2>1. free \in SUBSET Nat
      BY AtufsAssumption
    <2>2. QED
      BY <2>1, Smallest
  <1>2. 0 \in T
    BY <1>1 DEF Run
  <1>3. Max(T) \in T
    BY <1>2, Greatest
  <1>4. Max(T) \in 0..n /\ Run(first, Max(T)) \subseteq free
    BY <1>3
  <1>5. e = [start |-> first, many |-> Max(T)]
    BY DEF FreeRun
  <1> HIDE DEF first, T
  <1>6. e.start = first /\ e.many = Max(T) /\ e \in Extent
    BY <1>1, <1>4, <1>5 DEF Extent
  <1>7. Cells(e) \subseteq free
    BY <1>4, <1>6 DEF Cells
  <1> HIDE DEF e
  <1>8. QED
    BY <1>4, <1>6, <1>7 DEF ClusterNumbers, e

LEMMA AlocateSound ==
  ASSUME NEW s, Sound(s), NEW n \in Nat
  PROVE  LET a == alocate_clusters(s, n)
         IN  /\ a.e \in Extent /\ a.e.many <= n
             /\ Cells(a.e) \subseteq ClusterNumbers \ s.disk[CBmp]
             /\ Sound(a.s) /\ SameFiles(s, a.s)
             /\ a.s.disk[CBmp] = s.disk[CBmp] \cup Cells(a.e)
  <1> DEFINE bits == s.disk[CBmp]
             e == FreeRun(s, n)
             last == LastLooked(e, n)
             t == SetClusters(s, Cardinality(bits) + e.many, bits \cup Cells(e), 0, last)
  <1>1. /\ bits \in SUBSET ClusterNumbers /\ IsFiniteSet(bits) /\ Cardinality(bits) \in Nat
        /\ s.info.clusters = Cardinality(bits)
    BY BitsFinite
  <1>2. e \in Extent /\ e.many <= n /\ Cells(e) \subseteq ClusterNumbers \ bits
    BY FreeRunFree
  <1> HIDE DEF bits, e
  <1>3. IsFiniteSet(Cells(e)) /\ Cardinality(Cells(e)) = e.many /\ e.many \in Nat
    BY <1>2, CellsCounted DEF Extent
  <1>4. Cardinality(bits \cap Cells(e)) = 0
    <2>1. bits \cap Cells(e) = {}
      BY <1>2
    <2>2. QED
      BY <2>1, FS_EmptySet, Zenon
  <1>5. Cardinality(bits \cup Cells(e)) = Cardinality(bits) + e.many
    <2>1. Cardinality(bits \cup Cells(e))
            = Cardinality(bits) + Cardinality(Cells(e)) - Cardinality(bits \cap Cells(e))
      BY <1>1, <1>3, FS_Union
    <2>2. QED
      BY <1>1, <1>3, <1>4, <2>1
  <1>6. Sound(t) /\ t.disk[CBmp] = bits \cup Cells(e) /\ SameFiles(s, t)
    <2>1. Cardinality(bits) + e.many \in Nat /\ bits \cup Cells(e) \in SUBSET ClusterNumbers
      BY <1>1, <1>2, <1>3
    <2> DEFINE count == Cardinality(bits) + e.many
               more == bits \cup Cells(e)
               from == 0
    <2>2. from \in Int /\ last \in Int /\ from <= last
      BY <1>2, LookedSectors
    <2>3. count \in Nat /\ more \in SUBSET ClusterNumbers /\ count = Cardinality(more)
      BY <1>5, <2>1
    <2> HIDE DEF last, from, count, more
    <2>4. /\ Sound(SetClusters(s, count, more, from, last))
          /\ SetClusters(s, count, more, from, last).disk[CBmp] = more
          /\ SameFiles(s, SetClusters(s, count, more, from, last))
      BY <2>2, <2>3, SetClustersSound
    <2>5. QED
      BY <2>4 DEF count, more, from
  <1>7. alocate_clusters(s, n) = [s |-> t, e |-> e]
    BY <1>1 DEF alocate_clusters, mark_true, Cells, bits, e
  <1> HIDE DEF t
  <1>8. QED
    BY <1>2, <1>6, <1>7 DEF bits

-----------------------------------------------------------------------------
(* Several sectors with addresses of their own are written to v.           *)
Adds(v, more, u) ==
    /\ \A i, j \in 1..Len(more) : more[i].at = more[j].at => i = j
    /\ \A a \in Addresses :
          \/ u[a] = v[a] /\ \A k \in 1..Len(more) : more[k].at # a
          \/ \E k \in 1..Len(more) : more[k].at = a /\ more[k].is = u[a]

LEMMA LeadsMany ==
  ASSUME NEW d, NEW v, NEW u, NEW log \in Seq(Writes), NEW more \in Seq(Writes),
         Leads(d, log, v), Adds(v, more, u)
  PROVE  Leads(d, log \o more, u)
  <1> DEFINE l == log \o more
  <1>1. /\ Len(log) \in Nat /\ Len(more) \in Nat /\ Len(l) = Len(log) + Len(more)
        /\ \A i \in 1..Len(log) : l[i] = log[i]
        /\ \A i \in 1..Len(more) : l[Len(log) + i] = more[i]
    OBVIOUS
  <1>2. \A i \in (Len(log) + 1)..Len(l) : /\ i - Len(log) \in 1..Len(more)
                                          /\ l[i] = more[i - Len(log)]
    <2> SUFFICES ASSUME NEW i \in (Len(log) + 1)..Len(l)
                 PROVE  i - Len(log) \in 1..Len(more) /\ l[i] = more[i - Len(log)]
      OBVIOUS
    <2>1. i - Len(log) \in 1..Len(more) /\ i = Len(log) + (i - Len(log))
      BY <1>1
    <2>2. QED
      BY <1>1, <2>1
  <1> HIDE DEF l
  <1> SUFFICES ASSUME NEW a \in Addresses
               PROVE  \/ u[a] = d[a] /\ \A i \in 1..Len(l) : l[i].at # a
                      \/ \E i \in 1..Len(l) :
                             /\ l[i].at = a /\ l[i].is = u[a]
                             /\ \A j \in (i + 1)..Len(l) : l[j].at # a
    BY DEF Leads, l
  <1>3. ASSUME NEW k \in 1..Len(more), more[k].at = a, more[k].is = u[a]
        PROVE  /\ Len(log) + k \in 1..Len(l)
               /\ l[Len(log) + k].at = a /\ l[Len(log) + k].is = u[a]
               /\ \A j \in (Len(log) + k + 1)..Len(l) : l[j].at # a
    <2>1. Len(log) + k \in 1..Len(l) /\ l[Len(log) + k] = more[k]
      BY <1>1
    <2>2. ASSUME NEW j \in (Len(log) + k + 1)..Len(l) PROVE l[j].at # a
      <3>1. j - Len(log) \in 1..Len(more) /\ l[j] = more[j - Len(log)] /\ j - Len(log) # k
        BY <1>1, <1>2
      <3>2. QED
        BY <1>3, <3>1 DEF Adds
    <2>3. QED
      BY <1>3, <2>1, <2>2
  <1>4. CASE \E k \in 1..Len(more) : more[k].at = a /\ more[k].is = u[a]
    BY <1>3, <1>4
  <1>5. CASE u[a] = v[a] /\ \A k \in 1..Len(more) : more[k].at # a
    <2>1. \A j \in (Len(log) + 1)..Len(l) : l[j].at # a
      BY <1>2, <1>5
    <2>2. CASE v[a] = d[a] /\ \A i \in 1..Len(log) : log[i].at # a
      <3>1. ASSUME NEW i \in 1..Len(l) PROVE l[i].at # a
        <4>1. i \in 1..Len(log) \/ i \in (Len(log) + 1)..Len(l)
          BY <1>1
        <4>2. QED
          BY <1>1, <2>1, <2>2, <4>1
      <3>2. QED
        BY <1>5, <2>2, <3>1
    <2>3. ASSUME NEW i \in 1..Len(log), log[i].at = a, log[i].is = v[a],
                 \A j \in (i + 1)..Len(log) : log[j].at # a
          PROVE  /\ i \in 1..Len(l) /\ l[i].at = a /\ l[i].is = u[a]
                 /\ \A j \in (i + 1)..Len(l) : l[j].at # a
      <3>1. i \in 1..Len(l) /\ l[i] = log[i]
        BY <1>1
      <3>2. ASSUME NEW j \in (i + 1)..Len(l) PROVE l[j].at # a
        <4>1. j \in (i + 1)..Len(log) \/ j \in (Len(log) + 1)..Len(l)
          BY <1>1
        <4>2. j \in (i + 1)..Len(log) => l[j] = log[j]
          BY <1>1
        <4>3. QED
          BY <2>1, <2>3, <4>1, <4>2
      <3>3. QED
        BY <1>5, <2>3, <3>1, <3>2
    <2>4. QED
      BY <2>2, <2>3 DEF Leads
  <1>6. QED
    BY <1>4, <1>5 DEF Adds

LEMMA ListsAreSequences ==
  ASSUME NEW S, NEW n \in Nat, NEW list \in [1..n -> S]
  PROVE  list \in Seq(S) /\ Len(list) = n
  OBVIOUS

(* A run of clusters is written: nothing else changes.                     *)
LEMMA DataSound ==
  ASSUME NEW s, Sound(s), NEW first \in Nat, NEW n \in Nat,
         Run(first, n) \subseteq ClusterNumbers,
         NEW stamp \in Stamps \cup {<<>>}, NEW parts \in Int
  PROVE  LET t == WriteData(s, first, n, stamp, parts)
         IN  Sound(t) /\ SameFiles(s, t) /\ t.disk[CBmp] = s.disk[CBmp]
  <1> DEFINE part(c) == <<stamp, parts + c - first + 1>>
             r(c) == [at |-> Data(c), is |-> part(c)]
             more == [k \in 1..n |-> r(first + k - 1)]
             u == [a \in Addresses |->
                      IF a[1] = "data" /\ a[2] \in Run(first, n) THEN part(a[2]) ELSE s.disk[a]]
             t == WriteData(s, first, n, stamp, parts)
  <1>1. \A c \in Run(first, n) : r(c) \in Writes /\ c \in ClusterNumbers
    <2>1. ASSUME NEW c \in Run(first, n) PROVE part(c) \in Parts /\ c \in ClusterNumbers
      <3>1. c \in ClusterNumbers /\ c \in Int
        BY DEF ClusterNumbers
      <3>2. parts + c - first + 1 \in Int
        BY <3>1
      <3>3. QED
        BY <3>1, <3>2 DEF Parts
    <2>2. QED
      BY <2>1 DEF Writes
  <1>2. \A k \in 1..n : first + k - 1 \in Run(first, n)
    BY DEF Run
  <1>3. \A c \in Run(first, n) : c - first + 1 \in 1..n /\ first + (c - first + 1) - 1 = c
    BY DEF Run
  <1>4. DOMAIN s.disk = Addresses
    BY VolumeTypes DEF Sound, Safe
  <1>5. t = [disk |-> u, info |-> s.info, log |-> s.log \o more]
    BY <1>4 DEF WriteData
  <1>6. \A a \in Addresses :
            \/ \E c \in Run(first, n) : a = Data(c) /\ u[a] = part(c)
            \/ u[a] = s.disk[a] /\ \A c \in Run(first, n) : a # Data(c)
    <2> SUFFICES ASSUME NEW a \in Addresses
                 PROVE  \/ \E c \in Run(first, n) : a = Data(c) /\ u[a] = part(c)
                        \/ u[a] = s.disk[a] /\ \A c \in Run(first, n) : a # Data(c)
      OBVIOUS
    <2> HIDE DEF part
    <2>1. CASE \E b \in ClusterNumbers : a = Data(b)
      BY <1>1, <2>1, DataNames
    <2>2. CASE a[1] # "data"
      BY <1>1, <2>2, DataNames
    <2>3. QED
      BY <2>1, <2>2, AddressesApart, DataNames
  <1>7. more \in Seq(Writes) /\ Len(more) = n
    <2>1. more \in [1..n -> Writes]
      BY <1>1, <1>2
    <2> HIDE DEF more
    <2>2. QED
      BY <2>1, ListsAreSequences
  <1>8. \A k \in 1..n : more[k].at = Data(first + k - 1) /\ more[k].is = part(first + k - 1)
    OBVIOUS
  <1> HIDE DEF more, u, t, r, part
  <1>9. Volume(u)
    <2>1. \A a \in Addresses : [at |-> a, is |-> u[a]] \in Writes
      <3> SUFFICES ASSUME NEW a \in Addresses PROVE [at |-> a, is |-> u[a]] \in Writes
        OBVIOUS
      <3>1. CASE u[a] = s.disk[a]
        BY <3>1 DEF Sound, Safe, Volume
      <3>2. ASSUME NEW c \in Run(first, n), a = Data(c), u[a] = part(c)
            PROVE  [at |-> a, is |-> u[a]] \in Writes
        BY <1>1, <3>2 DEF r
      <3>3. QED
        BY <1>6, <3>1, <3>2
    <2>2. u = [a \in Addresses |-> u[a]]
      BY DEF u
    <2>3. QED
      BY <2>1, <2>2 DEF Volume
  <1>10. Leads(disk, s.log \o more, u)
    <2>1. \A i, j \in 1..Len(more) : more[i].at = more[j].at => i = j
      <3> SUFFICES ASSUME NEW i \in 1..n, NEW j \in 1..n, more[i].at = more[j].at PROVE i = j
        BY <1>7
      <3>1. Data(first + i - 1) = Data(first + j - 1)
        BY <1>8
      <3>2. first + i - 1 = first + j - 1
        BY <1>1, <1>2, <3>1, AddressesApart
      <3>3. QED
        BY <3>2
    <2>2. ASSUME NEW a \in Addresses
          PROVE  \/ u[a] = s.disk[a] /\ \A k \in 1..Len(more) : more[k].at # a
                 \/ \E k \in 1..Len(more) : more[k].at = a /\ more[k].is = u[a]
      <3>1. CASE u[a] = s.disk[a] /\ \A c \in Run(first, n) : a # Data(c)
        BY <1>2, <1>7, <1>8, <3>1
      <3>2. ASSUME NEW c \in Run(first, n), a = Data(c), u[a] = part(c)
            PROVE  \E k \in 1..Len(more) : more[k].at = a /\ more[k].is = u[a]
        BY <1>3, <1>7, <1>8, <3>2
      <3>3. QED
        BY <1>6, <3>1, <3>2
    <2>3. Adds(s.disk, more, u)
      BY <2>1, <2>2 DEF Adds
    <2>4. QED
      <3>1. s.log \in Seq(Writes) /\ Leads(disk, s.log, s.disk)
        BY DEF Sound, Safe
      <3>2. QED
        BY <1>7, <2>3, <3>1, LeadsMany
  <1>11. /\ u[Info] = s.disk[Info] /\ u[CBmp] = s.disk[CBmp] /\ u[FBmp] = s.disk[FBmp]
         /\ \A f \in FileNumbers : u[Inode(f)] = s.disk[Inode(f)]
    BY <1>1, <1>6, AddressesApart
  <1>12. t.disk = u /\ t.info = s.info /\ t.log = s.log \o more
    BY <1>5
  <1>13. Safe(t)
    <2>1. t = [disk |-> t.disk, info |-> t.info, log |-> t.log]
      BY <1>5, <1>12
    <2>2. s.log \o more \in Seq(Writes)
      BY <1>7 DEF Sound, Safe
    <2>3. QED
      BY <1>9, <1>10, <1>12, <2>1, <2>2 DEF Sound, Safe
  <1>14. Counted(t.disk, t.info)
    BY <1>11, <1>12 DEF Sound, Counted
  <1>15. QED
    BY <1>11, <1>12, <1>13, <1>14 DEF Sound, SameFiles, t

-----------------------------------------------------------------------------
(* The loops over the slots of an extent list run: each is a function on   *)
(* the slots that gives the state after each.                              *)
LEMMA ClearSlotsRuns ==
  ASSUME NEW s, NEW ext, NEW from \in Int, NEW to \in Int, from - 1 <= to
  PROVE  \E run : /\ run[from - 1] = s
                  /\ \A i \in from..to : run[i] = clear_clusters(run[i - 1], ext[i])
                  /\ ClearSlots(s, ext, from, to) = run[to]
  <1> DEFINE Runs(m, f) == f = [i \in (from - 1)..m |->
                 IF i < from THEN s ELSE clear_clusters(f[i - 1], ext[i])]
             T == {m \in Int : \E f : Runs(m, f)}
  <1>1. from - 1 \in T
    <2>1. Runs(from - 1, [i \in (from - 1)..(from - 1) |-> s])
      OBVIOUS
    <2> HIDE DEF Runs
    <2>2. QED
      BY <2>1
  <1>2. ASSUME NEW m \in (from - 1)..(to - 1), m \in T PROVE m + 1 \in T
    <2>1. PICK f : Runs(m, f)
      BY <1>2
    <2>2. /\ \A i \in (from - 1)..m : f[i] = IF i < from THEN s ELSE clear_clusters(f[i - 1], ext[i])
          /\ m + 1 \in Int
      BY <2>1
    <2> HIDE DEF Runs
    <2> DEFINE g == [i \in (from - 1)..(m + 1) |->
                        IF i <= m THEN f[i] ELSE clear_clusters(f[m], ext[i])]
    <2>3. \A i \in (from - 1)..(m + 1) :
              g[i] = IF i < from THEN s ELSE clear_clusters(g[i - 1], ext[i])
      <3> SUFFICES ASSUME NEW i \in (from - 1)..(m + 1)
                   PROVE  g[i] = IF i < from THEN s ELSE clear_clusters(g[i - 1], ext[i])
        OBVIOUS
      <3>1. CASE i < from
        BY <2>2, <3>1
      <3>2. CASE from <= i /\ i <= m
        BY <2>2, <3>2
      <3>3. CASE i = m + 1
        <4>1. g[i - 1] = f[m] /\ ~(i < from)
          BY <3>3
        <4>2. QED
          BY <3>3, <4>1
      <3>4. QED
        BY <3>1, <3>2, <3>3
    <2>4. Runs(m + 1, g)
      BY <2>3 DEF Runs
    <2>5. QED
      BY <2>2, <2>4
  <1> HIDE DEF T
  <1>3. to \in T
    <2>1. Climbs(T, from - 1, to)
      BY <1>1, <1>2 DEF Climbs
    <2>2. QED
      BY <2>1, UpTo
  <1>4. PICK some : Runs(to, some)
    BY <1>3 DEF T
  <1> DEFINE h == CHOOSE f : Runs(to, f)
  <1>5. Runs(to, h)
    BY <1>4
  <1>6. ClearSlots(s, ext, from, to) = h[to]
    BY DEF ClearSlots
  <1> HIDE DEF h
  <1>7. \A i \in (from - 1)..to : h[i] = IF i < from THEN s ELSE clear_clusters(h[i - 1], ext[i])
    BY <1>5
  <1>8. h[from - 1] = s /\ \A i \in from..to : h[i] = clear_clusters(h[i - 1], ext[i])
    BY <1>7
  <1>9. QED
    BY <1>6, <1>8

LEMMA RewriteRuns ==
  ASSUME NEW s, NEW ext, NEW stamp, Leading(ext) \in Nat
  PROVE  \E run : /\ run[0] = s
                  /\ \A i \in 1..Leading(ext) :
                        run[i] = WriteData(run[i - 1], ext[i].start, ext[i].many, stamp, 0)
                  /\ Rewrite(s, ext, stamp) = run[Leading(ext)]
  <1> DEFINE Data1(t, i) == WriteData(t, ext[i].start, ext[i].many, stamp, 0)
             Runs(m, f) == f = [i \in 0..m |-> IF i = 0 THEN s ELSE Data1(f[i - 1], i)]
             T == {m \in Int : \E f : Runs(m, f)}
             last == Leading(ext)
  <1>1. 0 \in T
    <2>1. Runs(0, [i \in 0..0 |-> s])
      OBVIOUS
    <2> HIDE DEF Runs
    <2>2. QED
      BY <2>1
  <1>2. ASSUME NEW m \in 0..(last - 1), m \in T PROVE m + 1 \in T
    <2>1. PICK f : Runs(m, f)
      BY <1>2
    <2> HIDE DEF Data1
    <2>2. /\ \A i \in 0..m : f[i] = IF i = 0 THEN s ELSE Data1(f[i - 1], i)
          /\ m + 1 \in Int
      BY <2>1
    <2> HIDE DEF Runs
    <2> DEFINE g == [i \in 0..(m + 1) |-> IF i <= m THEN f[i] ELSE Data1(f[m], i)]
    <2>3. \A i \in 0..(m + 1) : g[i] = IF i = 0 THEN s ELSE Data1(g[i - 1], i)
      <3> SUFFICES ASSUME NEW i \in 0..(m + 1)
                   PROVE  g[i] = IF i = 0 THEN s ELSE Data1(g[i - 1], i)
        OBVIOUS
      <3>1. CASE i = 0
        BY <2>2, <3>1
      <3>2. CASE i # 0 /\ i <= m
        BY <2>2, <3>2
      <3>3. CASE i = m + 1
        <4>1. g[i - 1] = f[m] /\ i # 0
          BY <3>3
        <4>2. QED
          BY <3>3, <4>1
      <3>4. QED
        BY <3>1, <3>2, <3>3
    <2>4. Runs(m + 1, g)
      BY <2>3 DEF Runs
    <2>5. QED
      BY <2>2, <2>4
  <1> HIDE DEF T
  <1>3. last \in T
    <2>1. Climbs(T, 0, last)
      BY <1>1, <1>2 DEF Climbs
    <2>2. QED
      BY <2>1, UpTo
  <1>4. PICK some : Runs(last, some)
    BY <1>3 DEF T
  <1> DEFINE h == CHOOSE f : Runs(last, f)
  <1>5. Runs(last, h)
    BY <1>4
  <1>6. Rewrite(s, ext, stamp) = h[last]
    BY DEF Rewrite
  <1> HIDE DEF h, Data1
  <1>7. \A i \in 0..last : h[i] = IF i = 0 THEN s ELSE Data1(h[i - 1], i)
    BY <1>5
  <1>8. h[0] = s /\ \A i \in 1..last : h[i] = Data1(h[i - 1], i)
    BY <1>7
  <1>9. QED
    BY <1>6, <1>8 DEF Data1

LEMMA ResizeRuns ==
  ASSUME NEW s, NEW ext, NEW clusters, NEW stamp
  PROVE  \E run : /\ run[0] = [s |-> s, ext |-> ext, left |-> clusters, parts |-> 0, loop |-> "on"]
                  /\ \A i \in 1..Extents : run[i] = Slot(run[i - 1], i, stamp)
                  /\ Resize(s, ext, clusters, stamp) = run[Extents]
  <1> DEFINE start == [s |-> s, ext |-> ext, left |-> clusters, parts |-> 0, loop |-> "on"]
             Runs(m, f) == f = [i \in 0..m |-> IF i = 0 THEN start ELSE Slot(f[i - 1], i, stamp)]
             T == {m \in Int : \E f : Runs(m, f)}
  <1>1. 0 \in T
    <2>1. Runs(0, [i \in 0..0 |-> start])
      OBVIOUS
    <2> HIDE DEF Runs
    <2>2. QED
      BY <2>1
  <1>2. ASSUME NEW m \in 0..(Extents - 1), m \in T PROVE m + 1 \in T
    <2>1. PICK f : Runs(m, f)
      BY <1>2
    <2> HIDE DEF start
    <2>2. /\ \A i \in 0..m : f[i] = IF i = 0 THEN start ELSE Slot(f[i - 1], i, stamp)
          /\ m + 1 \in Int
      BY <2>1
    <2> HIDE DEF Runs
    <2> DEFINE g == [i \in 0..(m + 1) |-> IF i <= m THEN f[i] ELSE Slot(f[m], i, stamp)]
    <2>3. \A i \in 0..(m + 1) : g[i] = IF i = 0 THEN start ELSE Slot(g[i - 1], i, stamp)
      <3> SUFFICES ASSUME NEW i \in 0..(m + 1)
                   PROVE  g[i] = IF i = 0 THEN start ELSE Slot(g[i - 1], i, stamp)
        OBVIOUS
      <3>1. CASE i = 0
        BY <2>2, <3>1
      <3>2. CASE i # 0 /\ i <= m
        BY <2>2, <3>2
      <3>3. CASE i = m + 1
        <4>1. g[i - 1] = f[m] /\ i # 0
          BY <3>3
        <4>2. QED
          BY <3>3, <4>1
      <3>4. QED
        BY <3>1, <3>2, <3>3
    <2>4. Runs(m + 1, g)
      BY <2>3 DEF Runs
    <2>5. QED
      BY <2>2, <2>4
  <1> HIDE DEF T
  <1>3. Extents \in T
    <2>1. Climbs(T, 0, Extents)
      BY <1>1, <1>2 DEF Climbs
    <2>2. QED
      BY <2>1, UpTo, AtufsAssumption
  <1>4. PICK some : Runs(Extents, some)
    BY <1>3 DEF T
  <1> DEFINE h == CHOOSE f : Runs(Extents, f)
  <1>5. Runs(Extents, h)
    BY <1>4
  <1>6. Resize(s, ext, clusters, stamp) = h[Extents]
    BY DEF Resize
  <1> HIDE DEF h, start
  <1>7. \A i \in 0..Extents : h[i] = IF i = 0 THEN start ELSE Slot(h[i - 1], i, stamp)
    BY <1>5
  <1>8. h[0] = start /\ \A i \in 1..Extents : h[i] = Slot(h[i - 1], i, stamp)
    BY <1>7, AtufsAssumption
  <1>9. QED
    BY <1>6, <1>8 DEF start

-----------------------------------------------------------------------------
(* The clusters of the slots from one to another.                          *)
CellsFrom(ext, from, to) == UNION {Cells(ext[j]) : j \in from..to}

(* No cluster is in two slots of a list.                                   *)
SlotsApart(ext) == \A i, j \in 1..Extents : i # j => Cells(ext[i]) \cap Cells(ext[j]) = {}

(* From s to t some clusters are freed and nothing else happens.           *)
Freed(s, t, cells) ==
    Sound(t) /\ SameFiles(s, t) /\ t.disk[CBmp] = s.disk[CBmp] \ cells

(* Slots that are cleared one after the other are freed together.          *)
LEMMA ClearSlotsSound ==
  ASSUME NEW s, Sound(s), NEW ext \in ExtentLists, SlotsApart(ext),
         NEW from \in 1..(Extents + 1), NEW to \in 0..Extents, from - 1 <= to,
         \A j \in from..to : Cells(ext[j]) \subseteq s.disk[CBmp]
  PROVE  Freed(s, ClearSlots(s, ext, from, to), CellsFrom(ext, from, to))
  <1>1. Extents \in Nat /\ from \in Int /\ to \in Int
    BY AtufsAssumption
  <1>2. PICK run : /\ run[from - 1] = s
                   /\ \A i \in from..to : run[i] = clear_clusters(run[i - 1], ext[i])
                   /\ ClearSlots(s, ext, from, to) = run[to]
    BY <1>1, ClearSlotsRuns
  <1> DEFINE T == {i \in (from - 1)..to :
                      /\ Sound(run[i]) /\ SameFiles(s, run[i])
                      /\ run[i].disk[CBmp] = s.disk[CBmp] \ CellsFrom(ext, from, i)}
  <1>3. from - 1 \in T
    <2>1. CellsFrom(ext, from, from - 1) = {}
      BY <1>1 DEF CellsFrom
    <2>2. SameFiles(s, s)
      BY DEF SameFiles
    <2>3. QED
      BY <1>1, <1>2, <2>1, <2>2
  <1>4. ASSUME NEW i \in (from - 1)..(to - 1), i \in T PROVE i + 1 \in T
    <2> DEFINE e == ext[i + 1]
    <2>1. /\ i + 1 \in from..to /\ i + 1 \in 1..Extents
          /\ run[i + 1] = clear_clusters(run[i], e)
      <3>1. i + 1 \in from..to /\ i + 1 \in 1..Extents /\ (i + 1) - 1 = i
        BY <1>1
      <3>2. QED
        BY <1>2, <3>1
    <2>2. e \in Extent
      BY <2>1 DEF ExtentLists
    <2>3. Cells(e) \subseteq run[i].disk[CBmp]
      <3>1. Cells(e) \subseteq s.disk[CBmp]
        BY <2>1
      <3>2. Cells(e) \cap CellsFrom(ext, from, i) = {}
        <4>1. ASSUME NEW j \in from..i PROVE Cells(e) \cap Cells(ext[j]) = {}
          BY <1>1, <2>1 DEF SlotsApart
        <4>2. QED
          BY <4>1 DEF CellsFrom
      <3>3. QED
        BY <1>4, <3>1, <3>2
    <2> HIDE DEF e
    <2>4. /\ Sound(run[i + 1]) /\ SameFiles(run[i], run[i + 1])
          /\ run[i + 1].disk[CBmp] = run[i].disk[CBmp] \ Cells(e)
      BY <1>4, <2>1, <2>2, <2>3, ClearSound
    <2>5. CellsFrom(ext, from, i + 1) = CellsFrom(ext, from, i) \cup Cells(e)
      <3>1. from..(i + 1) = (from..i) \cup {i + 1}
        BY <1>1, <2>1
      <3>2. QED
        BY <3>1 DEF CellsFrom, e
    <2>6. QED
      BY <1>4, <2>1, <2>4, <2>5 DEF SameFiles
  <1>5. to \in T
    <2>1. Climbs(T, from - 1, to)
      BY <1>3, <1>4 DEF Climbs
    <2> HIDE DEF T
    <2>2. QED
      BY <1>1, <2>1, UpTo
  <1>6. QED
    BY <1>2, <1>5 DEF Freed

(* The number of extents before the first empty slot.                      *)
LEMMA LeadingSlots ==
  ASSUME NEW ext \in ExtentLists
  PROVE  /\ Leading(ext) \in 0..Extents
         /\ \A i \in 1..Leading(ext) : ext[i].many > 0
         /\ Compact(ext) => \A i \in (Leading(ext) + 1)..Extents : ext[i].many = 0
  <1> DEFINE T == {n \in 0..Extents : \A i \in 1..n : ext[i].many > 0}
  <1>1. Extents \in Nat
    BY AtufsAssumption
  <1>2. 0 \in T
    BY <1>1
  <1>3. Max(T) \in T /\ \A n \in T : n <= Max(T)
    BY <1>1, <1>2, Greatest
  <1>4. Leading(ext) = Max(T)
    BY DEF Leading
  <1> DEFINE m == Max(T)
  <1> HIDE DEF m
  <1>5. m \in 0..Extents /\ \A i \in 1..m : ext[i].many > 0
    BY <1>3 DEF m
  <1>6. m < Extents => ext[m + 1].many = 0
    <2> SUFFICES ASSUME m < Extents, ext[m + 1].many # 0 PROVE FALSE
      OBVIOUS
    <2>1. m + 1 \in 1..Extents
      BY <1>1, <1>5
    <2>2. ext[m + 1].many > 0
      BY <2>1 DEF ExtentLists, Extent
    <2>3. m + 1 \in T
      BY <1>1, <1>5, <2>1, <2>2
    <2>4. m + 1 <= m
      BY <1>3, <2>3 DEF m
    <2>5. QED
      BY <1>5, <2>4
  <1>7. ASSUME Compact(ext), NEW i \in (m + 1)..Extents PROVE ext[i].many = 0
    BY <1>1, <1>5, <1>6, <1>7 DEF Compact
  <1>8. QED
    BY <1>4, <1>5, <1>7 DEF m

(* Every extent is written, none changes hands.                            *)
LEMMA RewriteSound ==
  ASSUME NEW s, Sound(s), NEW ext \in ExtentLists, InVolume(ext),
         NEW stamp \in Stamps \cup {<<>>}
  PROVE  LET t == Rewrite(s, ext, stamp)
         IN  Sound(t) /\ SameFiles(s, t) /\ t.disk[CBmp] = s.disk[CBmp]
  <1>1. Leading(ext) \in 0..Extents /\ Extents \in Nat
    BY LeadingSlots, AtufsAssumption
  <1>a. Leading(ext) \in Nat
    BY <1>1
  <1>b. PICK run : /\ run[0] = s
                   /\ \A i \in 1..Leading(ext) :
                        run[i] = WriteData(run[i - 1], ext[i].start, ext[i].many, stamp, 0)
                   /\ Rewrite(s, ext, stamp) = run[Leading(ext)]
    BY ONLY <1>a, RewriteRuns
  <1> DEFINE last == Leading(ext)
  <1>2. /\ run[0] = s
        /\ \A i \in 1..last :
              run[i] = WriteData(run[i - 1], ext[i].start, ext[i].many, stamp, 0)
        /\ Rewrite(s, ext, stamp) = run[last]
    BY ONLY <1>b
  <1> HIDE DEF last
  <1> DEFINE T == {i \in 0..last : /\ Sound(run[i]) /\ SameFiles(s, run[i])
                                   /\ run[i].disk[CBmp] = s.disk[CBmp]}
  <1>3. 0 \in T
    BY <1>1, <1>2 DEF SameFiles, last
  <1>4. ASSUME NEW i \in 0..(last - 1), i \in T PROVE i + 1 \in T
    <2> DEFINE e == ext[i + 1]
    <2>1. /\ i + 1 \in 1..last /\ i + 1 \in 1..Extents
          /\ run[i + 1] = WriteData(run[i], e.start, e.many, stamp, 0)
      <3>1. i + 1 \in 1..last /\ i + 1 \in 1..Extents /\ (i + 1) - 1 = i
        BY <1>1 DEF last
      <3>2. QED
        BY <1>2, <3>1
    <2>2. e.start \in Nat /\ e.many \in Nat /\ Run(e.start, e.many) \subseteq ClusterNumbers
      BY <2>1 DEF ExtentLists, Extent, InVolume, Cells
    <2> HIDE DEF e
    <2>3. /\ Sound(run[i + 1]) /\ SameFiles(run[i], run[i + 1])
          /\ run[i + 1].disk[CBmp] = run[i].disk[CBmp]
      <3> DEFINE r == run[i]
                 t == WriteData(r, e.start, e.many, stamp, 0)
      <3>1. Sound(r)
        BY <1>4
      <3>2. run[i + 1] = t
        BY <2>1
      <3> HIDE DEF r, T
      <3>3. Sound(t) /\ SameFiles(r, t) /\ t.disk[CBmp] = r.disk[CBmp]
        <4>1. 0 \in Int
          OBVIOUS
        <4>2. QED
          BY <2>2, <3>1, <4>1, DataSound, Zenon
      <3>4. QED
        BY <3>2, <3>3 DEF r
    <2>4. QED
      BY <1>4, <2>1, <2>3 DEF SameFiles
  <1>5. last \in T
    <2>1. Climbs(T, 0, last)
      BY <1>3, <1>4 DEF Climbs
    <2>2. last \in Int /\ last \in 0..last
      BY <1>1 DEF last
    <2> HIDE DEF T
    <2>3. QED
      BY <2>1, <2>2, UpTo
  <1>6. QED
    BY <1>2, <1>5

-----------------------------------------------------------------------------
(* The extents of a file hold marked clusters, each once, and none that    *)
(* another file (one of the clusters O) has.                               *)
Held(bits, ext, O) ==
    /\ O \subseteq bits /\ SlotsApart(ext)
    /\ \A i \in 1..Extents : Cells(ext[i]) \subseteq bits /\ Cells(ext[i]) \cap O = {}

(* No other cluster is marked.                                             *)
Exact(bits, ext, O) == bits \subseteq O \cup CellsFrom(ext, 1, Extents)

(* One slot changes, by giving up clusters or by taking free ones.         *)
LEMMA HeldSlot ==
  ASSUME NEW ext \in ExtentLists, NEW O, NEW bits, NEW more, NEW less,
         Held(bits, ext, O), NEW i \in 1..Extents, NEW e \in Extent,
         more \cap bits = {}, less \subseteq Cells(ext[i]),
         Cells(e) = (Cells(ext[i]) \cup more) \ less
  PROVE  /\ [ext EXCEPT ![i] = e] \in ExtentLists
         /\ Held((bits \cup more) \ less, [ext EXCEPT ![i] = e], O)
         /\ Exact(bits, ext, O) => Exact((bits \cup more) \ less, [ext EXCEPT ![i] = e], O)
  <1> DEFINE u == [ext EXCEPT ![i] = e]
             b == (bits \cup more) \ less
  <1>1. u \in ExtentLists /\ u[i] = e /\ \A j \in 1..Extents : j # i => u[j] = ext[j]
    BY DEF ExtentLists
  <1>2. \A j \in 1..Extents : j # i => Cells(u[j]) = Cells(ext[j])
    BY <1>1
  <1>3. Cells(u[i]) = (Cells(ext[i]) \cup more) \ less
    BY <1>1
  <1> HIDE DEF u
  <1>4. \A j, k \in 1..Extents : j # k => Cells(ext[j]) \cap Cells(ext[k]) = {}
    BY DEF Held, SlotsApart
  <1>5. \A j \in 1..Extents : Cells(ext[j]) \subseteq bits /\ Cells(ext[j]) \cap O = {}
    BY DEF Held
  <1>6. O \subseteq bits
    BY DEF Held
  <1>7. ASSUME NEW j \in 1..Extents PROVE Cells(u[j]) \subseteq b /\ Cells(u[j]) \cap O = {}
    <2>1. CASE j = i
      BY <1>3, <1>5, <1>6, <2>1
    <2>2. CASE j # i
      BY <1>2, <1>4, <1>5, <2>2
    <2>3. QED
      BY <2>1, <2>2
  <1>8. ASSUME NEW j \in 1..Extents, NEW k \in 1..Extents, j # k
        PROVE  Cells(u[j]) \cap Cells(u[k]) = {}
    <2>1. CASE j # i /\ k # i
      BY <1>2, <1>4, <1>8, <2>1
    <2>2. CASE j = i
      BY <1>2, <1>3, <1>4, <1>5, <1>8, <2>2
    <2>3. CASE k = i
      BY <1>2, <1>3, <1>4, <1>5, <1>8, <2>3
    <2>4. QED
      BY <2>1, <2>2, <2>3
  <1>9. O \subseteq b
    BY <1>5, <1>6
  <1>10. Held(b, u, O)
    BY <1>7, <1>8, <1>9 DEF Held, SlotsApart
  <1>11. ASSUME Exact(bits, ext, O) PROVE Exact(b, u, O)
    <2> SUFFICES ASSUME NEW c \in b, c \notin O PROVE \E j \in 1..Extents : c \in Cells(u[j])
      BY DEF Exact, CellsFrom
    <2>1. CASE c \in more
      BY <1>3, <2>1
    <2>2. CASE c \in bits
      <3>1. PICK j \in 1..Extents : c \in Cells(ext[j])
        BY <1>11, <2>2 DEF Exact, CellsFrom
      <3>2. QED
        BY <1>2, <1>3, <3>1
    <2>3. QED
      BY <2>1, <2>2
  <1>12. QED
    BY <1>1, <1>10, <1>11 DEF u

(* All slots behind one are given up.                                      *)
LEMMA HeldCut ==
  ASSUME NEW ext \in ExtentLists, NEW O, NEW bits, Held(bits, ext, O), NEW i \in 1..Extents
  PROVE  LET u == [j \in 1..Extents |-> IF j > i THEN NoExtent ELSE ext[j]]
             b == bits \ CellsFrom(ext, i + 1, Extents)
         IN  /\ u \in ExtentLists /\ Held(b, u, O)
             /\ Exact(bits, ext, O) => Exact(b, u, O)
  <1> DEFINE u == [j \in 1..Extents |-> IF j > i THEN NoExtent ELSE ext[j]]
             b == bits \ CellsFrom(ext, i + 1, Extents)
  <1>1. NoExtent \in Extent /\ Extents \in Nat
    BY AtufsAssumption DEF NoExtent, Extent
  <1>2. Cells(NoExtent) = {}
    BY <1>1, CellsCounted DEF NoExtent
  <1>3. /\ \A j \in 1..Extents : j > i => u[j] = NoExtent
        /\ \A j \in 1..Extents : ~(j > i) => u[j] = ext[j]
    OBVIOUS
  <1>4. u \in ExtentLists
    BY <1>1 DEF ExtentLists
  <1> HIDE DEF u
  <1>5. \A j \in 1..Extents : Cells(u[j]) = IF j > i THEN {} ELSE Cells(ext[j])
    BY <1>2, <1>3
  <1>6. \A j, k \in 1..Extents : j # k => Cells(ext[j]) \cap Cells(ext[k]) = {}
    BY DEF Held, SlotsApart
  <1>7. \A j \in 1..Extents : Cells(ext[j]) \subseteq bits /\ Cells(ext[j]) \cap O = {}
    BY DEF Held
  <1>8. \A c \in b : c \in bits /\ \A j \in (i + 1)..Extents : c \notin Cells(ext[j])
    BY DEF CellsFrom
  <1>9. \A c \in bits : (\A j \in (i + 1)..Extents : c \notin Cells(ext[j])) => c \in b
    BY DEF CellsFrom
  <1>10. \A j \in (i + 1)..Extents : j \in 1..Extents /\ j > i
    BY <1>1
  <1> HIDE DEF b
  <1>11. O \subseteq b
    BY <1>7, <1>9, <1>10 DEF Held
  <1>12. ASSUME NEW j \in 1..Extents PROVE Cells(u[j]) \subseteq b /\ Cells(u[j]) \cap O = {}
    <2>1. CASE j > i
      BY <1>5, <2>1
    <2>2. CASE ~(j > i)
      <3>1. Cells(u[j]) = Cells(ext[j])
        BY <1>5, <2>2
      <3>2. \A k \in (i + 1)..Extents : Cells(ext[j]) \cap Cells(ext[k]) = {}
        BY <1>6, <1>10, <2>2
      <3>3. QED
        BY <1>7, <1>9, <3>1, <3>2
    <2>3. QED
      BY <2>1, <2>2
  <1>13. ASSUME NEW j \in 1..Extents, NEW k \in 1..Extents, j # k
         PROVE  Cells(u[j]) \cap Cells(u[k]) = {}
    BY <1>5, <1>6, <1>13
  <1>14. Held(b, u, O)
    BY <1>11, <1>12, <1>13 DEF Held, SlotsApart
  <1>15. ASSUME Exact(bits, ext, O) PROVE Exact(b, u, O)
    <2> SUFFICES ASSUME NEW c \in b, c \notin O PROVE \E j \in 1..Extents : c \in Cells(u[j])
      BY DEF Exact, CellsFrom
    <2>1. PICK j \in 1..Extents : c \in Cells(ext[j])
      BY <1>8, <1>15 DEF Exact, CellsFrom
    <2>2. ~(j > i)
      BY <1>1, <1>8, <2>1
    <2>3. QED
      BY <1>5, <2>1, <2>2
  <1>16. QED
    BY <1>4, <1>14, <1>15 DEF u, b

-----------------------------------------------------------------------------
(* The loop of write_file over the slots. Kept: what it has done so far to *)
(* a volume that was s. While clusters are left to write none was freed.   *)
IsWork(w) ==
    w = [s |-> w.s, ext |-> w.ext, left |-> w.left, parts |-> w.parts, loop |-> w.loop]

Kept(s, O, tight, w) ==
    /\ IsWork(w)
    /\ Sound(w.s) /\ SameFiles(s, w.s)
    /\ w.ext \in ExtentLists /\ w.left \in Nat /\ w.parts \in Int
    /\ Held(w.s.disk[CBmp], w.ext, O)
    /\ tight => Exact(w.s.disk[CBmp], w.ext, O)
    /\ w.left > 0 => s.disk[CBmp] \subseteq w.s.disk[CBmp]

CompactFrom(ext, from, to) ==
    \A i, j \in from..to : i <= j /\ ext[i].many = 0 => ext[j].many = 0

(* The shape of the list when i slots have been looked at.                 *)
Shaped(w, i) ==
    \/ /\ w.loop = "on"
       /\ w.left > 0 => \A j \in 1..i : w.ext[j].many > 0
       /\ CompactFrom(w.ext, 1, i) /\ CompactFrom(w.ext, i + 1, Extents)
    \/ w.loop = "break" /\ w.left = 0 /\ Compact(w.ext)
    \/ w.loop = "full" /\ w.left > 0

LEMMA WorkChanged ==
  ASSUME NEW w, IsWork(w), NEW t, NEW l
  PROVE  [w EXCEPT !.s = t, !.loop = l]
            = [s |-> t, ext |-> w.ext, left |-> w.left, parts |-> w.parts, loop |-> l]
  <1> SUFFICES ASSUME NEW a, NEW b, NEW c, NEW d, NEW e,
                      w = [s |-> a, ext |-> b, left |-> c, parts |-> d, loop |-> e]
               PROVE  [w EXCEPT !.s = t, !.loop = l]
                         = [s |-> t, ext |-> b, left |-> c, parts |-> d, loop |-> l]
    BY DEF IsWork
  <1> DEFINE u == [w EXCEPT !.s = t]
  <1>1. u = [s |-> t, ext |-> b, left |-> c, parts |-> d, loop |-> e]
    OBVIOUS
  <1>2. [w EXCEPT !.s = t, !.loop = l] = [u EXCEPT !.loop = l]
    OBVIOUS
  <1> HIDE DEF u
  <1>3. [u EXCEPT !.loop = l] = [s |-> t, ext |-> b, left |-> c, parts |-> d, loop |-> l]
    BY <1>1
  <1>4. QED
    BY <1>2, <1>3

(* Clusters of an extent are written.                                      *)
LEMMA DataKept ==
  ASSUME NEW s, NEW t, Sound(t), SameFiles(s, t), NEW e \in Extent, NEW n \in Nat,
         Run(e.start, n) \subseteq ClusterNumbers,
         NEW stamp \in Stamps \cup {<<>>}, NEW parts \in Int
  PROVE  LET u == WriteData(t, e.start, n, stamp, parts)
         IN  Sound(u) /\ SameFiles(s, u) /\ u.disk[CBmp] = t.disk[CBmp]
  <1> DEFINE first == e.start
             u == WriteData(t, first, n, stamp, parts)
  <1>1. first \in Nat /\ Run(first, n) \subseteq ClusterNumbers
    BY DEF Extent
  <1> HIDE DEF first
  <1>2. Sound(u) /\ SameFiles(t, u) /\ u.disk[CBmp] = t.disk[CBmp]
    BY <1>1, DataSound, Zenon
  <1> HIDE DEF u
  <1>3. QED
    BY <1>2 DEF SameFiles, u, first

(* What Store has done: x from w, t and what it gives slot i.              *)
Stored(s, w, t, i, e, n, x) ==
    /\ IsWork(x) /\ Sound(x.s) /\ SameFiles(s, x.s)
    /\ x.s.disk[CBmp] = t.disk[CBmp]
    /\ x.ext = [w.ext EXCEPT ![i] = [start |-> e.start, many |-> n]]
    /\ x.left = w.left - n /\ x.parts = w.parts + n /\ x.loop = w.loop

LEMMA StoreFields ==
  ASSUME NEW w, IsWork(w), NEW t, NEW i, NEW e, NEW n, NEW stamp
  PROVE  Store(w, t, i, e, n, stamp)
            = [s     |-> WriteData(t, e.start, n, stamp, w.parts),
               ext   |-> [w.ext EXCEPT ![i] = [start |-> e.start, many |-> n]],
               left  |-> w.left - n, parts |-> w.parts + n, loop |-> w.loop]
  <1> DEFINE u == WriteData(t, e.start, n, stamp, w.parts)
             x == Store(w, t, i, e, n, stamp)
  <1>1. w = [s |-> w.s, ext |-> w.ext, left |-> w.left, parts |-> w.parts, loop |-> w.loop]
    BY DEF IsWork
  <1>2. x = [w EXCEPT !.s = u, !.ext[i] = [start |-> e.start, many |-> n],
                      !.left = @ - n, !.parts = @ + n]
    BY DEF Store
  <1> HIDE DEF u, x
  <1>3. x = [s |-> u, ext |-> [w.ext EXCEPT ![i] = [start |-> e.start, many |-> n]],
             left |-> w.left - n, parts |-> w.parts + n, loop |-> w.loop]
    BY <1>1, <1>2
  <1>4. QED
    BY <1>3 DEF u, x

LEMMA StoreWrites ==
  ASSUME NEW s, NEW w, IsWork(w), w.parts \in Int, NEW t, Sound(t), SameFiles(s, t),
         NEW i \in 1..Extents, NEW e \in Extent, NEW n \in Nat,
         Run(e.start, n) \subseteq ClusterNumbers, NEW stamp \in Stamps \cup {<<>>}
  PROVE  Stored(s, w, t, i, e, n, Store(w, t, i, e, n, stamp))
  <1> DEFINE u == WriteData(t, e.start, n, stamp, w.parts)
             v == [w.ext EXCEPT ![i] = [start |-> e.start, many |-> n]]
             x == Store(w, t, i, e, n, stamp)
  <1>1. Sound(u) /\ SameFiles(s, u) /\ u.disk[CBmp] = t.disk[CBmp]
    <2> DEFINE parts == w.parts
    <2>1. parts \in Int
      OBVIOUS
    <2> HIDE DEF parts
    <2>2. u = WriteData(t, e.start, n, stamp, parts)
      BY DEF parts
    <2> HIDE DEF u, v, x
    <2>3. QED
      BY <2>1, <2>2, DataKept
  <1>2. x = [s |-> u, ext |-> v, left |-> w.left - n, parts |-> w.parts + n, loop |-> w.loop]
    BY StoreFields
  <1> HIDE DEF x, u, v
  <1>3. QED
    BY <1>1, <1>2 DEF Stored, IsWork, x, v

(* The loop ends.                                                          *)
Ended(s, O, tight, w, l, x) ==
    Kept(s, O, tight, x) /\ x.loop = l /\ x.ext = w.ext /\ x.left = w.left

LEMMA LoopEnds ==
  ASSUME NEW s, NEW O, NEW tight \in BOOLEAN, NEW w, Kept(s, O, tight, w), NEW l
  PROVE  Ended(s, O, tight, w, l, [w EXCEPT !.loop = l])
  <1> DEFINE x == [w EXCEPT !.loop = l]
  <1>1. x = [s |-> w.s, ext |-> w.ext, left |-> w.left, parts |-> w.parts, loop |-> l]
    BY DEF Kept, IsWork
  <1> HIDE DEF x
  <1>2. Kept(s, O, tight, x)
    BY <1>1 DEF Kept, IsWork
  <1>3. QED
    BY <1>1, <1>2 DEF x, Ended

(* The slot takes free clusters.                                           *)
LEMMA SlotNew ==
  ASSUME NEW s, NEW O, NEW tight \in BOOLEAN, NEW w, Kept(s, O, tight, w),
         NEW i \in 1..Extents, NEW stamp \in Stamps \cup {<<>>}, Shaped(w, i - 1),
         w.loop = "on", w.left > 0, w.ext[i].many = 0
  PROVE  Kept(s, O, tight, StoreNew(w, i, stamp)) /\ Shaped(StoreNew(w, i, stamp), i)
  <1> DEFINE a == alocate_clusters(w.s, w.left)
             e == a.e
             t == a.s
             n == e.many
             v == [w.ext EXCEPT ![i] = e]
             x == Store(w, t, i, e, n, stamp)
             bits == w.s.disk[CBmp]
  <1>1. /\ e \in Extent /\ e.many <= w.left
        /\ Cells(e) \subseteq ClusterNumbers \ bits
        /\ Sound(t) /\ SameFiles(w.s, t)
        /\ t.disk[CBmp] = bits \cup Cells(e)
    BY AlocateSound DEF Kept
  <1>2. StoreNew(w, i, stamp) = IF n = 0 THEN [w EXCEPT !.s = t, !.loop = "full"] ELSE x
    BY DEF StoreNew
  <1>3. Cells(w.ext[i]) = {} /\ w.ext \in ExtentLists /\ w.ext[i] \in Extent
    BY CellsCounted DEF Kept, ExtentLists
  <1> HIDE DEF a, x
  <1>4. SameFiles(s, t)
    BY <1>1 DEF Kept, SameFiles
  <1>5. CASE n = 0
    <2> DEFINE y == [w EXCEPT !.s = t, !.loop = "full"]
    <2>1. Cells(e) = {}
      BY <1>1, <1>5, CellsCounted
    <2>2. t.disk[CBmp] = bits
      BY <1>1, <2>1
    <2>3. y = [s |-> t, ext |-> w.ext, left |-> w.left, parts |-> w.parts, loop |-> "full"]
      BY WorkChanged DEF Kept
    <2> HIDE DEF y, e, t
    <2>4. Kept(s, O, tight, y)
      BY <1>1, <1>4, <2>2, <2>3 DEF Kept, IsWork
    <2>5. Shaped(y, i)
      BY <2>3 DEF Shaped
    <2>6. QED
      BY <1>2, <1>5, <2>4, <2>5 DEF y
  <1>6. CASE n # 0
    <2> HIDE DEF e, t, n
    <2>1. n \in 0..w.left /\ n > 0 /\ w.left - n \in Nat /\ e = [start |-> e.start, many |-> n]
      BY <1>1, <1>6 DEF Extent, n, Kept
    <2>2. Run(e.start, n) \subseteq ClusterNumbers
      BY <1>1 DEF Cells, n
    <2>3. /\ v \in ExtentLists /\ Held(t.disk[CBmp], v, O)
          /\ tight => Exact(t.disk[CBmp], v, O)
      <3> DEFINE none == {}
                 new == Cells(e)
                 after == (bits \cup new) \ none
      <3>1. after = t.disk[CBmp] /\ none \subseteq Cells(w.ext[i])
            /\ Cells(e) = (Cells(w.ext[i]) \cup new) \ none /\ new \cap bits = {}
        BY <1>1, <1>3
      <3>2. Held(bits, w.ext, O) /\ (tight => Exact(bits, w.ext, O))
        BY DEF Kept
      <3> HIDE DEF none, new, bits
      <3>3. v \in ExtentLists /\ Held(after, v, O) /\ (Exact(bits, w.ext, O) => Exact(after, v, O))
        BY <1>1, <1>3, <3>1, <3>2, HeldSlot
      <3>4. QED
        BY <3>1, <3>2, <3>3
    <2>4. w.left - n > 0 => s.disk[CBmp] \subseteq t.disk[CBmp]
      BY <1>1 DEF Kept
    <2>5. v = [w.ext EXCEPT ![i] = [start |-> e.start, many |-> n]]
      BY <2>1
    <2>6. /\ v[i].many > 0
          /\ \A j \in 1..Extents : j # i => v[j] = w.ext[j]
      <3>1. /\ v[i] = e
            /\ \A j \in 1..Extents : j # i => v[j] = w.ext[j]
        BY <1>3 DEF ExtentLists
      <3>2. QED
        BY <2>1, <3>1 DEF n
    <2> HIDE DEF v
    <2>7. /\ IsWork(x) /\ Sound(x.s) /\ SameFiles(s, x.s) /\ x.s.disk[CBmp] = t.disk[CBmp]
          /\ x.ext = v /\ x.left = w.left - n /\ x.parts = w.parts + n /\ x.loop = w.loop
      <3>1. IsWork(w) /\ w.parts \in Int /\ n \in Nat
        BY <2>1 DEF Kept
      <3>2. e \in Extent /\ Sound(t)
        BY <1>1
      <3>3. Stored(s, w, t, i, e, n, x)
        BY <1>4, <2>2, <3>1, <3>2, StoreWrites, Zenon DEF x
      <3>4. QED
        BY <2>5, <3>3 DEF Stored
    <2>8. /\ \A j \in 1..(i - 1) : w.ext[j].many > 0
          /\ CompactFrom(w.ext, (i - 1) + 1, Extents)
      BY DEF Shaped
    <2>9. \A j \in 1..i : v[j].many > 0
      <3>1. \A j \in 1..i : j \in 1..Extents /\ (j = i \/ j \in 1..(i - 1))
        BY AtufsAssumption
      <3>2. QED
        BY <2>6, <2>8, <3>1
    <2>10. CompactFrom(v, 1, i)
      BY <2>9 DEF CompactFrom
    <2>11. CompactFrom(v, i + 1, Extents)
      BY <2>6, <2>8 DEF CompactFrom
    <2>12. Shaped(x, i)
      BY <2>7, <2>9, <2>10, <2>11 DEF Shaped
    <2>13. Kept(s, O, tight, x)
      BY <2>1, <2>3, <2>4, <2>7 DEF Kept
    <2>14. QED
      BY <1>2, <1>6, <2>12, <2>13
  <1>7. QED
    BY <1>5, <1>6

(* The slot is written again.                                              *)
LEMMA SlotOld ==
  ASSUME NEW s, NEW O, NEW tight \in BOOLEAN, NEW w, Kept(s, O, tight, w),
         NEW i \in 1..Extents, NEW stamp \in Stamps \cup {<<>>},
         w.ext[i].many <= w.left
  PROVE  LET x == Store(w, w.s, i, w.ext[i], w.ext[i].many, stamp)
         IN  /\ Kept(s, O, tight, x) /\ x.ext = w.ext /\ x.loop = w.loop
             /\ x.left = w.left - w.ext[i].many
  <1> DEFINE e == w.ext[i]
             n == e.many
             t == w.s
             x == Store(w, t, i, e, n, stamp)
  <1>1. e \in Extent /\ n \in Nat /\ e = [start |-> e.start, many |-> n] /\ w.left - n \in Nat
    <2>1. e \in Extent
      BY DEF Kept, ExtentLists
    <2>2. n \in Nat /\ e = [start |-> e.start, many |-> n]
      BY <2>1 DEF Extent
    <2>3. w.left \in Nat
      BY DEF Kept
    <2>4. QED
      BY <2>1, <2>2, <2>3
  <1>2. Run(e.start, n) \subseteq ClusterNumbers
    <2>1. Cells(e) \subseteq t.disk[CBmp] /\ t.disk[CBmp] \subseteq ClusterNumbers
      BY BitsFinite DEF Kept, Held
    <2>2. QED
      BY <2>1 DEF Cells
  <1>3. IsWork(w) /\ w.parts \in Int /\ Sound(t) /\ SameFiles(s, t)
    BY DEF Kept
  <1>4. w.ext = [w.ext EXCEPT ![i] = [start |-> e.start, many |-> n]]
    <2>1. w.ext = [w.ext EXCEPT ![i] = e]
      BY DEF Kept, ExtentLists
    <2>2. QED
      BY <1>1, <2>1
  <1> HIDE DEF x, e, n, t
  <1>5. Stored(s, w, t, i, e, n, x)
    BY <1>1, <1>2, <1>3, StoreWrites, Zenon DEF x
  <1>6. /\ IsWork(x) /\ Sound(x.s) /\ SameFiles(s, x.s) /\ x.s.disk[CBmp] = t.disk[CBmp]
        /\ x.ext = w.ext /\ x.left = w.left - n /\ x.parts = w.parts + n /\ x.loop = w.loop
    BY <1>4, <1>5 DEF Stored
  <1>7. Kept(s, O, tight, x)
    BY <1>1, <1>6 DEF Kept, t
  <1>8. QED
    BY <1>6, <1>7 DEF x, e, n, t

(* The slot is given up.                                                   *)
Emptied(s, O, tight, w, i, x) ==
    /\ Kept(s, O, tight, x) /\ x.left = 0 /\ x.loop = w.loop
    /\ x.ext = [w.ext EXCEPT ![i] = NoExtent]

LEMMA SlotFreed ==
  ASSUME NEW s, NEW O, NEW tight \in BOOLEAN, NEW w, Kept(s, O, tight, w),
         NEW i \in 1..Extents, w.left = 0
  PROVE  Emptied(s, O, tight, w, i,
                 [w EXCEPT !.s = clear_clusters(w.s, w.ext[i]), !.ext[i] = NoExtent])
  <1> DEFINE e == w.ext[i]
             t == clear_clusters(w.s, e)
             v == [w.ext EXCEPT ![i] = NoExtent]
             bits == w.s.disk[CBmp]
             x == [w EXCEPT !.s = t, !.ext[i] = NoExtent]
  <1>1. e \in Extent /\ w.ext \in ExtentLists /\ Sound(w.s)
    BY DEF Kept, ExtentLists
  <1>2. Held(bits, w.ext, O) /\ (tight => Exact(bits, w.ext, O)) /\ Cells(e) \subseteq bits
    BY DEF Kept, Held
  <1>3. Sound(t) /\ t.disk[CBmp] = bits \ Cells(e) /\ SameFiles(w.s, t)
    BY <1>1, <1>2, ClearSound
  <1>4. x = [s |-> t, ext |-> v, left |-> w.left, parts |-> w.parts, loop |-> w.loop]
    <2>1. w = [s |-> w.s, ext |-> w.ext, left |-> w.left, parts |-> w.parts, loop |-> w.loop]
      BY DEF Kept, IsWork
    <2> DEFINE y == [w EXCEPT !.s = t]
    <2>2. x = [y EXCEPT !.ext[i] = NoExtent]
      OBVIOUS
    <2> HIDE DEF t, x
    <2>3. y = [s |-> t, ext |-> w.ext, left |-> w.left, parts |-> w.parts, loop |-> w.loop]
      BY <2>1
    <2> HIDE DEF y
    <2>4. QED
      BY <2>2, <2>3
  <1>5. NoExtent \in Extent /\ Cells(NoExtent) = {}
    <2>1. NoExtent \in Extent /\ NoExtent.many = 0
      BY DEF NoExtent, Extent
    <2>2. QED
      BY <2>1, CellsCounted
  <1>6. /\ v \in ExtentLists /\ Held(t.disk[CBmp], v, O)
        /\ tight => Exact(t.disk[CBmp], v, O)
    <2> DEFINE none == {}
               old == Cells(e)
               after == (bits \cup none) \ old
    <2>1. after = t.disk[CBmp] /\ old \subseteq Cells(w.ext[i])
          /\ Cells(NoExtent) = (Cells(w.ext[i]) \cup none) \ old /\ none \cap bits = {}
      BY <1>3, <1>5
    <2> HIDE DEF none, old, bits, t
    <2>2. v \in ExtentLists /\ Held(after, v, O) /\ (Exact(bits, w.ext, O) => Exact(after, v, O))
      BY <1>1, <1>2, <1>5, <2>1, HeldSlot
    <2>3. QED
      BY <1>2, <2>1, <2>2
  <1>7. w.left = 0 /\ w.parts \in Int /\ SameFiles(s, w.s)
    BY DEF Kept
  <1> HIDE DEF x, t, v
  <1>8. Kept(s, O, tight, x)
    <2>1. SameFiles(s, t)
      BY <1>3, <1>7 DEF SameFiles
    <2>2. IsWork(x) /\ x.s = t /\ x.ext = v /\ x.left = 0 /\ x.parts \in Int
      BY <1>4, <1>7 DEF IsWork
    <2>3. QED
      BY <1>3, <1>6, <2>1, <2>2 DEF Kept
  <1>9. QED
    BY <1>4, <1>7, <1>8 DEF Emptied, x, v, t, e

(* The tail of the slot and all slots behind it are given up.              *)
Finished(s, O, tight, w, i, x) ==
    /\ Kept(s, O, tight, x) /\ x.left = 0 /\ x.loop = "break"
    /\ x.ext[i].many > 0
    /\ \A j \in 1..(i - 1) : x.ext[j] = w.ext[j]
    /\ \A j \in (i + 1)..Extents : x.ext[j].many = 0

LEMMA SlotLast ==
  ASSUME NEW s, NEW O, NEW tight \in BOOLEAN, NEW w, Kept(s, O, tight, w),
         NEW i \in 1..Extents, NEW stamp \in Stamps \cup {<<>>},
         w.left > 0, w.left < w.ext[i].many
  PROVE  Finished(s, O, tight, w, i, StoreLast(w, i, stamp))
  <1> DEFINE e == w.ext[i]
             n == w.left
             tail == [start |-> e.start + n, many |-> e.many - n]
             rest == [start |-> e.start, many |-> n]
             t == clear_clusters(w.s, tail)
             u == ClearSlots(t, w.ext, i + 1, Extents)
             bits == w.s.disk[CBmp]
             behind == CellsFrom(w.ext, i + 1, Extents)
             list == [w.ext EXCEPT ![i] = rest]
             v == [j \in 1..Extents |-> IF j > i THEN NoExtent ELSE list[j]]
             cut == [w EXCEPT !.ext = [j \in 1..Extents |-> IF j > i THEN NoExtent ELSE @[j]]]
             y == Store(cut, u, i, e, n, stamp)
  <1>1. /\ e \in Extent /\ w.ext \in ExtentLists /\ Sound(w.s) /\ n \in Nat /\ w.parts \in Int
        /\ SameFiles(s, w.s) /\ IsWork(w)
    BY DEF Kept, ExtentLists
  <1>2. Held(bits, w.ext, O) /\ (tight => Exact(bits, w.ext, O)) /\ Cells(e) \subseteq bits
    BY DEF Kept, Held
  <1>3. Extents \in Nat /\ i \in Nat /\ i + 1 \in 1..(Extents + 1)
    BY AtufsAssumption
  <1>4. StoreLast(w, i, stamp) = [y EXCEPT !.loop = "break"]
    BY DEF StoreLast
  <1>5. tail \in Extent /\ rest \in Extent /\ e.start \in Nat /\ e.many \in Nat /\ n < e.many
    BY <1>1 DEF Extent
  <1>6. /\ Cells(tail) \subseteq Cells(e)
        /\ Cells(rest) = Cells(e) \ Cells(tail)
    <2>1. /\ Cells(tail) = (e.start + n)..(e.start + n + (e.many - n) - 1)
          /\ Cells(rest) = e.start..(e.start + n - 1)
          /\ Cells(e) = e.start..(e.start + e.many - 1)
      BY <1>1, <1>5, CellsCounted
    <2>3. e.start \in Nat /\ e.many \in Nat /\ n \in Nat /\ n < e.many
      BY <1>1, <1>5
    <2> HIDE DEF tail, rest, e, n
    <2>4. /\ (e.start + n)..(e.start + n + (e.many - n) - 1) \subseteq e.start..(e.start + e.many - 1)
          /\ e.start..(e.start + n - 1) = (e.start..(e.start + e.many - 1))
                \ ((e.start + n)..(e.start + n + (e.many - n) - 1))
      <3> DEFINE a == e.start
                 m == e.many
                 k == n
      <3>1. a \in Nat /\ m \in Nat /\ k \in Nat /\ k < m
        BY <2>3
      <3> HIDE DEF a, m, k
      <3>2. /\ (a + k)..(a + k + (m - k) - 1) \subseteq a..(a + m - 1)
            /\ a..(a + k - 1) = (a..(a + m - 1)) \ ((a + k)..(a + k + (m - k) - 1))
        BY ONLY <3>1
      <3>3. QED
        BY ONLY <3>2 DEF a, m, k
    <2>5. QED
      BY ONLY <2>1, <2>4
  <1> HIDE DEF tail, rest
  <1>7. Sound(t) /\ SameFiles(w.s, t) /\ t.disk[CBmp] = bits \ Cells(tail)
    BY <1>1, <1>2, <1>5, <1>6, ClearSound
  <1>8. /\ Sound(u) /\ SameFiles(t, u)
        /\ u.disk[CBmp] = t.disk[CBmp] \ behind
    <2>1. SlotsApart(w.ext)
      BY <1>2 DEF Held
    <2>2. \A j \in (i + 1)..Extents : Cells(w.ext[j]) \subseteq t.disk[CBmp]
      <3> SUFFICES ASSUME NEW j \in (i + 1)..Extents PROVE Cells(w.ext[j]) \subseteq t.disk[CBmp]
        OBVIOUS
      <3>1. j \in 1..Extents /\ j # i
        BY <1>3
      <3>2. Cells(w.ext[j]) \subseteq bits /\ Cells(w.ext[j]) \cap Cells(e) = {}
        BY <1>2, <3>1 DEF Held, SlotsApart
      <3>3. QED
        BY <1>6, <1>7, <3>2
    <2> DEFINE from == i + 1
    <2>3. from \in 1..(Extents + 1) /\ Extents \in 0..Extents /\ from - 1 <= Extents
      BY <1>3
    <2> HIDE DEF from, t
    <2>4. \A j \in from..Extents : Cells(w.ext[j]) \subseteq t.disk[CBmp]
      BY <2>2 DEF from
    <2>5. Freed(t, ClearSlots(t, w.ext, from, Extents), CellsFrom(w.ext, from, Extents))
      <3>1. w.ext \in ExtentLists /\ Sound(t)
        BY <1>1, <1>7
      <3>2. QED
        BY <2>1, <2>3, <2>4, <3>1, ClearSlotsSound, Zenon
    <2>6. QED
      BY <2>5 DEF from, Freed
  <1> HIDE DEF t, u, y
  <1>9. /\ list \in ExtentLists /\ Held(bits \ Cells(tail), list, O)
        /\ tight => Exact(bits \ Cells(tail), list, O)
    <2> DEFINE none == {}
               old == Cells(tail)
               after == (bits \cup none) \ old
    <2>1. after = bits \ Cells(tail) /\ old \subseteq Cells(w.ext[i])
          /\ Cells(rest) = (Cells(w.ext[i]) \cup none) \ old /\ none \cap bits = {}
      BY <1>6
    <2> HIDE DEF none, old, bits
    <2>2. list \in ExtentLists /\ Held(after, list, O)
          /\ (Exact(bits, w.ext, O) => Exact(after, list, O))
      BY <1>1, <1>2, <1>5, <2>1, HeldSlot
    <2>3. QED
      BY <1>2, <2>1, <2>2
  <1>10. /\ list[i] = rest
         /\ \A j \in 1..Extents : j # i => list[j] = w.ext[j]
    BY <1>1 DEF ExtentLists
  <1> HIDE DEF list
  <1>11. behind = CellsFrom(list, i + 1, Extents)
    <2>1. \A j \in (i + 1)..Extents : list[j] = w.ext[j]
      BY <1>3, <1>10
    <2>2. QED
      BY <2>1 DEF CellsFrom
  <1>12. /\ v \in ExtentLists /\ Held(u.disk[CBmp], v, O)
         /\ tight => Exact(u.disk[CBmp], v, O)
    <2> DEFINE b == bits \ Cells(tail)
               after == b \ CellsFrom(list, i + 1, Extents)
    <2>1. Held(b, list, O) /\ (tight => Exact(b, list, O))
      BY <1>9
    <2>2. after = u.disk[CBmp]
      BY <1>7, <1>8, <1>11
    <2> HIDE DEF b
    <2>3. v \in ExtentLists /\ Held(after, v, O) /\ (Exact(b, list, O) => Exact(after, v, O))
      BY <1>9, <2>1, HeldCut
    <2>4. QED
      BY <2>1, <2>2, <2>3
  <1>13. /\ IsWork(cut) /\ cut.parts = w.parts /\ cut.left = n /\ cut.loop = w.loop
         /\ cut.ext = [j \in 1..Extents |-> IF j > i THEN NoExtent ELSE w.ext[j]]
    <2>1. w = [s |-> w.s, ext |-> w.ext, left |-> n, parts |-> w.parts, loop |-> w.loop]
      BY <1>1 DEF IsWork
    <2> DEFINE short == [j \in 1..Extents |-> IF j > i THEN NoExtent ELSE w.ext[j]]
    <2>2. cut = [w EXCEPT !.ext = short]
      OBVIOUS
    <2> HIDE DEF cut, short
    <2>3. cut = [s |-> w.s, ext |-> short, left |-> n, parts |-> w.parts, loop |-> w.loop]
      BY <2>1, <2>2
    <2>4. QED
      BY <2>3 DEF IsWork, short
  <1>14. [cut.ext EXCEPT ![i] = [start |-> e.start, many |-> n]] = v
    <2> DEFINE short == [j \in 1..Extents |-> IF j > i THEN NoExtent ELSE w.ext[j]]
    <2>1. [short EXCEPT ![i] = rest] = [j \in 1..Extents |-> IF j = i THEN rest ELSE short[j]]
      OBVIOUS
    <2>2. \A j \in 1..Extents : v[j] = IF j = i THEN rest ELSE short[j]
      BY <1>3, <1>10
    <2>3. v = [j \in 1..Extents |-> v[j]]
      OBVIOUS
    <2> HIDE DEF short, v
    <2>4. v = [short EXCEPT ![i] = rest]
      BY <2>1, <2>2, <2>3
    <2>5. QED
      BY <1>13, <2>4 DEF rest, short
  <1> HIDE DEF cut, v
  <1>15. Stored(s, cut, u, i, e, n, y)
    <2>1. Run(e.start, n) \subseteq ClusterNumbers
      <3>1. Cells(rest) \subseteq bits /\ bits \subseteq ClusterNumbers
        BY <1>1, <1>2, <1>6, BitsFinite
      <3>2. QED
        BY <3>1 DEF Cells, rest
    <2>2. SameFiles(s, u) /\ cut.parts \in Int
      BY <1>1, <1>7, <1>8, <1>13 DEF SameFiles
    <2> HIDE DEF e, n
    <2>3. QED
      BY <1>1, <1>8, <1>13, <2>1, <2>2, StoreWrites, Zenon DEF y
  <1>16. Kept(s, O, tight, y) /\ y.ext = v /\ y.left = 0
    <2>1. /\ IsWork(y) /\ Sound(y.s) /\ SameFiles(s, y.s) /\ y.s.disk[CBmp] = u.disk[CBmp]
          /\ y.ext = v /\ y.left = 0 /\ y.parts \in Int
      BY <1>1, <1>13, <1>14, <1>15 DEF Stored
    <2>2. QED
      BY <1>12, <2>1 DEF Kept
  <1>17. /\ v[i].many > 0
         /\ \A j \in 1..(i - 1) : v[j] = w.ext[j]
         /\ \A j \in (i + 1)..Extents : v[j].many = 0
    <2>1. \A j \in 1..Extents : v[j] = IF j > i THEN NoExtent ELSE list[j]
      BY DEF v
    <2>2. list[i] = rest /\ \A j \in 1..(i - 1) : list[j] = w.ext[j]
      BY <1>1, <1>3, <1>10
    <2>3. rest.many > 0 /\ NoExtent.many = 0
      BY DEF rest, NoExtent
    <2> HIDE DEF v, rest
    <2>4. i \in 1..Extents /\ ~(i > i)
      BY <1>3
    <2>5. ASSUME NEW j \in 1..(i - 1) PROVE j \in 1..Extents /\ ~(j > i)
      BY <1>3
    <2>6. ASSUME NEW j \in (i + 1)..Extents PROVE j \in 1..Extents /\ j > i
      BY <1>3
    <2>7. v[i] = rest
      BY <2>1, <2>2, <2>4
    <2>8. \A j \in 1..(i - 1) : v[j] = w.ext[j]
      BY <2>1, <2>2, <2>5
    <2>9. \A j \in (i + 1)..Extents : v[j] = NoExtent
      BY <2>1, <2>6
    <2>10. QED
      BY <2>3, <2>7, <2>8, <2>9
  <1>18. QED
    <2> DEFINE z == [y EXCEPT !.loop = "break"]
    <2>1. Ended(s, O, tight, y, "break", z)
      BY <1>16, LoopEnds
    <2> HIDE DEF z
    <2>2. QED
      BY <1>4, <1>16, <1>17, <2>1 DEF z, Ended, Finished

(* One slot, whatever it has.                                              *)
LEMMA SlotKept ==
  ASSUME NEW s, NEW O, NEW tight \in BOOLEAN, NEW w, Kept(s, O, tight, w),
         NEW i \in 1..Extents, NEW stamp \in Stamps \cup {<<>>}, Shaped(w, i - 1)
  PROVE  Kept(s, O, tight, Slot(w, i, stamp)) /\ Shaped(Slot(w, i, stamp), i)
  <1> DEFINE e == w.ext[i]
             x == Slot(w, i, stamp)
             again == Store(w, w.s, i, e, e.many, stamp)
  <1>1. /\ Extents \in Nat /\ i \in Nat /\ (i - 1) + 1 = i
        /\ w.ext \in ExtentLists /\ e.many \in Nat /\ w.left \in Nat
        /\ \A j \in 1..Extents : w.ext[j].many \in Nat
    <2>1. Extents \in Nat /\ i \in Nat /\ (i - 1) + 1 = i
      BY AtufsAssumption
    <2>2. w.ext \in ExtentLists /\ w.left \in Nat
      BY DEF Kept
    <2>3. \A j \in 1..Extents : w.ext[j].many \in Nat
      BY <2>2 DEF ExtentLists, Extent
    <2>4. QED
      BY <2>1, <2>2, <2>3
  <1>2. \A j \in 1..i : j \in 1..(i - 1) \/ j = i
    BY <1>1
  <1>3. CASE w.loop # "on"
    <2>1. x = w
      BY <1>3 DEF Slot
    <2>2. Shaped(w, i)
      BY <1>3 DEF Shaped
    <2>3. QED
      BY <2>1, <2>2
  <1>4. CASE w.loop = "on"
    <2>1. /\ w.left > 0 => \A j \in 1..(i - 1) : w.ext[j].many > 0
          /\ CompactFrom(w.ext, 1, i - 1) /\ CompactFrom(w.ext, i, Extents)
      BY <1>1, <1>4 DEF Shaped
    <2>2. CASE w.left = 0 /\ e.many = 0
      <3> DEFINE y == [w EXCEPT !.loop = "break"]
      <3>1. x = y
        BY <1>4, <2>2 DEF Slot
      <3>2. Ended(s, O, tight, w, "break", y)
        BY LoopEnds
      <3>3. Compact(w.ext)
        <4>1. \A j \in i..Extents : w.ext[j].many = 0
          BY <1>1, <2>1, <2>2 DEF CompactFrom
        <4>2. QED
          BY <1>1, <2>1, <4>1 DEF Compact, CompactFrom
      <3> HIDE DEF y, x
      <3>4. QED
        BY <2>2, <3>1, <3>2, <3>3 DEF Ended, Shaped, x
    <2>3. CASE w.left = 0 /\ e.many > 0
      <3> DEFINE y == [w EXCEPT !.s = clear_clusters(w.s, e), !.ext[i] = NoExtent]
                 v == [w.ext EXCEPT ![i] = NoExtent]
      <3>1. x = y
        BY <1>1, <1>4, <2>3 DEF Slot
      <3>2. Kept(s, O, tight, y) /\ y.left = 0 /\ y.loop = w.loop /\ y.ext = v
        <4>1. Emptied(s, O, tight, w, i, y)
          BY <2>3, SlotFreed
        <4> HIDE DEF y
        <4>2. QED
          BY <4>1 DEF Emptied
      <3>3. /\ v[i].many = 0
            /\ \A j \in 1..Extents : j # i => v[j] = w.ext[j]
        BY <1>1 DEF ExtentLists, NoExtent
      <3> HIDE DEF y, x, v
      <3>4. CompactFrom(v, 1, i)
        <4>1. ASSUME NEW p \in 1..i, NEW q \in 1..i, p <= q, v[p].many = 0 PROVE v[q].many = 0
          <5>1. CASE q = i
            BY <3>3, <5>1
          <5>2. CASE q # i
            <6>1. p \in 1..(i - 1) /\ q \in 1..(i - 1) /\ p \in 1..Extents /\ q \in 1..Extents
              BY <1>1, <4>1, <5>2
            <6>2. v[p] = w.ext[p] /\ v[q] = w.ext[q]
              BY <1>1, <3>3, <6>1
            <6>3. QED
              BY <2>1, <4>1, <6>1, <6>2 DEF CompactFrom
          <5>3. QED
            BY <5>1, <5>2
        <4>2. QED
          BY <4>1 DEF CompactFrom
      <3>5. CompactFrom(v, i + 1, Extents)
        BY <1>1, <2>1, <3>3 DEF CompactFrom
      <3>6. Shaped(y, i)
        BY <1>4, <3>2, <3>4, <3>5 DEF Shaped
      <3>7. QED
        BY <3>1, <3>2, <3>6 DEF x
    <2>4. CASE w.left > 0 /\ e.many = 0
      <3>1. x = StoreNew(w, i, stamp)
        BY <1>1, <1>4, <2>4 DEF Slot
      <3> HIDE DEF x
      <3>2. QED
        BY <1>4, <2>4, <3>1, SlotNew DEF x
    <2>5. CASE w.left > 0 /\ e.many > 0 /\ e.many <= w.left
      <3>1. /\ Kept(s, O, tight, again) /\ again.ext = w.ext /\ again.loop = w.loop
            /\ again.left = w.left - e.many
        BY <2>5, SlotOld
      <3>2. \A j \in 1..i : w.ext[j].many > 0
        BY <1>2, <2>1, <2>5
      <3>3. CASE e.many < w.left
        <4>1. x = again
          BY <1>1, <1>4, <2>5, <3>3 DEF Slot
        <4> HIDE DEF again, x
        <4>2. CompactFrom(w.ext, 1, i) /\ CompactFrom(w.ext, i + 1, Extents)
          BY <1>1, <2>1, <3>2 DEF CompactFrom
        <4>3. Shaped(again, i)
          BY <1>4, <3>1, <3>2, <4>2 DEF Shaped
        <4>4. QED
          BY <3>1, <4>1, <4>3 DEF x
      <3>4. CASE e.many = w.left
        <4> DEFINE y == [again EXCEPT !.loop = "break"]
        <4>1. x = y
          BY <1>1, <1>4, <2>5, <3>4 DEF Slot
        <4> HIDE DEF again
        <4>2. Ended(s, O, tight, again, "break", y)
          BY <3>1, LoopEnds
        <4>3. Compact(w.ext)
          <5>1. ASSUME NEW p \in 1..Extents, NEW q \in 1..Extents, p <= q, w.ext[p].many = 0
                PROVE  w.ext[q].many = 0
            <6>1. p \notin 1..i
              BY <3>2, <5>1
            <6>2. p \in i..Extents /\ q \in i..Extents
              BY <1>1, <5>1, <6>1
            <6>3. QED
              BY <2>1, <5>1, <6>2 DEF CompactFrom
          <5>2. QED
            BY <5>1 DEF Compact
        <4>4. again.left = 0
          BY <1>1, <3>1, <3>4
        <4> HIDE DEF y, x
        <4>5. QED
          BY <3>1, <4>1, <4>2, <4>3, <4>4 DEF Ended, Shaped, x
      <3>5. QED
        BY <1>1, <2>5, <3>3, <3>4
    <2>6. CASE w.left > 0 /\ e.many > w.left
      <3> DEFINE y == StoreLast(w, i, stamp)
      <3>1. x = y
        BY <1>1, <1>4, <2>6 DEF Slot
      <3>2. /\ Kept(s, O, tight, y) /\ y.left = 0 /\ y.loop = "break"
            /\ y.ext[i].many > 0
            /\ \A j \in 1..(i - 1) : y.ext[j] = w.ext[j]
            /\ \A j \in (i + 1)..Extents : y.ext[j].many = 0
        <4>1. Finished(s, O, tight, w, i, y)
          BY <2>6, SlotLast
        <4> HIDE DEF y
        <4>2. QED
          BY <4>1 DEF Finished
      <3> HIDE DEF y, x
      <3>3. /\ \A j \in 1..i : y.ext[j].many > 0
            /\ \A j \in 1..Extents : j \in 1..i \/ j \in (i + 1)..Extents
        BY <1>1, <1>2, <2>1, <2>6, <3>2
      <3>4. Compact(y.ext)
        BY <1>1, <3>2, <3>3 DEF Compact
      <3>5. QED
        BY <3>1, <3>2, <3>4 DEF Shaped, x
    <2>7. QED
      BY <1>1, <2>2, <2>3, <2>4, <2>5, <2>6
  <1>5. QED
    BY <1>3, <1>4

(* The loop as a whole, slot by slot.                                      *)
Ran(s, O, tight, ext, clusters, stamp, run) ==
    /\ run[0] = [s |-> s, ext |-> ext, left |-> clusters, parts |-> 0, loop |-> "on"]
    /\ \A i \in 1..Extents : run[i] = Slot(run[i - 1], i, stamp)
    /\ run[Extents] = Resize(s, ext, clusters, stamp)
    /\ \A i \in 0..Extents : Kept(s, O, tight, run[i]) /\ Shaped(run[i], i)

LEMMA ResizeRun ==
  ASSUME NEW s, Sound(s), NEW O, NEW tight \in BOOLEAN, NEW ext \in ExtentLists, Compact(ext),
         Held(s.disk[CBmp], ext, O), tight => Exact(s.disk[CBmp], ext, O),
         NEW clusters \in Nat, NEW stamp \in Stamps \cup {<<>>}
  PROVE  \E run : Ran(s, O, tight, ext, clusters, stamp, run)
  <1> DEFINE start == [s |-> s, ext |-> ext, left |-> clusters, parts |-> 0, loop |-> "on"]
  <1>1. Extents \in Nat
    BY AtufsAssumption
  <1>2. PICK run : /\ run[0] = start
                   /\ \A i \in 1..Extents : run[i] = Slot(run[i - 1], i, stamp)
                   /\ Resize(s, ext, clusters, stamp) = run[Extents]
    BY ResizeRuns
  <1> DEFINE T == {i \in 0..Extents : Kept(s, O, tight, run[i]) /\ Shaped(run[i], i)}
  <1>3. 0 \in T
    <2>1. /\ IsWork(start) /\ start.s = s /\ start.ext = ext /\ start.left = clusters
          /\ start.parts = 0 /\ start.loop = "on"
      BY DEF IsWork
    <2> HIDE DEF start
    <2>2. SameFiles(s, s)
      BY DEF SameFiles
    <2>3. Kept(s, O, tight, start)
      BY <2>1, <2>2 DEF Kept
    <2>4. CompactFrom(ext, 1, 0) /\ CompactFrom(ext, 0 + 1, Extents)
      BY DEF CompactFrom, Compact
    <2>5. Shaped(start, 0)
      BY <2>1, <2>4 DEF Shaped
    <2>6. QED
      BY <1>1, <1>2, <2>3, <2>5
  <1>4. ASSUME NEW i \in 0..(Extents - 1), i \in T PROVE i + 1 \in T
    <2> DEFINE w == run[i]
               k == i + 1
    <2>1. k \in 1..Extents /\ k - 1 = i
      BY <1>1
    <2>2. run[k] = Slot(w, k, stamp)
      BY <1>2, <2>1
    <2>3. Kept(s, O, tight, w) /\ Shaped(w, k - 1)
      BY <1>4, <2>1
    <2> HIDE DEF w, k
    <2>4. Kept(s, O, tight, Slot(w, k, stamp)) /\ Shaped(Slot(w, k, stamp), k)
      BY <2>1, <2>3, SlotKept
    <2>5. QED
      BY <2>1, <2>2, <2>4 DEF k
  <1>5. 0..Extents \subseteq T
    <2>1. Climbs(T, 0, Extents)
      BY <1>3, <1>4 DEF Climbs
    <2> HIDE DEF T
    <2>2. QED
      BY <1>1, <2>1, UpTo
  <1>6. \A i \in 0..Extents : Kept(s, O, tight, run[i]) /\ Shaped(run[i], i)
    BY <1>5
  <1>7. Ran(s, O, tight, ext, clusters, stamp, run)
    BY <1>2, <1>6 DEF Ran
  <1>8. QED
    BY <1>7

(* Unless it runs out of clusters it leaves a list with all of them at its *)
(* start.                                                                  *)
LEMMA ResizeKept ==
  ASSUME NEW s, Sound(s), NEW O, NEW tight \in BOOLEAN, NEW ext \in ExtentLists, Compact(ext),
         Held(s.disk[CBmp], ext, O), tight => Exact(s.disk[CBmp], ext, O),
         NEW clusters \in Nat, NEW stamp \in Stamps \cup {<<>>}
  PROVE  /\ Kept(s, O, tight, Resize(s, ext, clusters, stamp))
         /\ Shaped(Resize(s, ext, clusters, stamp), Extents)
  <1>1. PICK run : Ran(s, O, tight, ext, clusters, stamp, run)
    BY ResizeRun
  <1>2. Extents \in 0..Extents
    BY AtufsAssumption
  <1>3. QED
    BY <1>1, <1>2 DEF Ran

-----------------------------------------------------------------------------
LEMMA NothingHeld ==
  /\ NoExtents \in ExtentLists /\ Compact(NoExtents) /\ InVolume(NoExtents)
  /\ \A i \in 1..Extents : Cells(NoExtents[i]) = {}
  /\ CellsFrom(NoExtents, 1, Extents) = {}
  <1>1. NoExtent \in Extent /\ NoExtent.many = 0
    BY DEF NoExtent, Extent
  <1>2. Cells(NoExtent) = {}
    BY <1>1, CellsCounted
  <1>3. \A i \in 1..Extents : NoExtents[i] = NoExtent
    BY DEF NoExtents
  <1>4. NoExtents \in ExtentLists
    BY <1>1 DEF NoExtents, ExtentLists
  <1>5. QED
    BY <1>1, <1>2, <1>3, <1>4 DEF Compact, InVolume, CellsFrom

(* A file gives up all it has.                                             *)
LEMMA HeldNone ==
  ASSUME NEW ext, NEW O, NEW bits, Held(bits, ext, O)
  PROVE  LET rest == bits \ CellsFrom(ext, 1, Extents)
         IN  /\ Held(rest, NoExtents, O)
             /\ Exact(bits, ext, O) => Exact(rest, NoExtents, O)
  <1> DEFINE rest == bits \ CellsFrom(ext, 1, Extents)
  <1>1. \A c \in rest : c \in bits /\ c \notin CellsFrom(ext, 1, Extents)
    OBVIOUS
  <1>2. O \subseteq rest
    BY DEF Held, CellsFrom
  <1> HIDE DEF rest
  <1>3. Held(rest, NoExtents, O)
    BY <1>2, NothingHeld DEF Held, SlotsApart
  <1>4. ASSUME Exact(bits, ext, O) PROVE Exact(rest, NoExtents, O)
    BY <1>1, <1>4 DEF Exact
  <1>5. QED
    BY <1>3, <1>4 DEF rest

(* More clusters are marked, none for the file.                            *)
LEMMA HeldMore ==
  ASSUME NEW ext, NEW O, NEW bits, NEW more, Held(bits, ext, O), bits \subseteq more
  PROVE  Held(more, ext, O)
  BY DEF Held

LEMMA HeldInVolume ==
  ASSUME NEW s, Sound(s), NEW ext, NEW O, Held(s.disk[CBmp], ext, O)
  PROVE  InVolume(ext)
  BY BitsFinite DEF Held, InVolume

(* An inode is written.                                                    *)
InodeIs(s, f, n, t) ==
    /\ Sound(t) /\ t.disk[CBmp] = s.disk[CBmp] /\ t.disk[FBmp] = s.disk[FBmp]
    /\ t.disk[Inode(f)] = n
    /\ \A g \in FileNumbers \ {f} : t.disk[Inode(g)] = s.disk[Inode(g)]

LEMMA InodeSound ==
  ASSUME NEW s, Sound(s), NEW f \in FileNumbers, NEW n \in Inodes
  PROVE  InodeIs(s, f, n, Write(s, Inode(f), n))
  <1> DEFINE t == Write(s, Inode(f), n)
  <1>1. [at |-> Inode(f), is |-> n] \in Writes
    BY DEF Writes
  <1>2. Safe(s)
    BY DEF Sound
  <1>3. /\ Safe(t) /\ t.info = s.info
        /\ \A a \in Addresses : t.disk[a] = IF a = Inode(f) THEN n ELSE s.disk[a]
    BY <1>1, <1>2, WriteSafe
  <1> HIDE DEF t
  <1>4. /\ t.disk[Info] = s.disk[Info] /\ t.disk[CBmp] = s.disk[CBmp]
        /\ t.disk[FBmp] = s.disk[FBmp] /\ t.disk[Inode(f)] = n
        /\ \A g \in FileNumbers \ {f} : t.disk[Inode(g)] = s.disk[Inode(g)]
    BY <1>3, AddressesApart
  <1>5. Counted(t.disk, t.info)
    BY <1>3, <1>4 DEF Sound, Counted
  <1>6. QED
    BY <1>3, <1>4, <1>5 DEF InodeIs, Sound, t

(* What a write to file f has done, from s to r: the file has what its     *)
(* inode names, or the write ran short and left the inode as it was.       *)
Wrote(s, f, O, tight, r) ==
    /\ Sound(r.s) /\ r.s.disk[FBmp] = s.disk[FBmp]
    /\ \A g \in FileNumbers \ {f} : r.s.disk[Inode(g)] = s.disk[Inode(g)]
    /\ \/ /\ Held(r.s.disk[CBmp], r.s.disk[Inode(f)].ext, O)
          /\ tight => Exact(r.s.disk[CBmp], r.s.disk[Inode(f)].ext, O)
       \/ /\ r.s.disk[Inode(f)] = s.disk[Inode(f)]
          /\ s.disk[CBmp] \subseteq r.s.disk[CBmp]
          /\ r.short

LEMMA InodeWritten ==
  ASSUME NEW s, NEW f \in FileNumbers, NEW O, NEW tight \in BOOLEAN,
         NEW t, Sound(t), SameFiles(s, t), NEW n \in Inodes,
         Held(t.disk[CBmp], n.ext, O), tight => Exact(t.disk[CBmp], n.ext, O),
         NEW r, r.s = Write(t, Inode(f), n)
  PROVE  Wrote(s, f, O, tight, r)
  <1> DEFINE u == Write(t, Inode(f), n)
  <1>1. InodeIs(t, f, n, u)
    BY InodeSound
  <1> HIDE DEF u
  <1>2. /\ Sound(u) /\ u.disk[CBmp] = t.disk[CBmp] /\ u.disk[FBmp] = s.disk[FBmp]
        /\ u.disk[Inode(f)] = n
        /\ \A g \in FileNumbers \ {f} : u.disk[Inode(g)] = s.disk[Inode(g)]
    BY <1>1 DEF InodeIs, SameFiles
  <1>3. r.s = u
    BY DEF u
  <1>4. QED
    BY <1>2, <1>3 DEF Wrote

(* write_file, given an inode of which the file has the clusters.          *)
LEMMA WriteFileSound ==
  ASSUME NEW s, Sound(s), NEW f \in FileNumbers, NEW inode \in Inodes,
         NEW O, NEW tight \in BOOLEAN, Held(s.disk[CBmp], inode.ext, O),
         tight => Exact(s.disk[CBmp], inode.ext, O),
         NEW size \in Nat, NEW stamp \in Stamps
  PROVE  Wrote(s, f, O, tight, write_file(s, f, inode, size, stamp))
  <1> DEFINE ext == IF inode.large THEN inode.ext ELSE NoExtents
             own == inode.ext
             large(e) == [large |-> TRUE, size |-> size, ext |-> e, inline |-> <<>>]
             small == [large |-> FALSE, size |-> size, ext |-> NoExtents, inline |-> stamp]
             bits == s.disk[CBmp]
             r == write_file(s, f, inode, size, stamp)
  <1>1. /\ ext = own /\ own \in ExtentLists /\ Compact(own)
        /\ stamp \in Stamps \cup {<<>>}
    BY DEF Inodes, InodeRecords, Trim
  <1>2. Held(bits, own, O) /\ (tight => Exact(bits, own, O))
    OBVIOUS
  <1>3. small \in Inodes
    BY NothingHeld DEF Inodes, InodeRecords, Trim
  <1>4. ASSUME size > InlineMax, NEW e \in ExtentLists, Compact(e), InVolume(e)
        PROVE  large(e) \in Inodes
    <2>1. InlineMax \in Nat
      BY AtufsAssumption
    <2>2. ~(size <= InlineMax)
      BY <1>4, <2>1
    <2>3. QED
      BY <1>4, <2>2 DEF Inodes, InodeRecords, Trim
  <1>5. InlineMax \in Nat /\ Extents \in Nat
    BY AtufsAssumption
  <1> HIDE DEF ext, own, large, small, bits
  <1>6. CASE size <= InlineMax
    <2> DEFINE t == ClearSlots(s, own, 1, Extents)
    <2>1. r.s = Write(t, Inode(f), small)
      <3>1. ~SameNeed(inode, size)
        BY <1>5, <1>6 DEF SameNeed
      <3>2. QED
        BY <1>1, <1>6, <3>1 DEF write_file, ext, small
    <2>2. Freed(s, t, CellsFrom(own, 1, Extents))
      <3> DEFINE from == 1
      <3>1. from \in 1..(Extents + 1) /\ Extents \in 0..Extents /\ from - 1 <= Extents
        BY <1>5
      <3>2. SlotsApart(own) /\ \A j \in from..Extents : Cells(own[j]) \subseteq s.disk[CBmp]
        BY <1>2 DEF Held, bits
      <3> HIDE DEF from
      <3>3. Freed(s, ClearSlots(s, own, from, Extents), CellsFrom(own, from, Extents))
        BY <1>1, <3>1, <3>2, ClearSlotsSound, Zenon
      <3>4. QED
        BY <3>3 DEF from
    <2> HIDE DEF t, r
    <2>3. Sound(t) /\ SameFiles(s, t) /\ t.disk[CBmp] = bits \ CellsFrom(own, 1, Extents)
      BY <2>2 DEF Freed, bits
    <2>4. /\ Held(t.disk[CBmp], NoExtents, O)
          /\ tight => Exact(t.disk[CBmp], NoExtents, O)
      BY <1>2, <2>3, HeldNone
    <2>5. small.ext = NoExtents
      BY DEF small
    <2>6. Wrote(s, f, O, tight, r)
      BY <1>3, <2>1, <2>3, <2>4, <2>5, InodeWritten, Zenon
    <2>7. QED
      BY <2>6 DEF r
  <1>7. CASE SameNeed(inode, size)
    <2> DEFINE t == Rewrite(s, own, stamp)
    <2>1. size > InlineMax /\ ~(size <= InlineMax)
      BY <1>5, <1>7 DEF SameNeed
    <2>2. r.s = Write(t, Inode(f), large(own))
      BY <1>1, <1>7, <2>1 DEF write_file, ext, large
    <2>3. InVolume(own)
      BY <1>2, HeldInVolume DEF bits
    <2>4. Sound(t) /\ SameFiles(s, t) /\ t.disk[CBmp] = bits
      BY <1>1, <2>3, RewriteSound DEF bits
    <2>5. large(own) \in Inodes /\ large(own).ext = own
      BY <1>1, <1>4, <2>1, <2>3 DEF large
    <2> HIDE DEF t, r
    <2> DEFINE n == large(own)
    <2>6. Held(t.disk[CBmp], n.ext, O) /\ (tight => Exact(t.disk[CBmp], n.ext, O))
      BY <1>2, <2>4, <2>5
    <2> HIDE DEF n
    <2>7. Wrote(s, f, O, tight, r)
      BY <2>2, <2>4, <2>5, <2>6, InodeWritten, Zenon DEF n
    <2>8. QED
      BY <2>7 DEF r
  <1>8. CASE size > InlineMax /\ ~SameNeed(inode, size)
    <2> DEFINE w == Resize(s, own, Need(size), stamp)
               n == large(w.ext)
    <2>1. ~(size <= InlineMax)
      BY <1>5, <1>8
    <2>2. r = [s |-> IF w.loop = "full" THEN w.s ELSE Write(w.s, Inode(f), n),
               short |-> w.left > 0]
      BY <1>1, <1>8, <2>1 DEF write_file, ext, large
    <2>3. Need(size) \in Nat
      <3>1. ClusterBytes \in Nat \ {0}
        BY AtufsAssumption
      <3>2. size + ClusterBytes - 1 \in Nat
        BY <3>1
      <3>3. QED
        BY <3>1, <3>2 DEF Need
    <2>4. Kept(s, O, tight, w) /\ Shaped(w, Extents)
      BY <1>1, <1>2, <2>3, ResizeKept DEF bits
    <2> HIDE DEF w, n, r
    <2>5. /\ Sound(w.s) /\ SameFiles(s, w.s) /\ w.ext \in ExtentLists
          /\ Held(w.s.disk[CBmp], w.ext, O) /\ (tight => Exact(w.s.disk[CBmp], w.ext, O))
          /\ w.left > 0 => bits \subseteq w.s.disk[CBmp]
      BY <2>4 DEF Kept, bits
    <2>6. CASE w.loop = "full"
      <3>1. w.left > 0
        BY <2>4, <2>6 DEF Shaped
      <3>2. r.s = w.s /\ r.short
        BY <2>2, <2>6, <3>1
      <3>3. QED
        BY <2>5, <3>1, <3>2 DEF Wrote, SameFiles, r, bits
    <2>7. CASE w.loop # "full"
      <3>1. Compact(w.ext)
        BY <2>4, <2>7 DEF Shaped, Compact, CompactFrom
      <3>2. InVolume(w.ext)
        BY <2>5, HeldInVolume
      <3>3. n \in Inodes /\ n.ext = w.ext
        BY <1>4, <1>8, <2>5, <3>1, <3>2 DEF n, large
      <3>4. Held(w.s.disk[CBmp], n.ext, O) /\ (tight => Exact(w.s.disk[CBmp], n.ext, O))
        BY <2>5, <3>3
      <3>5. r.s = Write(w.s, Inode(f), n)
        BY <2>2, <2>7
      <3>6. Wrote(s, f, O, tight, r)
        BY <2>5, <3>3, <3>4, <3>5, InodeWritten, Zenon
      <3>7. QED
        BY <3>6 DEF r
    <2>8. QED
      BY <2>6, <2>7
  <1>9. QED
    BY <1>5, <1>6, <1>7, <1>8

-----------------------------------------------------------------------------
(* The bits of the files are in the order of the files, and no bit comes   *)
(* before its file.                                                        *)
LEMMA BitsInOrder ==
  /\ \A i \in FileNumbers : BitOf(i) \in 0..BitOf(Files - 1) /\ BitOf(i) >= i
  /\ BitOf(Files - 1) \in Nat
  <1> DEFINE B == ByteBits
  <1>1. B \in Nat \ {0} /\ Files \in Nat \ {0}
    BY AtufsAssumption
  <1> HIDE DEF B
  <1>2. ASSUME NEW i \in Nat
        PROVE  /\ i \div B \in Nat /\ i % B \in 0..(B - 1) /\ i = B * (i \div B) + (i % B)
    BY <1>1
  <1>3. ASSUME NEW i \in Nat
        PROVE  /\ B * (i \div B) \in Nat /\ BitOf(i) = i + B * (i \div B)
    <2> DEFINE q == i \div B
               r == i % B
    <2>1. q \in Nat /\ r \in 0..(B - 1) /\ i = B * q + r
      BY <1>2
    <2>2. BitOf(i) = 2 * B * q + r
      BY DEF BitOf, B
    <2> HIDE DEF q, r
    <2>3. B * q \in Nat /\ 2 * B * q = 2 * (B * q)
      BY <1>1, <2>1
    <2>4. QED
      BY <2>1, <2>2, <2>3 DEF q
  <1>4. ASSUME NEW i \in Nat, NEW k \in Nat, i <= k
        PROVE  B * (i \div B) <= B * (k \div B)
    <2> DEFINE p == i \div B
               q == k \div B
    <2>1. /\ p \in Nat /\ i = B * p + (i % B) /\ i % B \in 0..(B - 1)
          /\ q \in Nat /\ k = B * q + (k % B) /\ k % B \in 0..(B - 1)
      BY <1>2
    <2> HIDE DEF p, q
    <2>2. p <= q
      <3> SUFFICES ASSUME p >= q + 1 PROVE FALSE
        BY <2>1
      <3>1. B * p >= B * (q + 1) /\ B * (q + 1) = B * q + B
        BY <1>1, <2>1
      <3>2. QED
        BY <1>1, <1>4, <2>1, <3>1
    <2>3. B * p <= B * q
      BY <1>1, <2>1, <2>2
    <2>4. QED
      BY <2>3 DEF p, q
  <1>5. Files - 1 \in Nat /\ \A i \in FileNumbers : i \in Nat /\ i <= Files - 1
    BY <1>1 DEF FileNumbers
  <1>6. ASSUME NEW i \in FileNumbers PROVE BitOf(i) \in 0..BitOf(Files - 1) /\ BitOf(i) >= i
    <2> DEFINE p == B * (i \div B)
               q == B * ((Files - 1) \div B)
               b == BitOf(i)
               c == BitOf(Files - 1)
    <2>1. i \in Nat /\ Files - 1 \in Nat /\ i <= Files - 1
      BY <1>5
    <2>2. p \in Nat /\ q \in Nat /\ p <= q
      BY <1>3, <1>4, <2>1
    <2>3. b = i + p /\ c = (Files - 1) + q
      BY <1>3, <2>1
    <2> HIDE DEF p, q, b, c
    <2>4. b \in 0..c /\ b >= i
      BY <2>1, <2>2, <2>3
    <2>5. QED
      BY <2>4 DEF b, c
  <1>7. BitOf(Files - 1) \in Nat
    BY <1>3, <1>5
  <1>8. QED
    BY <1>6, <1>7

-----------------------------------------------------------------------------
(* The volume as a whole: the clusters that other files than f have, and   *)
(* those of all files.                                                     *)
CellsHeld(v, f) == CellsFrom(v[Inode(f)].ext, 1, Extents)
Others(v, f) == UNION {CellsHeld(v, g) : g \in FileNumbers \ {f}}

Owned(v) == \A f \in FileNumbers : Held(v[CBmp], v[Inode(f)].ext, Others(v, f))
AllUsed(v) == \A f \in FileNumbers : Exact(v[CBmp], v[Inode(f)].ext, Others(v, f))

(* Only one file changes hands with the bitmap.                            *)
Changes(v, u, f) == \A g \in FileNumbers \ {f} : u[Inode(g)] = v[Inode(g)]

LEMMA OthersStay ==
  ASSUME NEW v, NEW u, NEW f \in FileNumbers, Changes(v, u, f)
  PROVE  /\ Others(u, f) = Others(v, f)
         /\ \A g \in FileNumbers \ {f} :
                /\ CellsHeld(u, g) = CellsHeld(v, g) /\ CellsHeld(v, g) \subseteq Others(v, f)
                /\ Others(u, g) \subseteq Others(v, g) \cup CellsHeld(u, f)
                /\ Others(u, g) \subseteq Others(v, f) \cup CellsHeld(u, f)
                /\ Others(v, f) \subseteq Others(u, g) \cup CellsHeld(v, g)
                /\ CellsHeld(u, f) \subseteq Others(u, g)
  <1>1. \A g \in FileNumbers \ {f} : CellsHeld(u, g) = CellsHeld(v, g)
    BY DEF Changes, CellsHeld
  <1>2. QED
    BY <1>1 DEF Others

LEMMA OwnedAgain ==
  ASSUME NEW v, NEW u, NEW f \in FileNumbers, Owned(v), Changes(v, u, f),
         Held(u[CBmp], u[Inode(f)].ext, Others(v, f))
  PROVE  Owned(u)
  <1> DEFINE bits == u[CBmp]
             O == Others(v, f)
             mine == CellsHeld(u, f)
  <1>1. O \subseteq bits /\ mine \subseteq bits /\ mine \cap O = {}
    BY DEF Held, CellsHeld, CellsFrom
  <1>2. Others(u, f) = O
    BY OthersStay
  <1>3. ASSUME NEW g \in FileNumbers, g # f PROVE Held(bits, u[Inode(g)].ext, Others(u, g))
    <2> DEFINE ext == v[Inode(g)].ext
    <2>1. u[Inode(g)].ext = ext
      BY <1>3 DEF Changes
    <2>2. /\ CellsHeld(v, g) \subseteq O
          /\ Others(u, g) \subseteq Others(v, g) \cup mine
          /\ Others(u, g) \subseteq O \cup mine
      BY <1>3, OthersStay
    <2>3. Held(v[CBmp], ext, Others(v, g))
      BY DEF Owned
    <2>4. \A i \in 1..Extents : Cells(ext[i]) \subseteq CellsHeld(v, g)
      BY DEF CellsHeld, CellsFrom
    <2> HIDE DEF ext, O, mine, bits
    <2>5. \A i \in 1..Extents : Cells(ext[i]) \cap Others(u, g) = {}
      BY <1>1, <2>2, <2>3, <2>4 DEF Held
    <2>6. \A i \in 1..Extents : Cells(ext[i]) \subseteq bits
      BY <1>1, <2>2, <2>4
    <2>7. Others(u, g) \subseteq bits
      BY <1>1, <2>2
    <2>8. QED
      BY <2>1, <2>3, <2>5, <2>6, <2>7 DEF Held
  <1>4. QED
    BY <1>2, <1>3 DEF Owned

LEMMA AllUsedAgain ==
  ASSUME NEW v, NEW u, NEW f \in FileNumbers, Changes(v, u, f),
         Exact(u[CBmp], u[Inode(f)].ext, Others(v, f))
  PROVE  AllUsed(u)
  <1> DEFINE bits == u[CBmp]
             O == Others(v, f)
             mine == CellsHeld(u, f)
  <1>1. bits \subseteq O \cup mine
    BY DEF Exact, CellsHeld
  <1>2. Others(u, f) = O
    BY OthersStay
  <1>3. ASSUME NEW g \in FileNumbers, g # f PROVE Exact(bits, u[Inode(g)].ext, Others(u, g))
    <2>1. /\ CellsHeld(u, g) = CellsHeld(v, g)
          /\ O \subseteq Others(u, g) \cup CellsHeld(v, g)
          /\ mine \subseteq Others(u, g)
      BY <1>3, OthersStay
    <2> HIDE DEF bits, O, mine
    <2>2. bits \subseteq Others(u, g) \cup CellsHeld(u, g)
      BY <1>1, <2>1
    <2>3. QED
      BY <2>2 DEF Exact, CellsHeld
  <1>4. QED
    BY <1>2, <1>3 DEF AllUsed

-----------------------------------------------------------------------------
(* What is true of a volume that an operation leaves behind: the counters  *)
(* agree, every extent is of one file and marked, nothing else is marked   *)
(* unless a write ran short, files that are not in use have nothing, and   *)
(* the bits of the others are set.                                         *)
Ledger(v, i, inUse, asked, tight) ==
    /\ Volume(v) /\ Counted(v, i) /\ Owned(v)
    /\ tight => AllUsed(v)
    /\ \A f \in FileNumbers \ inUse : v[Inode(f)].ext = NoExtents
    /\ \A f \in inUse : BitOf(f) \in v[FBmp] \/ BitOf(f) \in asked

(* What is left to write leads to such a volume.                           *)
IInv ==
    /\ Volume(disk) /\ info \in Counts /\ todo \in Seq(Writes)
    /\ Root \in live /\ live \subseteq FileNumbers /\ strained \in BOOLEAN
    /\ \E v : Leads(disk, todo, v) /\ Ledger(v, info, live, deleted, ~strained)

(* Between operations that volume is the disk.                             *)
LEMMA IdleLedger ==
  ASSUME IInv, Idle
  PROVE  Ledger(disk, info, live, deleted, ~strained) /\ Sound(Now)
  <1>1. PICK v : Leads(disk, todo, v) /\ Ledger(v, info, live, deleted, ~strained)
    BY DEF IInv
  <1>2. v = disk
    BY <1>1, LeadsDone DEF IInv, Idle, Ledger
  <1>3. Safe(Now)
    <2>1. <<>> \in Seq(Writes) /\ Leads(disk, <<>>, disk)
      BY LeadsNowhere
    <2>2. QED
      BY <2>1 DEF Safe, Now, IInv
  <1>4. QED
    BY <1>1, <1>2, <1>3 DEF Sound, Ledger, Now

(* An operation has been computed.                                         *)
LEMMA Begun ==
  ASSUME IInv, NEW s, Sound(s), Begin(s),
         Root \in live', live' \subseteq FileNumbers, strained' \in BOOLEAN,
         Ledger(s.disk, s.info, live', deleted', ~strained')
  PROVE  IInv'
  <1>1. disk' = disk /\ info' = s.info /\ todo' = s.log
    BY DEF Begin
  <1>2. Volume(disk)' /\ (info \in Counts)' /\ (todo \in Seq(Writes))'
    BY <1>1 DEF IInv, Sound, Safe
  <1>3. Leads(disk', todo', s.disk)
    BY <1>1 DEF Sound, Safe
  <1>4. QED
    BY <1>1, <1>2, <1>3 DEF IInv

LEMMA RewriteStep ==
  ASSUME IInv, NEW f \in live, NEW size \in Sizes, NEW stamp \in Stamps,
         rewrite_file(f, size, stamp)
  PROVE  IInv'
  <1> DEFINE inode == disk[Inode(f)]
             w == write_file(Now, f, inode, size, stamp)
             v == disk
             O == Others(v, f)
  <1>1. Ledger(v, info, live, deleted, ~strained) /\ Sound(Now) /\ Now.disk = v
    BY IdleLedger DEF rewrite_file, Now
  <1>2. /\ f \in FileNumbers /\ size \in Nat /\ inode \in Inodes
        /\ Held(v[CBmp], inode.ext, O) /\ (~strained => Exact(v[CBmp], inode.ext, O))
    <2>1. f \in FileNumbers /\ size \in Nat
      BY InputAssumption DEF IInv
    <2>2. inode \in Inodes
      BY <2>1, VolumeTypes DEF IInv
    <2>3. QED
      BY <1>1, <2>1, <2>2 DEF Ledger, Owned, AllUsed
  <1>3. /\ Begin(w.s) /\ strained' = (strained \/ w.short)
        /\ live' = live /\ deleted' = deleted
    BY DEF rewrite_file
  <1> DEFINE tight == ~strained
  <1>4. Wrote(Now, f, O, tight, w)
    <2>1. tight \in BOOLEAN
      OBVIOUS
    <2>2. Held(Now.disk[CBmp], inode.ext, O) /\ (tight => Exact(Now.disk[CBmp], inode.ext, O))
      BY <1>1, <1>2
    <2> HIDE DEF tight, O, inode, v
    <2>3. QED
      BY <1>1, <1>2, <2>1, <2>2, WriteFileSound
  <1> HIDE DEF w, O, inode
  <1> DEFINE u == w.s.disk
  <1>5. Sound(w.s) /\ u[FBmp] = v[FBmp] /\ Changes(v, u, f)
    BY <1>1, <1>4 DEF Wrote, Changes
  <1>6. Held(u[CBmp], u[Inode(f)].ext, O)
    BY <1>1, <1>2, <1>4, HeldMore DEF Wrote, inode
  <1>7. Owned(u)
    BY <1>1, <1>2, <1>5, <1>6, OwnedAgain DEF Ledger, O
  <1>8. ~strained' => AllUsed(u)
    <2> SUFFICES ASSUME ~strained' PROVE AllUsed(u)
      OBVIOUS
    <2>1. Exact(u[CBmp], u[Inode(f)].ext, O)
      BY <1>3, <1>4 DEF Wrote
    <2>2. QED
      BY <1>2, <1>5, <2>1, AllUsedAgain DEF O
  <1>9. \A g \in FileNumbers \ live' : u[Inode(g)].ext = NoExtents
    BY <1>1, <1>3, <1>5 DEF Ledger, Changes
  <1>10. Volume(u) /\ Counted(u, w.s.info)
    BY <1>5 DEF Sound, Safe
  <1>11. strained' \in BOOLEAN
    BY <1>3
  <1>12. Ledger(u, w.s.info, live', deleted', ~strained')
    BY <1>1, <1>3, <1>5, <1>7, <1>8, <1>9, <1>10 DEF Ledger
  <1>13. QED
    BY <1>3, <1>5, <1>11, <1>12, Begun DEF IInv

LEMMA FileBitsFinite ==
  ASSUME NEW s, Sound(s)
  PROVE  /\ IsFiniteSet(s.disk[FBmp]) /\ Cardinality(s.disk[FBmp]) \in Nat
         /\ s.info.files \in Nat /\ s.info.files + 1 = Cardinality(s.disk[FBmp])
         /\ Root \in s.disk[FBmp]
  <1> DEFINE b == BitOf(Files - 1)
  <1>1. b \in Int /\ 0 \in Int
    BY BitsInOrder
  <1>2. s.disk[FBmp] \in SUBSET (0..b)
    BY BitsFinite
  <1> HIDE DEF b
  <1>3. IsFiniteSet(0..b)
    BY <1>1, FS_Interval
  <1>4. IsFiniteSet(s.disk[FBmp])
    BY <1>2, <1>3, FS_Subset
  <1>5. QED
    BY <1>4, BitsFinite, FS_CardinalityType DEF Sound, Counted, Counts

(* delete_file of a file whose bit is set.                                 *)
Removed(s, f, O, tight, u) ==
    /\ Sound(u) /\ u.disk[FBmp] = s.disk[FBmp] \ {f}
    /\ u.disk[Inode(f)] = NoInode /\ Changes(s.disk, u.disk, f)
    /\ Held(u.disk[CBmp], NoExtents, O)
    /\ tight => Exact(u.disk[CBmp], NoExtents, O)

LEMMA DeleteSound ==
  ASSUME NEW s, Sound(s), NEW f \in FileNumbers, f # Root, f \in s.disk[FBmp],
         NEW O, NEW tight \in BOOLEAN, Held(s.disk[CBmp], s.disk[Inode(f)].ext, O),
         tight => Exact(s.disk[CBmp], s.disk[Inode(f)].ext, O)
  PROVE  Removed(s, f, O, tight, delete_file(s, f))
  <1> DEFINE bits == s.disk[CBmp]
             rest == s.disk[FBmp] \ {f}
             n == s.info.files - 1
             t == SetFiles(s, n, rest)
             inode == t.disk[Inode(f)]
             own == s.disk[Inode(f)]
             u == IF inode.size > InlineMax THEN ClearSlots(t, inode.ext, 1, Leading(inode.ext))
                                            ELSE t
             mine == CellsFrom(own.ext, 1, Extents)
  <1>1. delete_file(s, f) = Write(u, Inode(f), NoInode)
    BY DEF delete_file
  <1>2. /\ own \in Inodes /\ own.ext \in ExtentLists /\ own.size \in Nat
        /\ Compact(own.ext) /\ InVolume(own.ext)
        /\ own.size <= InlineMax => own.ext = NoExtents
    <2>1. own \in Inodes
      BY VolumeTypes DEF Sound, Safe
    <2> HIDE DEF own
    <2>2. QED
      BY <2>1 DEF Inodes, InodeRecords, Trim
  <1>3. /\ n \in Nat /\ n + 1 = Cardinality(rest)
        /\ rest \in SUBSET (0..BitOf(Files - 1)) /\ Root \in rest
    <2>1. /\ s.disk[FBmp] \in SUBSET (0..BitOf(Files - 1)) /\ Root \in s.disk[FBmp]
          /\ s.info.files \in Nat /\ s.info.files + 1 = Cardinality(s.disk[FBmp])
      BY BitsFinite DEF Sound, Counted, Counts
    <2>2. IsFiniteSet(s.disk[FBmp])
      BY FileBitsFinite
    <2>3. Cardinality(rest) = Cardinality(s.disk[FBmp]) - 1 /\ IsFiniteSet(rest)
      BY <2>2, FS_RemoveElement
    <2>4. Root \in rest
      BY <2>1
    <2>5. Cardinality(rest) \in Nat /\ Cardinality(rest) # 0
      BY <2>3, <2>4, FS_CardinalityType, FS_EmptySet
    <2>6. QED
      BY <2>1, <2>3, <2>4, <2>5
  <1> HIDE DEF n, rest
  <1>4. /\ Sound(t) /\ t.disk[FBmp] = rest /\ t.disk[CBmp] = bits
        /\ \A g \in FileNumbers : t.disk[Inode(g)] = s.disk[Inode(g)]
    BY <1>3, SetFilesSound
  <1> HIDE DEF t
  <1>5. inode = own
    BY <1>4
  <1> HIDE DEF inode
  <1>6. SlotsApart(own.ext) /\ \A j \in 1..Extents : Cells(own.ext[j]) \subseteq bits
    BY DEF Held
  <1>7. Freed(t, u, mine)
    <2>1. InlineMax \in Nat /\ Extents \in Nat
      BY AtufsAssumption
    <2>2. CASE own.size > InlineMax
      <3> DEFINE last == Leading(own.ext)
      <3>1. /\ last \in 0..Extents
            /\ \A i \in (last + 1)..Extents : own.ext[i].many = 0
        BY <1>2, LeadingSlots
      <3> HIDE DEF last, own, bits
      <3>2. CellsFrom(own.ext, 1, last) = mine
        <4>1. ASSUME NEW i \in (last + 1)..Extents PROVE Cells(own.ext[i]) = {}
          <5>1. i \in 1..Extents
            BY <2>1, <3>1
          <5>2. own.ext[i] \in Extent /\ own.ext[i].many = 0
            BY <1>2, <3>1, <5>1 DEF ExtentLists
          <5>3. QED
            BY <5>2, CellsCounted
        <4>2. \A i \in 1..Extents : i \in 1..last \/ i \in (last + 1)..Extents
          BY <2>1, <3>1
        <4>3. \A i \in 1..last : i \in 1..Extents
          BY <2>1, <3>1
        <4>4. QED
          BY <4>1, <4>2, <4>3 DEF CellsFrom
      <3>3. u = ClearSlots(t, own.ext, 1, last)
        BY <1>5, <2>2 DEF last
      <3> DEFINE from == 1
                 ext == own.ext
      <3>4. /\ from \in 1..(Extents + 1) /\ from - 1 <= last
            /\ \A j \in from..last : Cells(ext[j]) \subseteq t.disk[CBmp]
            /\ SlotsApart(ext) /\ ext \in ExtentLists
        BY <1>2, <1>4, <1>6, <2>1, <3>1
      <3> HIDE DEF from, ext, u
      <3>5. Freed(t, ClearSlots(t, ext, from, last), CellsFrom(ext, from, last))
        BY <1>4, <3>1, <3>4, ClearSlotsSound, Zenon
      <3>6. QED
        BY <3>2, <3>3, <3>5 DEF from, ext
    <2>3. CASE ~(own.size > InlineMax)
      <3>1. own.ext = NoExtents
        BY <1>2, <2>1, <2>3
      <3>2. mine = {}
        BY <3>1, NothingHeld
      <3>3. u = t
        BY <1>5, <2>3
      <3> HIDE DEF u, mine, own
      <3>4. QED
        BY <1>4, <3>2, <3>3 DEF Freed, SameFiles
    <2>4. QED
      BY <2>2, <2>3
  <1> HIDE DEF u, own
  <1>8. NoInode \in Inodes
    BY NothingHeld DEF NoInode, Inodes, InodeRecords, Trim
  <1> DEFINE x == Write(u, Inode(f), NoInode)
  <1>9. InodeIs(u, f, NoInode, x)
    BY <1>7, <1>8, InodeSound DEF Freed
  <1> HIDE DEF x
  <1>10. Sound(x) /\ x.disk[FBmp] = rest /\ x.disk[Inode(f)] = NoInode /\ x.disk[CBmp] = bits \ mine
    BY <1>4, <1>7, <1>9 DEF InodeIs, Freed, SameFiles
  <1>11. Changes(s.disk, x.disk, f)
    BY <1>4, <1>7, <1>9 DEF InodeIs, Freed, SameFiles, Changes
  <1>12. /\ Held(bits \ mine, NoExtents, O)
         /\ tight => Exact(bits \ mine, NoExtents, O)
    BY HeldNone DEF own
  <1>13. QED
    BY <1>1, <1>10, <1>11, <1>12 DEF Removed, x, rest

LEMMA RemoveStep ==
  ASSUME IInv, NEW f \in live \ {Root}, remove_file(f)
  PROVE  IInv'
  <1>1. /\ Ledger(disk, info, live, deleted, ~strained) /\ Sound(Now)
        /\ Now.disk = disk /\ Now.info = info
    BY IdleLedger DEF remove_file, Now
  <1>2. f \in FileNumbers /\ f # Root
    BY DEF IInv
  <1>3. deleted' = deleted \cup {f} /\ strained' = strained
    BY DEF remove_file
  <1>4. CASE f \in disk[FBmp] /\ Begin(delete_file(Now, f)) /\ live' = live \ {f}
    <2> DEFINE v == disk
               u == delete_file(Now, f)
               ext == v[Inode(f)].ext
               O == Others(v, f)
               tight == ~strained
    <2>1. Held(v[CBmp], ext, O) /\ (tight => Exact(v[CBmp], ext, O))
      BY <1>1, <1>2 DEF Ledger, Owned, AllUsed
    <2>2. Removed(Now, f, O, tight, u)
      <3>1. /\ Held(Now.disk[CBmp], Now.disk[Inode(f)].ext, O) /\ f \in Now.disk[FBmp]
            /\ tight => Exact(Now.disk[CBmp], Now.disk[Inode(f)].ext, O)
        BY <1>1, <1>4, <2>1
      <3>2. tight \in BOOLEAN
        OBVIOUS
      <3> HIDE DEF tight, O
      <3>3. QED
        BY <1>1, <1>2, <3>1, <3>2, DeleteSound
    <2> HIDE DEF u, O
    <2> DEFINE d == u.disk
    <2>3. /\ Sound(u) /\ d[FBmp] = v[FBmp] \ {f} /\ d[Inode(f)].ext = NoExtents
          /\ Changes(v, d, f) /\ Held(d[CBmp], d[Inode(f)].ext, O)
          /\ tight => Exact(d[CBmp], d[Inode(f)].ext, O)
      BY <1>1, <2>2 DEF Removed, NoInode
    <2>4. Owned(d)
      BY <1>1, <1>2, <2>3, OwnedAgain DEF Ledger, O
    <2>5. ~strained' => AllUsed(d)
      BY <1>2, <1>3, <2>3, AllUsedAgain DEF O
    <2>6. \A g \in FileNumbers \ live' : d[Inode(g)].ext = NoExtents
      BY <1>1, <1>4, <2>3 DEF Ledger, Changes
    <2>7. \A g \in live' : BitOf(g) \in d[FBmp] \/ BitOf(g) \in deleted'
      BY <1>1, <1>3, <1>4, <2>3 DEF Ledger
    <2>8. Volume(d) /\ Counted(d, u.info)
      BY <2>3 DEF Sound, Safe
    <2>9. Ledger(d, u.info, live', deleted', ~strained')
      BY <2>4, <2>5, <2>6, <2>7, <2>8 DEF Ledger
    <2>10. Root \in live' /\ live' \subseteq FileNumbers /\ strained' \in BOOLEAN
      BY <1>2, <1>3, <1>4 DEF IInv
    <2>11. QED
      BY <1>4, <2>3, <2>9, <2>10, Begun DEF u
  <1>5. CASE UNCHANGED <<disk, info, todo, live>>
    <2>1. PICK v : Leads(disk, todo, v) /\ Ledger(v, info, live, deleted, ~strained)
      BY DEF IInv
    <2>2. Ledger(v, info', live', deleted', ~strained')
      BY <1>3, <1>5, <2>1 DEF Ledger
    <2>3. Leads(disk', todo', v)
      BY <1>5, <2>1
    <2>4. QED
      BY <1>3, <1>5, <2>2, <2>3 DEF IInv
  <1>6. QED
    BY <1>4, <1>5 DEF remove_file, diskVars

(* alocate_file, on a volume that has a file left.                         *)
LEMMA AlocateFileSound ==
  ASSUME NEW s, Sound(s), FreeFiles(s) # {}
  PROVE  LET a == alocate_file(s)
         IN  /\ a.file \in FileNumbers /\ BitOf(a.file) \notin s.disk[FBmp]
             /\ \A g \in FileNumbers : g < a.file => BitOf(g) \in s.disk[FBmp]
             /\ Sound(a.s) /\ a.s.disk[FBmp] = s.disk[FBmp] \cup {BitOf(a.file)}
             /\ a.s.disk[CBmp] = s.disk[CBmp]
             /\ \A g \in FileNumbers : a.s.disk[Inode(g)] = s.disk[Inode(g)]
  <1> DEFINE i == Min(FreeFiles(s))
             n == s.info.files + 1
             bits == s.disk[FBmp] \cup {BitOf(i)}
             t == SetFiles(s, n, bits)
  <1>1. FreeFiles(s) \in SUBSET Nat
    BY AtufsAssumption DEF FreeFiles
  <1>2. i \in FreeFiles(s) /\ \A g \in FreeFiles(s) : i <= g
    BY <1>1, Smallest
  <1>3. /\ i \in FileNumbers /\ i \in Nat /\ BitOf(i) \notin s.disk[FBmp]
        /\ \A g \in FileNumbers : g < i => BitOf(g) \in s.disk[FBmp]
    <2>1. i \in FileNumbers /\ i \in Nat /\ BitOf(i) \notin s.disk[FBmp]
      BY <1>1, <1>2 DEF FreeFiles, FileNumbers
    <2>2. ASSUME NEW g \in FileNumbers, g < i PROVE BitOf(g) \in s.disk[FBmp]
      <3>1. g \notin FreeFiles(s)
        BY <1>2, <2>1, <2>2 DEF FileNumbers
      <3>2. QED
        BY <3>1 DEF FreeFiles, FileNumbers
    <2>3. QED
      BY <2>1, <2>2
  <1> DEFINE b == BitOf(i)
  <1> HIDE DEF i
  <1>4. /\ n \in Nat /\ n + 1 = Cardinality(bits)
        /\ bits \in SUBSET (0..BitOf(Files - 1)) /\ Root \in bits
    <2>1. /\ IsFiniteSet(s.disk[FBmp]) /\ Root \in s.disk[FBmp] /\ s.info.files \in Nat
          /\ s.info.files + 1 = Cardinality(s.disk[FBmp])
      BY FileBitsFinite
    <2>2. Cardinality(bits) = Cardinality(s.disk[FBmp]) + 1
      BY <1>3, <2>1, FS_AddElement
    <2>3. s.disk[FBmp] \in SUBSET (0..BitOf(Files - 1)) /\ BitOf(i) \in 0..BitOf(Files - 1)
      BY <1>3, BitsFinite, BitsInOrder
    <2>4. QED
      BY <2>1, <2>2, <2>3
  <1>5. alocate_file(s) = [s |-> t, file |-> i]
    BY DEF alocate_file, i
  <1> HIDE DEF n, bits
  <1>6. /\ Sound(t) /\ t.disk[FBmp] = bits /\ t.disk[CBmp] = s.disk[CBmp]
        /\ \A g \in FileNumbers : t.disk[Inode(g)] = s.disk[Inode(g)]
    BY <1>4, SetFilesSound
  <1> HIDE DEF t
  <1>7. QED
    BY <1>3, <1>5, <1>6 DEF bits

LEMMA CreateStep ==
  ASSUME IInv, NEW size \in Sizes, NEW stamp \in Stamps, create_file(size, stamp)
  PROVE  IInv'
  <1> DEFINE c == create(Now, size, stamp)
             a == alocate_file(Now)
             f == a.file
             fresh == [NoInode EXCEPT !.large = size > InlineMax]
             w == write_file(a.s, f, fresh, size, stamp)
             v == disk
             O == Others(v, f)
             tight == ~strained /\ f \notin live
  <1>1. Ledger(v, info, live, deleted, ~strained) /\ Sound(Now) /\ Now.disk = v
    BY IdleLedger DEF create_file, Now
  <1>2. FreeFiles(Now) # {}
    BY DEF create_file, create
  <1>3. c.s = w.s /\ c.file = f /\ c.short = w.short
    BY <1>2 DEF create
  <1>4. /\ Begin(w.s) /\ live' = live \cup {f} /\ deleted' = deleted \ {f}
        /\ strained' = (strained \/ w.short \/ f \in live)
    <2> HIDE DEF w, f, a
    <2>1. /\ Begin(c.s) /\ live' = live \cup {c.file} /\ deleted' = deleted \ {c.file}
          /\ strained' = (strained \/ c.short \/ c.file \in live)
      BY DEF create_file
    <2> HIDE DEF c
    <2>2. QED
      BY <1>3, <2>1
  <1>5. /\ f \in FileNumbers /\ BitOf(f) \notin v[FBmp]
        /\ \A g \in FileNumbers : g < f => BitOf(g) \in v[FBmp]
        /\ Sound(a.s) /\ a.s.disk[FBmp] = v[FBmp] \cup {BitOf(f)}
        /\ a.s.disk[CBmp] = v[CBmp]
        /\ \A g \in FileNumbers : a.s.disk[Inode(g)] = v[Inode(g)]
    BY <1>1, <1>2, AlocateFileSound
  <1> HIDE DEF a, f, c
  <1>6. size \in Nat /\ InlineMax \in Nat
    BY InputAssumption, AtufsAssumption
  <1>7. fresh \in Inodes /\ fresh.ext = NoExtents
    <2>1. fresh = [large |-> size > InlineMax, size |-> 0, ext |-> NoExtents, inline |-> <<>>]
      BY DEF NoInode
    <2> HIDE DEF fresh
    <2>2. fresh \in InodeRecords /\ fresh.ext = NoExtents
      BY <2>1, NothingHeld DEF InodeRecords
    <2>3. QED
      BY <2>2, NothingHeld DEF Inodes, Trim
  <1>8. Held(v[CBmp], v[Inode(f)].ext, O)
    BY <1>1, <1>5 DEF Ledger, Owned
  <1>9. Held(v[CBmp], NoExtents, O)
    BY <1>8, NothingHeld DEF Held, SlotsApart
  <1>10. tight => Exact(v[CBmp], NoExtents, O)
    <2> SUFFICES ASSUME ~strained, f \notin live PROVE Exact(v[CBmp], NoExtents, O)
      OBVIOUS
    <2>1. v[Inode(f)].ext = NoExtents
      BY <1>1, <1>5 DEF Ledger
    <2>2. Exact(v[CBmp], v[Inode(f)].ext, O)
      BY <1>1, <1>5 DEF Ledger, AllUsed
    <2>3. QED
      BY <2>1, <2>2
  <1>11. Wrote(a.s, f, O, tight, w)
    <2>1. tight \in BOOLEAN
      OBVIOUS
    <2>2. Held(a.s.disk[CBmp], fresh.ext, O) /\ (tight => Exact(a.s.disk[CBmp], fresh.ext, O))
      BY <1>5, <1>7, <1>9, <1>10
    <2> HIDE DEF tight, O, fresh, v
    <2>3. QED
      BY <1>5, <1>6, <1>7, <2>1, <2>2, WriteFileSound
  <1> HIDE DEF w, O, fresh
  <1> DEFINE u == w.s.disk
  <1>12. Sound(w.s) /\ u[FBmp] = v[FBmp] \cup {BitOf(f)} /\ Changes(v, u, f)
    BY <1>5, <1>11 DEF Wrote, Changes
  <1>13. Held(u[CBmp], u[Inode(f)].ext, O)
    BY <1>5, <1>8, <1>11, HeldMore DEF Wrote
  <1>14. Owned(u)
    BY <1>1, <1>5, <1>12, <1>13, OwnedAgain DEF Ledger, O
  <1>15. ~strained' => AllUsed(u)
    <2> SUFFICES ASSUME ~strained' PROVE AllUsed(u)
      OBVIOUS
    <2>1. tight /\ ~w.short
      BY <1>4
    <2>2. Exact(u[CBmp], u[Inode(f)].ext, O)
      BY <1>11, <2>1 DEF Wrote
    <2>3. QED
      BY <1>5, <1>12, <2>2, AllUsedAgain DEF O
  <1>16. \A g \in FileNumbers \ live' : u[Inode(g)].ext = NoExtents
    BY <1>1, <1>4, <1>12 DEF Ledger, Changes
  <1>17. \A g \in live' : BitOf(g) \in u[FBmp] \/ BitOf(g) \in deleted'
    <2> SUFFICES ASSUME NEW g \in live, BitOf(g) = f, g # f PROVE BitOf(g) \in v[FBmp]
      BY <1>1, <1>4, <1>12 DEF Ledger
    <2>1. g \in FileNumbers /\ g \in Int /\ f \in Int
      BY <1>5 DEF IInv, FileNumbers
    <2>2. g <= f
      BY <2>1, BitsInOrder
    <2>3. QED
      BY <1>5, <2>1, <2>2
  <1>18. Volume(u) /\ Counted(u, w.s.info)
    BY <1>12 DEF Sound, Safe
  <1>19. strained' \in BOOLEAN /\ Root \in live' /\ live' \subseteq FileNumbers
    BY <1>4, <1>5 DEF IInv
  <1>20. Ledger(u, w.s.info, live', deleted', ~strained')
    BY <1>14, <1>15, <1>16, <1>17, <1>18 DEF Ledger
  <1>21. QED
    BY <1>4, <1>12, <1>19, <1>20, Begun

LEMMA FlushStep ==
  ASSUME IInv, FlushSector, UNCHANGED history
  PROVE  IInv'
  <1> DEFINE r == Head(todo)
             d == [disk EXCEPT ![r.at] = r.is]
  <1>1. PICK v : Leads(disk, todo, v) /\ Ledger(v, info, live, deleted, ~strained)
    BY DEF IInv
  <1>2. todo \in Seq(Writes) /\ todo # <<>> /\ Volume(disk)
    BY DEF IInv, FlushSector, Idle
  <1>3. disk' = d /\ todo' = Tail(todo) /\ info' = info
    BY DEF FlushSector
  <1>4. Leads(d, Tail(todo), v)
    BY <1>1, <1>2, LeadsFlush
  <1>5. r \in Writes /\ Tail(todo) \in Seq(Writes)
    BY <1>2
  <1> HIDE DEF r
  <1>6. Volume(d)
    BY <1>2, <1>5, VolumeWritten
  <1> HIDE DEF d
  <1>7. QED
    BY <1>1, <1>3, <1>4, <1>5, <1>6 DEF IInv, history

LEMMA InitLedger ==
  ASSUME Init PROVE IInv
  <1>1. /\ disk = NewVolume /\ info = disk[Info] /\ todo = <<>>
        /\ live = {Root} /\ deleted = {} /\ strained = FALSE
    BY DEF Init, DiskInit
  <1>2. /\ disk = [a \in Addresses |-> disk[a]]
        /\ disk[Info] = [files |-> 0, clusters |-> 0]
        /\ disk[FBmp] = {Root} /\ disk[CBmp] = {}
        /\ \A f \in FileNumbers : disk[Inode(f)] = NoInode
        /\ \A c \in ClusterNumbers : disk[Data(c)] = <<(<<>>), 0>>
    <2>1. /\ Info[1] # "inode" /\ FBmp[1] # "inode" /\ CBmp[1] # "inode"
          /\ \A f \in FileNumbers : Inode(f)[1] = "inode"
          /\ \A c \in ClusterNumbers : Data(c)[1] # "inode"
      BY DEF Info, FBmp, CBmp, Inode, Data
    <2>2. disk = [a \in Addresses |-> disk[a]]
      BY <1>1 DEF NewVolume
    <2>3. disk[Info] = [files |-> 0, clusters |-> 0]
      BY <1>1, <2>1, AddressesApart DEF NewVolume
    <2>4. disk[FBmp] = {Root}
      BY <1>1, <2>1, AddressesApart DEF NewVolume
    <2>5. disk[CBmp] = {}
      BY <1>1, <2>1, AddressesApart DEF NewVolume
    <2>6. \A f \in FileNumbers : disk[Inode(f)] = NoInode
      BY <1>1, <2>1, AddressesApart DEF NewVolume
    <2>7. \A c \in ClusterNumbers : disk[Data(c)] = <<(<<>>), 0>>
      BY <1>1, <2>1, AddressesApart DEF NewVolume
    <2>8. QED
      BY <2>2, <2>3, <2>4, <2>5, <2>6, <2>7
  <1>3. Root \in FileNumbers /\ Root \in 0..BitOf(Files - 1) /\ BitOf(Root) = Root
    <2>1. Files \in Nat \ {0} /\ ByteBits \in Nat \ {0}
      BY AtufsAssumption
    <2>2. 0 \div ByteBits = 0 /\ 0 % ByteBits = 0
      BY <2>1
    <2>3. BitOf(Root) = Root
      BY <2>1, <2>2 DEF BitOf, Root
    <2>4. QED
      BY <2>1, <2>3, BitsInOrder DEF FileNumbers, Root
  <1>4. NoInode \in Inodes /\ NoInode.ext = NoExtents
    BY NothingHeld DEF NoInode, Inodes, InodeRecords, Trim
  <1>5. Volume(disk)
    <2>1. ASSUME NEW a \in Addresses PROVE [at |-> a, is |-> disk[a]] \in Writes
      <3>1. CASE a = Info
        BY <1>2, <3>1 DEF Writes, Counts
      <3>2. CASE a = FBmp
        BY <1>2, <1>3, <3>2 DEF Writes
      <3>3. CASE a = CBmp
        BY <1>2, <3>3 DEF Writes
      <3>4. CASE \E f \in FileNumbers : a = Inode(f)
        BY <1>2, <1>4, <3>4 DEF Writes
      <3>5. CASE \E c \in ClusterNumbers : a = Data(c)
        <4>1. <<(<<>>), 0>> \in Parts
          BY DEF Parts
        <4>2. QED
          BY <1>2, <3>5, <4>1 DEF Writes
      <3>6. QED
        BY <3>1, <3>2, <3>3, <3>4, <3>5, AddressesApart
    <2>2. QED
      BY <1>2, <2>1 DEF Volume
  <1>6. Counted(disk, info)
    <2>1. Cardinality({}) = 0 /\ Cardinality({Root}) = 1
      BY FS_EmptySet, FS_Singleton
    <2>2. info = [files |-> 0, clusters |-> 0]
      BY <1>1, <1>2
    <2>3. Cardinality(disk[CBmp]) = 0 /\ Cardinality(disk[FBmp]) = 1
      BY <1>2, <2>1
    <2>4. QED
      BY <1>1, <1>2, <2>2, <2>3 DEF Counted
  <1>7. \A f \in FileNumbers : CellsHeld(disk, f) = {}
    BY <1>2, <1>4, NothingHeld DEF CellsHeld
  <1>8. \A f \in FileNumbers : Others(disk, f) = {}
    BY <1>7 DEF Others
  <1>9. Owned(disk) /\ AllUsed(disk)
    BY <1>2, <1>4, <1>8, NothingHeld DEF Owned, AllUsed, Held, SlotsApart, Exact
  <1>10. Ledger(disk, info, live, deleted, ~strained)
    BY <1>1, <1>2, <1>3, <1>4, <1>5, <1>6, <1>9 DEF Ledger
  <1>11. info \in Counts /\ todo \in Seq(Writes) /\ Root \in live /\ live \subseteq FileNumbers
    BY <1>1, <1>2, <1>3 DEF Counts
  <1>12. Leads(disk, todo, disk)
    BY <1>1, LeadsNowhere
  <1>13. QED
    BY <1>1, <1>5, <1>10, <1>11, <1>12 DEF IInv

(* The inductive invariant.                                                *)
THEOREM LedgerKept == Spec => []IInv
  <1>1. Init => IInv
    BY InitLedger
  <1>2. IInv /\ [Next]_vars => IInv'
    <2> SUFFICES ASSUME IInv, [Next]_vars PROVE IInv'
      OBVIOUS
    <2>1. ASSUME NEW size \in Sizes, NEW stamp \in Stamps, create_file(size, stamp) PROVE IInv'
      BY <2>1, CreateStep
    <2>2. ASSUME NEW f \in live, NEW size \in Sizes, NEW stamp \in Stamps,
                 rewrite_file(f, size, stamp)
          PROVE  IInv'
      BY <2>2, RewriteStep
    <2>3. ASSUME NEW f \in live \ {Root}, remove_file(f) PROVE IInv'
      BY <2>3, RemoveStep
    <2>4. CASE FlushSector /\ UNCHANGED history
      BY <2>4, FlushStep
    <2>5. CASE UNCHANGED vars
      BY <2>5 DEF vars, diskVars, history, IInv
    <2>6. QED
      BY <2>1, <2>2, <2>3, <2>4, <2>5 DEF Next
  <1>3. QED
    BY <1>1, <1>2, PTL DEF Spec

(* The bitmaps, the extents and the counts stay within the volume.         *)
THEOREM AtufsTypes == Spec => []TypeOK
  <1>1. IInv => TypeOK
    <2> SUFFICES ASSUME IInv PROVE TypeOK
      OBVIOUS
    <2>1. /\ disk[Info] \in Counts /\ disk[FBmp] \subseteq 0..BitOf(Files - 1)
          /\ disk[CBmp] \subseteq ClusterNumbers
          /\ \A f \in FileNumbers : disk[Inode(f)] \in Inodes
      BY VolumeTypes DEF IInv
    <2>2. Referenced \subseteq ClusterNumbers
      BY <2>1 DEF Referenced, Slotted, CellsOf, FileNumbers, Inodes, Trim, InVolume
    <2>3. QED
      BY <2>1, <2>2 DEF TypeOK, IInv, Counts, ClusterNumbers, FileNumbers
  <1>2. QED
    BY <1>1, LedgerKept, PTL

(* The clusters of a volume where each file has its own.                   *)
LEMMA OwnedApart == ASSUME Owned(disk) PROVE NoneShared /\ AllMarked
  <1>1. ASSUME NEW f \in FileNumbers, NEW i \in 1..Extents
        PROVE  Cells(disk[Inode(f)].ext[i]) \subseteq disk[CBmp]
    BY DEF Owned, Held
  <1>2. ASSUME NEW f \in FileNumbers, NEW i \in 1..Extents,
               NEW g \in FileNumbers, NEW j \in 1..Extents, f # g \/ i # j
        PROVE  Cells(disk[Inode(f)].ext[i]) \cap Cells(disk[Inode(g)].ext[j]) = {}
    <2>1. Held(disk[CBmp], disk[Inode(f)].ext, Others(disk, f))
      BY DEF Owned
    <2>2. CASE f = g
      BY <1>2, <2>1, <2>2 DEF Held, SlotsApart
    <2>3. CASE f # g
      <3>1. Cells(disk[Inode(g)].ext[j]) \subseteq Others(disk, f)
        BY <2>3 DEF Others, CellsHeld, CellsFrom
      <3>2. Cells(disk[Inode(f)].ext[i]) \cap Others(disk, f) = {}
        BY <2>1 DEF Held
      <3>3. QED  BY <3>1, <3>2
    <2>4. QED  BY <2>2, <2>3
  <1>3. AllMarked
    BY <1>1 DEF AllMarked, Referenced, Slotted, CellsOf, FileNumbers
  <1>4. NoneShared
    <2> SUFFICES ASSUME NEW f \in FileNumbers, NEW i \in 1..Extents,
                        NEW g \in FileNumbers, NEW j \in 1..Extents, <<f, i>> # <<g, j>>
                 PROVE  CellsOf(<<f, i>>) \cap CellsOf(<<g, j>>) = {}
      BY DEF NoneShared, Slotted, FileNumbers
    <2>1. f # g \/ i # j
      OBVIOUS
    <2>2. QED  BY <1>2, <2>1 DEF CellsOf
  <1>5. QED  BY <1>3, <1>4

(* Between operations no cluster is in two extents, and one that is in an  *)
(* extent is marked: a file never gets the cluster of another.             *)
THEOREM NoClusterShared == Spec => []OwnersApart
  <1>1. IInv => OwnersApart
    <2> SUFFICES ASSUME IInv, Idle PROVE NoneShared /\ AllMarked
      BY DEF OwnersApart
    <2>1. Owned(disk)
      BY IdleLedger DEF Ledger
    <2>2. QED
      BY <2>1, OwnedApart
  <1>2. QED
    BY <1>1, LedgerKept, PTL

(* Between operations the counters of the information sector agree with    *)
(* the bitmaps.                                                            *)
THEOREM CountsOfBitmaps == Spec => []CountersAgree
  <1>1. IInv => CountersAgree
    BY IdleLedger DEF CountersAgree, Ledger, Counted
  <1>2. QED
    BY <1>1, LedgerKept, PTL

(* No cluster stays marked that no file has, until a write runs short.     *)
THEOREM NothingLeaks == Spec => []NoLeak
  <1>1. IInv => NoLeak
    <2> SUFFICES ASSUME IInv, Idle, ~strained, NEW c \in disk[CBmp]
                 PROVE  \E x \in Slotted : c \in CellsOf(x)
      BY DEF NoLeak, Referenced
    <2>1. AllUsed(disk)
      BY IdleLedger DEF Ledger
    <2>2. Root \in FileNumbers
      BY DEF IInv
    <2>3. c \in Others(disk, Root) \cup CellsHeld(disk, Root)
      BY <2>1, <2>2 DEF AllUsed, Exact, CellsHeld
    <2>4. PICK f \in FileNumbers : c \in CellsHeld(disk, f)
      BY <2>2, <2>3 DEF Others
    <2>5. PICK i \in 1..Extents : c \in Cells(disk[Inode(f)].ext[i])
      BY <2>4 DEF CellsHeld, CellsFrom
    <2>6. <<f, i>> \in Slotted /\ c \in CellsOf(<<f, i>>)
      BY <2>5 DEF Slotted, CellsOf, FileNumbers
    <2>7. QED
      BY <2>6
  <1>2. QED
    BY <1>1, LedgerKept, PTL

(* A file in use has its bit, unless a delete was asked for the file whose *)
(* number is that bit.                                                     *)
THEOREM BitsOfLiveFiles == Spec => []LiveHasBit
  <1>1. IInv => LiveHasBit
    BY IdleLedger DEF LiveHasBit, Ledger
  <1>2. QED
    BY <1>1, LedgerKept, PTL
-----------------------------------------------------------------------------
(* What a write leaves in the clusters.                                    *)
Formed(s) == s = [disk |-> s.disk, info |-> s.info, log |-> s.log] /\ DOMAIN s.disk = Addresses

(* From s to t no cluster was written.                                     *)
Plain(s, t) ==
    /\ Formed(t)
    /\ \A c \in ClusterNumbers : t.disk[Data(c)] = s.disk[Data(c)]

Labels == {Info, CBmp, FBmp} \cup {Inode(f) : f \in FileNumbers}

LEMMA SoundFormed == ASSUME NEW s, Sound(s) PROVE Formed(s)
  BY VolumeTypes DEF Sound, Safe, Formed

LEMMA PlainJoins ==
  ASSUME NEW s, NEW t, NEW u, Plain(s, t), Plain(t, u)
  PROVE  Plain(s, u)
  BY DEF Plain

LEMMA WritePlain ==
  ASSUME NEW s, Formed(s), NEW at \in Labels, NEW is
  PROVE  Plain(s, Write(s, at, is))
  <1> DEFINE d == [s.disk EXCEPT ![at] = is]
             t == Write(s, at, is)
  <1>1. t = [disk |-> d, info |-> s.info, log |-> Append(s.log, [at |-> at, is |-> is])]
    BY DEF Write
  <1>2. \A c \in ClusterNumbers : Data(c) # at /\ Data(c) \in DOMAIN s.disk
    BY AddressesApart DEF Labels, Formed
  <1>3. DOMAIN d = Addresses /\ \A c \in ClusterNumbers : d[Data(c)] = s.disk[Data(c)]
    BY <1>2 DEF Formed
  <1> HIDE DEF d, t
  <1>4. QED
    BY <1>1, <1>3 DEF Plain, Formed, t

LEMMA MarkEarlyPlain ==
  ASSUME NEW s, Formed(s), NEW bits, NEW first \in Int, NEW last \in Int, first <= last
  PROVE  Plain(s, MarkEarly(s, bits, first, last))
  <1>0. first \in Int /\ last \in Int /\ first <= last
    OBVIOUS
  <1>1. PICK run : /\ run[first] = s
                   /\ \A k \in (first + 1)..last :
                         run[k] = Write(run[k - 1], CBmp, Through(s.disk[CBmp], bits, k))
                   /\ MarkEarly(s, bits, first, last) = run[last]
    BY ONLY <1>0, MarkEarlyRuns
  <1> DEFINE T == {k \in first..last : Plain(s, run[k])}
  <1>2. first \in T
    BY <1>1 DEF Plain
  <1>3. ASSUME NEW k \in first..(last - 1), k \in T PROVE k + 1 \in T
    <2> DEFINE is == Through(s.disk[CBmp], bits, k + 1)
    <2>1. k + 1 \in (first + 1)..last /\ k + 1 \in first..last /\ (k + 1) - 1 = k
      OBVIOUS
    <2>2. run[k + 1] = Write(run[k], CBmp, is)
      BY <1>1, <2>1
    <2> HIDE DEF is
    <2>3. Plain(s, run[k]) /\ CBmp \in Labels
      BY <1>3 DEF Labels
    <2>4. Plain(run[k], run[k + 1])
      BY <2>2, <2>3, WritePlain DEF Plain
    <2>5. QED
      BY <2>1, <2>3, <2>4, PlainJoins
  <1> HIDE DEF T
  <1>4. last \in T
    <2>1. Climbs(T, first, last)
      BY <1>2, <1>3 DEF Climbs
    <2>2. QED
      BY <2>1, UpTo
  <1>5. QED
    BY <1>1, <1>4 DEF T

LEMMA SetClustersPlain ==
  ASSUME NEW s, Formed(s), NEW n, NEW bits, NEW first \in Int, NEW last \in Int, first <= last
  PROVE  Plain(s, SetClusters(s, n, bits, first, last))
  <1> DEFINE r == [s EXCEPT !.info.clusters = n]
             i == [s.info EXCEPT !.clusters = n]
             t == MarkEarly(r, bits, first, last)
             u == Write(t, Info, t.info)
             x == Write(u, CBmp, bits)
  <1>1. Plain(s, r)
    <2>1. r = [disk |-> s.disk, info |-> i, log |-> s.log]
      BY DEF Formed
    <2> HIDE DEF r, i
    <2>2. QED
      BY <2>1 DEF Plain, Formed
  <1> HIDE DEF r
  <1>2. Info \in Labels /\ CBmp \in Labels
    BY DEF Labels
  <1>3. Plain(r, t)
    BY <1>1, MarkEarlyPlain DEF Plain
  <1> HIDE DEF t
  <1>4. Plain(t, u)
    BY <1>2, <1>3, WritePlain DEF Plain
  <1> HIDE DEF u
  <1>5. Plain(u, x)
    BY <1>2, <1>4, WritePlain DEF Plain
  <1> HIDE DEF x
  <1>6. Plain(s, x)
    BY <1>1, <1>3, <1>4, <1>5, PlainJoins
  <1>7. QED
    BY <1>6 DEF SetClusters, x, u, t, r

LEMMA SetFilesPlain ==
  ASSUME NEW s, Formed(s), NEW n, NEW bits
  PROVE  Plain(s, SetFiles(s, n, bits))
  <1> DEFINE t == [s EXCEPT !.info.files = n]
             i == [s.info EXCEPT !.files = n]
             u == Write(t, FBmp, bits)
             x == Write(u, Info, u.info)
  <1>1. Plain(s, t)
    <2>1. t = [disk |-> s.disk, info |-> i, log |-> s.log]
      BY DEF Formed
    <2> HIDE DEF t, i
    <2>2. QED
      BY <2>1 DEF Plain, Formed
  <1> HIDE DEF t
  <1>2. Info \in Labels /\ FBmp \in Labels
    BY DEF Labels
  <1>3. Plain(t, u)
    BY <1>1, <1>2, WritePlain DEF Plain
  <1> HIDE DEF u
  <1>4. Plain(u, x)
    BY <1>2, <1>3, WritePlain DEF Plain
  <1> HIDE DEF x
  <1>5. Plain(s, x)
    BY <1>1, <1>3, <1>4, PlainJoins
  <1>6. QED
    BY <1>5 DEF SetFiles, x, u, t

LEMMA ClearPlain ==
  ASSUME NEW s, Formed(s), NEW e \in Extent
  PROVE  Plain(s, clear_clusters(s, e))
  <1>1. Plain(s, s)
    BY DEF Plain
  <1>2. QED
    BY <1>1, SetClustersPlain, ClearedSectors DEF clear_clusters

LEMMA AlocatePlain ==
  ASSUME NEW s, Formed(s), NEW n \in Nat
  PROVE  Plain(s, alocate_clusters(s, n).s)
  <1> DEFINE e == FreeRun(s, n)
             last == LastLooked(e, n)
  <1>1. e \in Extent
    BY FreeRunFree
  <1>2. last \in Int /\ 0 <= last
    BY <1>1, LookedSectors
  <1>3. alocate_clusters(s, n).s = SetClusters(s, s.info.clusters + e.many,
                                               mark_true(s.disk[CBmp], e.start, e.many), 0, last)
    BY DEF alocate_clusters
  <1> HIDE DEF e, last
  <1>4. QED
    BY <1>2, <1>3, SetClustersPlain

LEMMA ClearSlotsPlain ==
  ASSUME NEW s, Formed(s), NEW ext \in ExtentLists, NEW from \in 1..(Extents + 1)
  PROVE  Plain(s, ClearSlots(s, ext, from, Extents))
  <1> DEFINE to == Extents
  <1>0. from \in Int /\ to \in Int /\ from - 1 <= to /\ \A i \in from..to : ext[i] \in Extent
    BY AtufsAssumption DEF ExtentLists
  <1> HIDE DEF to
  <1>1. PICK run : /\ run[from - 1] = s
                   /\ \A i \in from..to : run[i] = clear_clusters(run[i - 1], ext[i])
                   /\ ClearSlots(s, ext, from, to) = run[to]
    BY <1>0, ClearSlotsRuns
  <1> DEFINE T == {i \in (from - 1)..to : Plain(s, run[i])}
  <1>2. from - 1 \in T
    BY <1>0, <1>1 DEF Plain
  <1>3. ASSUME NEW i \in (from - 1)..(to - 1), i \in T PROVE i + 1 \in T
    <2>1. i + 1 \in from..to /\ (i + 1) - 1 = i /\ ext[i + 1] \in Extent
      BY <1>0
    <2>2. run[i + 1] = clear_clusters(run[i], ext[i + 1])
      BY <1>1, <2>1
    <2>3. Plain(s, run[i]) /\ Formed(run[i])
      BY <1>3 DEF Plain
    <2>4. Plain(run[i], run[i + 1])
      BY <2>1, <2>2, <2>3, ClearPlain
    <2>5. QED
      BY <2>1, <2>3, <2>4, PlainJoins
  <1>4. to \in T
    <2>1. Climbs(T, from - 1, to)
      BY <1>2, <1>3 DEF Climbs
    <2> HIDE DEF T
    <2>2. from - 1 \in Int /\ to \in (from - 1)..to
      BY <1>0
    <2>3. QED
      BY <1>0, <2>1, <2>2, UpTo
  <1>5. QED
    BY <1>1, <1>4 DEF to

(* From s to t the n clusters from first on got the parts of the buffer    *)
(* that follow the first ones.                                             *)
Puts(s, t, first, n, stamp, parts) ==
    /\ Formed(t)
    /\ \A c \in ClusterNumbers : t.disk[Data(c)] =
          IF c \in Run(first, n) THEN <<stamp, parts + c - first + 1>> ELSE s.disk[Data(c)]

LEMMA WriteDataPuts ==
  ASSUME NEW s, Formed(s), NEW first, NEW n, NEW stamp, NEW parts
  PROVE  Puts(s, WriteData(s, first, n, stamp, parts), first, n, stamp, parts)
  <1> DEFINE part(c) == <<stamp, parts + c - first + 1>>
             u == [a \in Addresses |->
                      IF a[1] = "data" /\ a[2] \in Run(first, n) THEN part(a[2]) ELSE s.disk[a]]
             l == s.log \o [k \in 1..n |->
                      [at |-> Data(first + k - 1), is |-> part(first + k - 1)]]
             t == WriteData(s, first, n, stamp, parts)
  <1>1. t = [disk |-> u, info |-> s.info, log |-> l]
    BY DEF WriteData, Formed
  <1>2. \A c \in ClusterNumbers : Data(c) \in Addresses /\ Data(c)[1] = "data" /\ Data(c)[2] = c
    BY AddressesApart, DataNames
  <1> HIDE DEF part
  <1>3. \A c \in ClusterNumbers :
            u[Data(c)] = IF c \in Run(first, n) THEN part(c) ELSE s.disk[Data(c)]
    BY <1>2
  <1>4. DOMAIN u = Addresses
    OBVIOUS
  <1> HIDE DEF u, l, t
  <1>5. QED
    BY <1>1, <1>3, <1>4 DEF Puts, Formed, part, t

LEMMA PlainPuts ==
  ASSUME NEW s, NEW t, NEW u, NEW first, NEW n, NEW stamp, NEW parts,
         Plain(s, t), Puts(t, u, first, n, stamp, parts)
  PROVE  Puts(s, u, first, n, stamp, parts)
  BY DEF Plain, Puts

-----------------------------------------------------------------------------
(* What the loop makes of slot i: it gets the next parts of the buffer, or *)
(* no part is written.                                                     *)
Grew(w, x, i, stamp) ==
    /\ w.loop = "on" /\ w.left > 0 /\ x.ext[i].many > 0
    /\ x.parts = w.parts + x.ext[i].many /\ x.left = w.left - x.ext[i].many
    /\ \A j \in 1..(i - 1) : x.ext[j] = w.ext[j]
    /\ Puts(w.s, x.s, x.ext[i].start, x.ext[i].many, stamp, w.parts)

Rested(w, x, i) ==
    /\ x.parts = w.parts /\ x.left = w.left /\ Plain(w.s, x.s)
    /\ \A j \in 1..(i - 1) : x.ext[j] = w.ext[j]
    /\ ~(x.loop = "on" /\ x.left > 0)

(* What has to be known of the loop's work for that.                       *)
Working(w) ==
    /\ IsWork(w) /\ Formed(w.s) /\ w.ext \in ExtentLists /\ w.left \in Nat
    /\ InVolume(w.ext) /\ SlotsApart(w.ext)

LEMMA KeptWorks ==
  ASSUME NEW s, NEW O, NEW tight \in BOOLEAN, NEW w, Kept(s, O, tight, w)
  PROVE  Working(w)
  BY SoundFormed, BitsFinite DEF Kept, Working, Held, InVolume

LEMMA LoopField ==
  ASSUME NEW w, IsWork(w), NEW l
  PROVE  [w EXCEPT !.loop = l]
            = [s |-> w.s, ext |-> w.ext, left |-> w.left, parts |-> w.parts, loop |-> l]
  BY DEF IsWork

LEMMA StoreGrows ==
  ASSUME NEW w, IsWork(w), w.loop = "on", w.left > 0, w.ext \in ExtentLists,
         NEW t, Plain(w.s, t), NEW i \in 1..Extents, NEW e, NEW n \in Nat, n > 0, NEW stamp
  PROVE  Grew(w, Store(w, t, i, e, n, stamp), i, stamp)
  <1> DEFINE x == Store(w, t, i, e, n, stamp)
             u == WriteData(t, e.start, n, stamp, w.parts)
             v == [w.ext EXCEPT ![i] = [start |-> e.start, many |-> n]]
  <1>1. x = [s |-> u, ext |-> v, left |-> w.left - n, parts |-> w.parts + n, loop |-> w.loop]
    BY StoreFields
  <1>2. /\ v[i].start = e.start /\ v[i].many = n
        /\ \A j \in 1..Extents : j # i => v[j] = w.ext[j]
    BY DEF ExtentLists
  <1>3. \A j \in 1..(i - 1) : j \in 1..Extents /\ j # i
    BY AtufsAssumption
  <1>4. Puts(t, u, e.start, n, stamp, w.parts)
    BY WriteDataPuts DEF Plain
  <1> HIDE DEF u, v, x
  <1>5. Puts(w.s, u, e.start, n, stamp, w.parts)
    BY <1>4, PlainPuts
  <1>6. QED
    BY <1>1, <1>2, <1>3, <1>5 DEF Grew, x

(* The loop goes on or ends: nothing else changes.                         *)
LEMMA LoopGrows ==
  ASSUME NEW w, NEW x, NEW i, NEW stamp, IsWork(x), Grew(w, x, i, stamp), NEW l
  PROVE  Grew(w, [x EXCEPT !.loop = l], i, stamp)
  <1> DEFINE y == [x EXCEPT !.loop = l]
  <1>1. y = [s |-> x.s, ext |-> x.ext, left |-> x.left, parts |-> x.parts, loop |-> l]
    BY LoopField
  <1> HIDE DEF y
  <1>2. QED
    BY <1>1 DEF Grew, y

LEMMA SlotFills ==
  ASSUME NEW w, Working(w), NEW i \in 1..Extents, NEW stamp
  PROVE  LET x == Slot(w, i, stamp)
         IN  Grew(w, x, i, stamp) \/ Rested(w, x, i)
  <1> DEFINE e == w.ext[i]
             x == Slot(w, i, stamp)
             again == Store(w, w.s, i, e, e.many, stamp)
  <1>1. /\ Extents \in Nat /\ i \in Nat /\ w.ext \in ExtentLists /\ w.left \in Nat
        /\ IsWork(w) /\ Formed(w.s)
    BY AtufsAssumption DEF Working
  <1>2. e \in Extent /\ e.many \in Nat
    BY <1>1 DEF ExtentLists, Extent
  <1>3. Plain(w.s, w.s)
    BY <1>1 DEF Plain
  <1>4. CASE w.loop # "on"
    <2>1. x = w
      BY <1>4 DEF Slot
    <2>2. QED
      BY <1>3, <1>4, <2>1 DEF Rested
  <1>5. CASE w.loop = "on" /\ w.left = 0 /\ e.many = 0
    <2> DEFINE y == [w EXCEPT !.loop = "break"]
    <2>1. x = y
      BY <1>5 DEF Slot
    <2>2. y = [s |-> w.s, ext |-> w.ext, left |-> w.left, parts |-> w.parts, loop |-> "break"]
      BY <1>1, LoopField
    <2> HIDE DEF x, y
    <2>3. QED
      BY <1>3, <2>1, <2>2 DEF Rested, x
  <1>6. CASE w.loop = "on" /\ w.left = 0 /\ e.many > 0
    <2> DEFINE t == clear_clusters(w.s, e)
               v == [w.ext EXCEPT ![i] = NoExtent]
               y == [w EXCEPT !.s = t, !.ext[i] = NoExtent]
    <2>1. x = y
      BY <1>2, <1>6 DEF Slot
    <2>2. Plain(w.s, t)
      BY <1>1, <1>2, ClearPlain
    <2>3. \A j \in 1..(i - 1) : v[j] = w.ext[j]
      BY <1>1 DEF ExtentLists
    <2>4. y.s = t /\ y.parts = w.parts /\ y.ext = v /\ y.left = w.left
      <3>1. w = [s |-> w.s, ext |-> w.ext, left |-> w.left, parts |-> w.parts, loop |-> w.loop]
        BY <1>1 DEF IsWork
      <3> DEFINE z == [w EXCEPT !.s = t]
      <3>2. y = [z EXCEPT !.ext[i] = NoExtent]
        OBVIOUS
      <3> HIDE DEF t, y
      <3>3. z = [s |-> t, ext |-> w.ext, left |-> w.left, parts |-> w.parts, loop |-> w.loop]
        BY <3>1
      <3> HIDE DEF z
      <3>4. QED
        BY <3>2, <3>3
    <2> HIDE DEF x, y, t, v
    <2>5. QED
      BY <1>6, <2>1, <2>2, <2>3, <2>4 DEF Rested, x
  <1>7. CASE w.loop = "on" /\ w.left > 0 /\ e.many = 0
    <2> DEFINE a == alocate_clusters(w.s, w.left)
               y == Store(w, a.s, i, a.e, a.e.many, stamp)
               z == [w EXCEPT !.s = a.s, !.loop = "full"]
    <2>1. x = IF a.e.many = 0 THEN z ELSE y
      BY <1>1, <1>7 DEF Slot, StoreNew
    <2>2. a.e \in Extent /\ Plain(w.s, a.s)
      <3>1. a.e = FreeRun(w.s, w.left)
        BY DEF alocate_clusters
      <3>2. a.e \in Extent
        BY <1>1, <3>1, FreeRunFree
      <3>3. QED
        BY <1>1, <3>2, AlocatePlain
    <2> HIDE DEF x
    <2>3. CASE a.e.many = 0
      <3>1. z = [s |-> a.s, ext |-> w.ext, left |-> w.left, parts |-> w.parts, loop |-> "full"]
        BY <1>1, WorkChanged
      <3> HIDE DEF a, z
      <3>2. QED
        BY <2>1, <2>2, <2>3, <3>1 DEF Rested, x
    <2>4. CASE a.e.many # 0
      <3> DEFINE n == a.e.many
      <3>1. n \in Nat /\ n > 0
        BY <2>2, <2>4 DEF Extent
      <3> HIDE DEF a, n
      <3>2. Grew(w, Store(w, a.s, i, a.e, n, stamp), i, stamp)
        BY <1>1, <1>7, <2>2, <3>1, StoreGrows
      <3>3. QED
        BY <2>1, <2>4, <3>2 DEF n, x
    <2>5. QED
      BY <2>3, <2>4
  <1>8. CASE w.loop = "on" /\ e.many > 0 /\ e.many <= w.left
    <2>1. Grew(w, again, i, stamp)
      <3> DEFINE n == e.many
                 t == w.s
      <3>1. n \in Nat /\ n > 0 /\ w.left > 0 /\ Plain(w.s, t)
        BY <1>1, <1>2, <1>3, <1>8
      <3> HIDE DEF n, e, t
      <3>2. Grew(w, Store(w, t, i, e, n, stamp), i, stamp)
        BY <1>1, <1>8, <3>1, StoreGrows
      <3>3. QED
        BY <3>2 DEF n, t
    <2>2. IsWork(again)
      <3>1. again = [s |-> again.s, ext |-> again.ext, left |-> again.left, parts |-> again.parts,
                     loop |-> again.loop]
        BY <1>1, StoreFields
      <3>2. QED
        BY <3>1 DEF IsWork
    <2>3. CASE e.many < w.left
      <3>1. x = again
        BY <1>1, <1>2, <1>8, <2>3 DEF Slot
      <3> HIDE DEF x, again
      <3>2. QED
        BY <2>1, <3>1 DEF x
    <2>4. CASE e.many = w.left
      <3>1. x = [again EXCEPT !.loop = "break"]
        BY <1>1, <1>2, <1>8, <2>4 DEF Slot
      <3> HIDE DEF x, again
      <3>2. QED
        BY <2>1, <2>2, <3>1, LoopGrows DEF x
    <2>5. QED
      BY <1>1, <1>2, <1>8, <2>3, <2>4
  <1>9. CASE w.loop = "on" /\ w.left > 0 /\ e.many > w.left
    <2> DEFINE n == w.left
               tail == [start |-> e.start + n, many |-> e.many - n]
               t == clear_clusters(w.s, tail)
               u == ClearSlots(t, w.ext, i + 1, Extents)
               short == [j \in 1..Extents |-> IF j > i THEN NoExtent ELSE w.ext[j]]
               cut == [w EXCEPT !.ext = [j \in 1..Extents |-> IF j > i THEN NoExtent ELSE @[j]]]
               y == Store(cut, u, i, e, n, stamp)
    <2>1. x = [y EXCEPT !.loop = "break"]
      <3>1. x = StoreLast(w, i, stamp)
        BY <1>1, <1>2, <1>9 DEF Slot
      <3>2. QED
        BY <3>1 DEF StoreLast
    <2>2. cut = [s |-> w.s, ext |-> short, left |-> n, parts |-> w.parts, loop |-> w.loop]
      <3>1. w = [s |-> w.s, ext |-> w.ext, left |-> w.left, parts |-> w.parts, loop |-> w.loop]
        BY <1>1 DEF IsWork
      <3>2. cut = [w EXCEPT !.ext = short]
        OBVIOUS
      <3> HIDE DEF cut, short
      <3>3. QED
        BY <3>1, <3>2
    <2>3. /\ short \in ExtentLists
          /\ \A j \in 1..(i - 1) : short[j] = w.ext[j]
      BY <1>1 DEF ExtentLists, NoExtent, Extent
    <2>4. Plain(w.s, u)
      <3>1. Plain(w.s, t)
        <4>1. tail \in Extent
          BY <1>1, <1>2, <1>9 DEF Extent
        <4>2. QED
          BY <1>1, <4>1, ClearPlain
      <3> HIDE DEF t
      <3>2. i + 1 \in 1..(Extents + 1)
        BY <1>1
      <3>3. Plain(t, u)
        BY <1>1, <3>1, <3>2, ClearSlotsPlain DEF Plain
      <3>4. QED
        BY <3>1, <3>3, PlainJoins
    <2> HIDE DEF x, u, cut, short
    <2>5. Grew(cut, y, i, stamp)
      <3>1. IsWork(cut) /\ cut.loop = "on" /\ cut.left > 0 /\ cut.ext \in ExtentLists
            /\ Plain(cut.s, u) /\ n \in Nat /\ n > 0
        BY <1>1, <1>9, <2>2, <2>3, <2>4 DEF IsWork
      <3> HIDE DEF n, e
      <3>2. QED
        BY <3>1, StoreGrows
    <2>6. IsWork(y)
      <3>1. IsWork(cut)
        BY <2>2 DEF IsWork
      <3>2. y = [s |-> y.s, ext |-> y.ext, left |-> y.left, parts |-> y.parts, loop |-> y.loop]
        BY <3>1, StoreFields
      <3>3. QED
        BY <3>2 DEF IsWork
    <2> HIDE DEF y
    <2>7. Grew(w, y, i, stamp)
      BY <2>2, <2>3, <2>5 DEF Grew
    <2>8. QED
      BY <2>1, <2>6, <2>7, LoopGrows DEF x
  <1>10. QED
    BY <1>1, <1>2, <1>4, <1>5, <1>6, <1>7, <1>8, <1>9

-----------------------------------------------------------------------------
(* The first m slots of a list hold the first parts of the buffer: slot j  *)
(* those from off[j - 1] on.                                               *)
Filled(d, ext, m, off, stamp) ==
    /\ off[0] = 0
    /\ \A j \in 1..m : ext[j].many > 0 /\ off[j] = off[j - 1] + ext[j].many
    /\ \A j \in 1..m : \A c \in Cells(ext[j]) :
          d[Data(c)] = <<stamp, off[j - 1] + c - ext[j].start + 1>>

(* The loop when it has looked at i slots and filled m. While it goes on   *)
(* and clusters are left it has filled all it has looked at.               *)
Fills(w, i, m, off, clusters, stamp) ==
    /\ Filled(w.s.disk, w.ext, m, off, stamp)
    /\ w.parts \in Nat /\ off[m] = w.parts /\ w.parts + w.left = clusters
    /\ w.loop = "on" /\ w.left > 0 => m = i

LEMMA SlotContinues ==
  ASSUME NEW w, Working(w),
         NEW i \in 1..Extents, NEW m \in 0..(i - 1), NEW off, NEW clusters, NEW stamp,
         Fills(w, i - 1, m, off, clusters, stamp),
         NEW x, x = Slot(w, i, stamp), Working(x), off[i] = x.parts
  PROVE  \E k \in 0..i : Fills(x, i, k, off, clusters, stamp)
  <1>1. /\ Extents \in Nat /\ i \in Nat /\ m \in Nat /\ w.left \in Nat /\ x.left \in Nat
        /\ w.parts \in Nat /\ x.ext \in ExtentLists
    BY AtufsAssumption DEF Working, Fills
  <1>2. Grew(w, x, i, stamp) \/ Rested(w, x, i)
    BY SlotFills
  <1>3. \A j \in 1..Extents : Cells(x.ext[j]) \subseteq ClusterNumbers
    BY DEF Working, InVolume
  <1>4. \A j \in 1..(i - 1) : j \in 1..Extents /\ j # i
    BY <1>1
  <1>5. Filled(w.s.disk, w.ext, m, off, stamp)
    BY DEF Fills
  <1>6. CASE Rested(w, x, i)
    <2>1. \A j \in 1..m : j \in 1..(i - 1) /\ x.ext[j] = w.ext[j]
      BY <1>1, <1>6 DEF Rested
    <2>2. \A c \in ClusterNumbers : x.s.disk[Data(c)] = w.s.disk[Data(c)]
      BY <1>6 DEF Rested, Plain
    <2>3. Filled(x.s.disk, x.ext, m, off, stamp)
      BY <1>3, <1>4, <1>5, <2>1, <2>2 DEF Filled
    <2>4. Fills(x, i, m, off, clusters, stamp)
      BY <1>6, <2>3 DEF Fills, Rested
    <2>5. m \in 0..i
      BY <1>1
    <2>6. QED
      BY <2>4, <2>5
  <1>7. CASE Grew(w, x, i, stamp)
    <2> DEFINE e == x.ext[i]
    <2>1. m = i - 1
      BY <1>7 DEF Fills, Grew
    <2>2. /\ e.many \in Nat /\ e.many > 0 /\ x.parts = w.parts + e.many
          /\ x.left = w.left - e.many
          /\ \A j \in 1..(i - 1) : x.ext[j] = w.ext[j]
      BY <1>1, <1>7 DEF Grew, ExtentLists, Extent
    <2>3. off[i] = off[i - 1] + e.many /\ off[i - 1] = w.parts
      BY <2>1, <2>2 DEF Fills
    <2>4. \A c \in ClusterNumbers : x.s.disk[Data(c)] =
              IF c \in Cells(e) THEN <<stamp, w.parts + c - e.start + 1>>
                                ELSE w.s.disk[Data(c)]
      BY <1>7 DEF Grew, Puts, Cells
    <2>5. \A j \in 1..(i - 1) : Cells(x.ext[j]) \cap Cells(e) = {}
      BY <1>4 DEF Working, SlotsApart
    <2>6. \A j \in 1..i : j \in 1..(i - 1) \/ j = i
      BY <1>1
    <2> HIDE DEF e
    <2>7. \A j \in 1..i : x.ext[j].many > 0 /\ off[j] = off[j - 1] + x.ext[j].many
      BY <1>5, <2>1, <2>2, <2>3, <2>6 DEF Filled, e
    <2>8. ASSUME NEW j \in 1..i, NEW c \in Cells(x.ext[j])
          PROVE  x.s.disk[Data(c)] = <<stamp, off[j - 1] + c - x.ext[j].start + 1>>
      <3>1. CASE j = i
        <4>1. c \in ClusterNumbers /\ c \in Cells(e)
          BY <1>3, <2>8, <3>1 DEF e
        <4>2. x.s.disk[Data(c)] = <<stamp, w.parts + c - e.start + 1>>
          BY <2>4, <4>1
        <4>3. QED
          BY <2>3, <3>1, <4>2 DEF e
      <3>2. CASE j \in 1..(i - 1)
        <4>1. c \in ClusterNumbers /\ c \notin Cells(e)
          BY <1>3, <1>4, <2>5, <2>8, <3>2
        <4>2. x.s.disk[Data(c)] = w.s.disk[Data(c)]
          BY <2>4, <4>1
        <4>3. w.s.disk[Data(c)] = <<stamp, off[j - 1] + c - w.ext[j].start + 1>>
          BY <1>5, <2>1, <2>2, <2>8, <3>2 DEF Filled
        <4>4. QED
          BY <2>2, <3>2, <4>2, <4>3
      <3>3. QED
        BY <2>6, <3>1, <3>2
    <2>9. Filled(x.s.disk, x.ext, i, off, stamp)
      BY <1>5, <2>7, <2>8 DEF Filled
    <2>10. x.parts \in Nat /\ x.parts + x.left = clusters
      <3>1. w.parts + w.left = clusters
        BY DEF Fills
      <3>2. QED
        BY <1>1, <2>2, <3>1
    <2>11. Fills(x, i, i, off, clusters, stamp)
      BY <2>9, <2>10 DEF Fills
    <2>12. i \in 0..i
      BY <1>1
    <2>13. QED
      BY <2>11, <2>12
  <1>8. QED
    BY <1>2, <1>6, <1>7

LEMMA RunFills ==
  ASSUME NEW s, NEW ext, NEW clusters \in Nat, NEW stamp, NEW run,
         run[0] = [s |-> s, ext |-> ext, left |-> clusters, parts |-> 0, loop |-> "on"],
         \A i \in 1..Extents : run[i] = Slot(run[i - 1], i, stamp),
         \A i \in 0..Extents : Working(run[i])
  PROVE  \E m \in 0..Extents : \E off : Fills(run[Extents], Extents, m, off, clusters, stamp)
  <1> DEFINE start == [s |-> s, ext |-> ext, left |-> clusters, parts |-> 0, loop |-> "on"]
             off == [j \in 0..Extents |-> run[j].parts]
             T == {i \in 0..Extents : \E m \in 0..i : Fills(run[i], i, m, off, clusters, stamp)}
  <1>1. Extents \in Nat
    BY AtufsAssumption
  <1>2. 0 \in T
    <2>1. run[0] = start
      OBVIOUS
    <2>2. off[0] = 0 /\ 0 \in 0..0
      BY <1>1, <2>1
    <2> HIDE DEF off
    <2>3. Filled(run[0].s.disk, run[0].ext, 0, off, stamp)
      BY <2>2 DEF Filled
    <2>4. Fills(run[0], 0, 0, off, clusters, stamp)
      BY <2>1, <2>2, <2>3 DEF Fills
    <2>5. QED
      BY <1>1, <2>2, <2>4
  <1>3. ASSUME NEW i \in 0..(Extents - 1), i \in T PROVE i + 1 \in T
    <2> DEFINE w == run[i]
               k == i + 1
               x == run[k]
    <2>1. k \in 1..Extents /\ k - 1 = i /\ k \in 0..Extents /\ i \in 0..Extents
      BY <1>1
    <2>2. PICK m \in 0..i : Fills(w, i, m, off, clusters, stamp)
      BY <1>3
    <2>3. Working(w) /\ Working(x)
      BY <2>1
    <2>4. x = Slot(w, k, stamp)
      <3>1. x = Slot(run[k - 1], k, stamp)
        BY <2>1
      <3> HIDE DEF k
      <3>2. QED
        BY <2>1, <3>1
    <2>5. off[k] = x.parts
      BY <2>1
    <2> HIDE DEF w, x, k, off
    <2>6. m \in 0..(k - 1) /\ Fills(w, k - 1, m, off, clusters, stamp)
      BY <2>1, <2>2
    <2>7. \E q \in 0..k : Fills(x, k, q, off, clusters, stamp)
      BY <2>1, <2>3, <2>4, <2>5, <2>6, SlotContinues
    <2>8. QED
      BY <2>1, <2>7 DEF k, x
  <1>4. Extents \in T
    <2>1. Climbs(T, 0, Extents)
      BY <1>2, <1>3 DEF Climbs
    <2> HIDE DEF T
    <2>2. QED
      BY <1>1, <2>1, UpTo
  <1> HIDE DEF off
  <1>5. QED
    BY <1>4

LEMMA ResizeFills ==
  ASSUME NEW s, Sound(s), NEW O, NEW ext \in ExtentLists, Compact(ext),
         Held(s.disk[CBmp], ext, O), NEW clusters \in Nat, NEW stamp \in Stamps \cup {<<>>}
  PROVE  \E m \in 0..Extents : \E off :
            Fills(Resize(s, ext, clusters, stamp), Extents, m, off, clusters, stamp)
  <1> DEFINE tight == FALSE
  <1>1. tight \in BOOLEAN /\ (tight => Exact(s.disk[CBmp], ext, O))
    OBVIOUS
  <1> HIDE DEF tight
  <1>2. PICK run : Ran(s, O, tight, ext, clusters, stamp, run)
    BY <1>1, ResizeRun
  <1>3. \A i \in 0..Extents : Working(run[i])
    BY <1>1, <1>2, KeptWorks DEF Ran
  <1>4. /\ run[0] = [s |-> s, ext |-> ext, left |-> clusters, parts |-> 0, loop |-> "on"]
        /\ \A i \in 1..Extents : run[i] = Slot(run[i - 1], i, stamp)
        /\ run[Extents] = Resize(s, ext, clusters, stamp)
    BY <1>2 DEF Ran
  <1>5. \E m \in 0..Extents : \E off :
            Fills(run[Extents], Extents, m, off, clusters, stamp)
    BY <1>3, <1>4, RunFills
  <1>6. QED
    BY <1>4, <1>5

-----------------------------------------------------------------------------
(* Reading. The sequences of a list are joined from the first one on.      *)
LEMMA FlattenRuns ==
  ASSUME NEW seqs, NEW last \in Nat \ {0}, last = Len(seqs)
  PROVE  \E run : /\ run[1] = seqs[1]
                  /\ \A i \in 2..last : run[i] = run[i - 1] \o seqs[i]
                  /\ FlattenSeq(seqs) = run[last]
  <1> DEFINE J(p, i) == p \o seqs[i]
             Runs(m, f) == f = [i \in 1..m |-> IF i = 1 THEN seqs[i] ELSE J(f[i - 1], i)]
             Steps(m, f) == \A i \in 1..m : f[i] = IF i = 1 THEN seqs[i] ELSE J(f[i - 1], i)
             T == {m \in Int : \E f : Runs(m, f)}
  <1>1. FlattenSeq(seqs) = (CHOOSE f : Runs(last, f))[last]
    BY DEF FlattenSeq
  <1> HIDE DEF J
  <1>2. ASSUME NEW m, NEW f, Runs(m, f) PROVE Steps(m, f)
    BY <1>2
  <1>3. ASSUME NEW m \in Int, NEW e, Steps(m, [i \in 1..m |-> e[i]])
        PROVE  Runs(m, [i \in 1..m |-> e[i]])
    BY <1>3
  <1>4. 1 \in T
    <2> DEFINE f == [i \in 1..1 |-> seqs[i]]
    <2>1. Steps(1, f)
      OBVIOUS
    <2>2. Runs(1, f)
      BY <1>3, <2>1
    <2> HIDE DEF Runs, f
    <2>3. QED
      BY <2>2
  <1> HIDE DEF Runs
  <1>5. ASSUME NEW m \in 1..(last - 1), m \in T PROVE m + 1 \in T
    <2>1. PICK f : Runs(m, f)
      BY <1>5
    <2>2. Steps(m, f)
      BY <1>2, <2>1
    <2> DEFINE e == [i \in 1..(m + 1) |-> IF i <= m THEN f[i] ELSE J(f[m], i)]
               g == [i \in 1..(m + 1) |-> e[i]]
    <2>3. ASSUME NEW i \in 1..(m + 1)
          PROVE  g[i] = IF i = 1 THEN seqs[i] ELSE J(g[i - 1], i)
      <3>1. CASE i = 1
        BY <2>2, <3>1
      <3>2. CASE i # 1 /\ i <= m
        <4>1. g[i] = f[i] /\ g[i - 1] = f[i - 1] /\ i \in 1..m
          BY <3>2
        <4>2. QED
          BY <2>2, <3>2, <4>1
      <3>3. CASE i = m + 1
        <4>1. g[i - 1] = f[m] /\ i # 1 /\ g[i] = J(f[m], i)
          BY <3>3
        <4>2. QED
          BY <4>1
      <3>4. QED
        BY <3>1, <3>2, <3>3
    <2>4. Steps(m + 1, g)
      BY <2>3
    <2>5. m + 1 \in Int
      OBVIOUS
    <2> HIDE DEF e, Steps
    <2>6. Runs(m + 1, g)
      BY <1>3, <2>4, <2>5
    <2> HIDE DEF g
    <2>7. QED
      BY <2>5, <2>6
  <1> HIDE DEF T
  <1>6. last \in T
    <2>1. Climbs(T, 1, last)
      BY <1>4, <1>5 DEF Climbs
    <2>2. QED
      BY <2>1, UpTo
  <1> DEFINE h == CHOOSE f : Runs(last, f)
  <1>7. PICK some : Runs(last, some)
    BY <1>6 DEF T
  <1>8. Runs(last, h)
    BY <1>7
  <1> HIDE DEF h
  <1>9. Steps(last, h)
    BY <1>2, <1>8
  <1>10. h[1] = seqs[1] /\ \A i \in 2..last : h[i] = J(h[i - 1], i)
    BY <1>9
  <1>11. FlattenSeq(seqs) = h[last]
    BY <1>1 DEF h
  <1>12. \A i \in 2..last : h[i] = h[i - 1] \o seqs[i]
    BY <1>10 DEF J
  <1>13. QED
    BY <1>10, <1>11, <1>12

(* The first n elements of a list are the first parts of the buffer.       *)
Begins(list, n, stamp) ==
    n \in Nat /\ Len(list) >= n /\ \A k \in 1..n : list[k] = <<stamp, k>>

LEMMA JoinedParts ==
  ASSUME NEW S, NEW p \in Seq(S), NEW q \in Seq(S), NEW n, NEW stamp, Begins(p, n, stamp)
  PROVE  /\ p \o q \in Seq(S) /\ Len(p \o q) = Len(p) + Len(q)
         /\ Begins(p \o q, n, stamp)
         /\ (Len(p) = n /\ \A k \in 1..Len(q) : q[k] = <<stamp, n + k>>)
               => Begins(p \o q, n + Len(q), stamp)
  <1> DEFINE r == p \o q
  <1>1. /\ r \in Seq(S) /\ Len(r) = Len(p) + Len(q) /\ Len(p) \in Nat /\ Len(q) \in Nat
        /\ \A k \in 1..Len(p) : r[k] = p[k]
        /\ \A k \in 1..Len(q) : r[Len(p) + k] = q[k]
    OBVIOUS
  <1> HIDE DEF r
  <1>2. n \in Nat /\ n <= Len(p) /\ \A k \in 1..n : k \in 1..Len(p) /\ p[k] = <<stamp, k>>
    BY <1>1 DEF Begins
  <1>3. Begins(r, n, stamp)
    <2>1. Len(r) >= n
      BY <1>1, <1>2
    <2>2. \A k \in 1..n : r[k] = <<stamp, k>>
      BY <1>1, <1>2
    <2>3. QED
      BY <1>2, <2>1, <2>2 DEF Begins
  <1>4. ASSUME Len(p) = n, \A k \in 1..Len(q) : q[k] = <<stamp, n + k>>
        PROVE  Begins(r, n + Len(q), stamp)
    <2>1. ASSUME NEW k \in 1..(n + Len(q)) PROVE r[k] = <<stamp, k>>
      <3>1. CASE k <= n
        BY <1>1, <1>2, <3>1
      <3>2. CASE k > n
        <4>1. k - n \in 1..Len(q) /\ n + (k - n) = k
          BY <1>1, <1>2, <3>2
        <4>2. r[k] = q[k - n] /\ q[k - n] = <<stamp, n + (k - n)>>
          BY <1>1, <1>4, <4>1
        <4>3. QED
          BY <4>1, <4>2
      <3>3. QED
        BY <1>1, <1>2, <3>1, <3>2
    <2>2. QED
      BY <1>1, <1>2, <1>4, <2>1 DEF Begins
  <1>5. QED
    BY <1>1, <1>3, <1>4 DEF r

LEMMA FlattenBegins ==
  ASSUME NEW S, NEW last \in Nat \ {0}, NEW seqs \in [1..last -> Seq(S)],
         NEW m \in 1..last, NEW off, NEW stamp, off[0] = 0,
         \A j \in 1..m : /\ off[j] = off[j - 1] + Len(seqs[j])
                         /\ \A k \in 1..Len(seqs[j]) : seqs[j][k] = <<stamp, off[j - 1] + k>>
  PROVE  FlattenSeq(seqs) \in Seq(S) /\ Begins(FlattenSeq(seqs), off[m], stamp)
  <1>1. last = Len(seqs) /\ \A j \in 1..last : seqs[j] \in Seq(S)
    OBVIOUS
  <1>2. PICK run : /\ run[1] = seqs[1]
                   /\ \A i \in 2..last : run[i] = run[i - 1] \o seqs[i]
                   /\ FlattenSeq(seqs) = run[last]
    BY <1>1, FlattenRuns
  <1> DEFINE Good(i) == /\ run[i] \in Seq(S)
                        /\ i <= m => Len(run[i]) = off[i] /\ Begins(run[i], off[i], stamp)
                        /\ i >= m => Begins(run[i], off[m], stamp)
             T == {i \in 1..last : Good(i)}
  <1>3. 1 \in T
    <2>1. 1 \in 1..m /\ 1 - 1 = 0 /\ 1 \in 1..last
      OBVIOUS
    <2>2. off[1] = off[0] + Len(seqs[1]) /\ \A k \in 1..Len(seqs[1]) : seqs[1][k] = <<stamp, off[0] + k>>
      BY <2>1
    <2>3. run[1] \in Seq(S) /\ Len(run[1]) \in Nat /\ Len(run[1]) = off[1]
      BY <1>1, <1>2, <2>1, <2>2
    <2>4. \A k \in 1..Len(run[1]) : run[1][k] = <<stamp, k>>
      BY <1>2, <2>2, <2>3
    <2>5. Begins(run[1], off[1], stamp)
      BY <2>3, <2>4 DEF Begins
    <2>6. 1 >= m => m = 1
      OBVIOUS
    <2>7. Good(1)
      BY <2>3, <2>5, <2>6
    <2> HIDE DEF Good
    <2>8. QED
      BY <2>1, <2>7
  <1>4. ASSUME NEW i \in 1..(last - 1), i \in T PROVE i + 1 \in T
    <2> DEFINE n == i + 1
               p == run[i]
               q == seqs[n]
    <2>1. n \in 2..last /\ n \in 1..last /\ n - 1 = i
      OBVIOUS
    <2>2. run[n] = p \o q /\ q \in Seq(S) /\ Good(i)
      BY <1>1, <1>2, <1>4, <2>1
    <2>3. CASE n <= m
      <3>1. n \in 1..m /\ i <= m
        BY <2>1, <2>3
      <3>2. p \in Seq(S) /\ Len(p) = off[i] /\ Begins(p, off[i], stamp)
        BY <2>2, <3>1
      <3>3. off[n] = off[i] + Len(q) /\ \A k \in 1..Len(q) : q[k] = <<stamp, off[i] + k>>
        BY <2>1, <3>1
      <3> HIDE DEF p, q, n, Good, T
      <3> DEFINE b == off[i]
      <3>4. p \in Seq(S) /\ q \in Seq(S) /\ Begins(p, b, stamp)
        BY <2>2, <3>2
      <3>5. Len(p) = b /\ \A k \in 1..Len(q) : q[k] = <<stamp, b + k>>
        BY <3>2, <3>3
      <3>6. off[n] = b + Len(q)
        BY <3>3
      <3> HIDE DEF b
      <3>7. /\ p \o q \in Seq(S) /\ Len(p \o q) = Len(p) + Len(q)
             /\ Begins(p \o q, b + Len(q), stamp)
        <4>1. /\ p \o q \in Seq(S) /\ Len(p \o q) = Len(p) + Len(q)
              /\ (Len(p) = b /\ \A k \in 1..Len(q) : q[k] = <<stamp, b + k>>)
                    => Begins(p \o q, b + Len(q), stamp)
          BY ONLY <3>4, JoinedParts
        <4>2. QED
          BY ONLY <4>1, <3>5
      <3>8. /\ p \o q \in Seq(S) /\ Len(p \o q) = off[n]
            /\ Begins(p \o q, off[n], stamp)
        BY <3>5, <3>6, <3>7
      <3>9. n >= m => n = m
        BY <2>1, <2>3
      <3>10. Good(n)
        BY <2>2, <3>8, <3>9 DEF Good
      <3>11. QED
        BY <2>1, <3>10 DEF T, n
    <2>4. CASE ~(n <= m)
      <3>1. i >= m
        BY <2>1, <2>4
      <3>2. p \in Seq(S) /\ Begins(p, off[m], stamp)
        BY <2>2, <3>1
      <3> HIDE DEF p, q, n, Good, T
      <3>3. p \o q \in Seq(S) /\ Begins(p \o q, off[m], stamp)
        BY <2>2, <3>2, JoinedParts
      <3>4. Good(n)
        BY <2>2, <2>4, <3>3 DEF Good
      <3>5. QED
        BY <2>1, <3>4 DEF T, n
    <2>5. QED
      BY <2>3, <2>4
  <1>5. last \in T
    <2>1. Climbs(T, 1, last)
      BY <1>3, <1>4 DEF Climbs
    <2> HIDE DEF T
    <2>2. last \in 1..last /\ last \in Int /\ 1 \in Int
      OBVIOUS
    <2>3. 1..last \subseteq T
      BY ONLY <2>1, <2>2, UpTo
    <2>4. QED
      BY ONLY <2>2, <2>3
  <1>6. QED
    BY <1>2, <1>5

FirstOf(list, n) == SubSeq(list, 1, Min({n, Len(list)}))
PartsOf(n, stamp) == [k \in 1..n |-> <<stamp, k>>]

LEMMA FirstParts ==
  ASSUME NEW S, NEW list \in Seq(S), NEW n \in Nat \ {0}, NEW stamp, Begins(list, n, stamp)
  PROVE  FirstOf(list, n) = PartsOf(n, stamp)
  <1>1. Len(list) \in Nat /\ n <= Len(list) /\ \A k \in 1..n : list[k] = <<stamp, k>>
    BY DEF Begins
  <1>2. Min({n, Len(list)}) = n
    BY <1>1 DEF Min
  <1>3. SubSeq(list, 1, n) = [k \in 1..n |-> list[k]]
    BY <1>1
  <1>4. [k \in 1..n |-> list[k]] = [k \in 1..n |-> <<stamp, k>>]
    BY <1>1
  <1>5. QED
    BY <1>2, <1>3, <1>4 DEF FirstOf, PartsOf

(* The filled slots are leading ones.                                      *)
LEMMA FilledLeads ==
  ASSUME NEW d, NEW ext \in ExtentLists, Compact(ext), NEW m \in 0..Extents, NEW off, NEW stamp,
         Filled(d, ext, m, off, stamp), off[m] # 0
  PROVE  m \in 1..Leading(ext) /\ Leading(ext) \in Nat \ {0} /\ Leading(ext) <= Extents
  <1> DEFINE last == Leading(ext)
  <1>1. Extents \in Nat
    BY AtufsAssumption
  <1>2. off[0] = 0 /\ \A j \in 1..m : ext[j].many > 0
    BY DEF Filled
  <1>3. m # 0
    BY <1>2
  <1>4. last \in 0..Extents /\ \A i \in (last + 1)..Extents : ext[i].many = 0
    BY LeadingSlots
  <1> HIDE DEF last
  <1>5. ~(m > last)
    BY <1>1, <1>2, <1>3, <1>4
  <1>6. m \in 1..last /\ last \in Nat \ {0} /\ last <= Extents
    BY <1>1, <1>3, <1>4, <1>5
  <1>7. QED
    BY <1>6 DEF last

(* A file whose slots hold the parts of a write, all of them.              *)
LEMMA ReadFilled ==
  ASSUME NEW d, NEW n, n.ext \in ExtentLists, Compact(n.ext), n.large,
         NEW m \in 0..Extents, NEW off, NEW stamp,
         Filled(d, n.ext, m, off, stamp), off[m] = Need(n.size), Need(n.size) \in Nat \ {0}
  PROVE  ContentsOn(d, n) = PartsOf(Need(n.size), stamp)
  <1> DEFINE ext == n.ext
             last == Leading(ext)
             part(i, k) == d[Data(ext[i].start + k - 1)]
             cells(i) == [k \in 1..ext[i].many |-> part(i, k)]
             seqs == [i \in 1..last |-> cells(i)]
             S == {d[Data(c)] : c \in Nat}
  <1>1. Extents \in Nat /\ ext \in ExtentLists /\ Compact(ext)
    BY AtufsAssumption
  <1>2. /\ off[0] = 0
        /\ \A j \in 1..m : ext[j].many > 0 /\ off[j] = off[j - 1] + ext[j].many
        /\ \A j \in 1..m : \A c \in Cells(ext[j]) :
              d[Data(c)] = <<stamp, off[j - 1] + c - ext[j].start + 1>>
    BY DEF Filled
  <1>3. ContentsOn(d, n) = FirstOf(FlattenSeq(seqs), Need(n.size))
    BY DEF ContentsOn, FirstOf
  <1> HIDE DEF ext
  <1>4. m \in 1..last /\ last \in Nat \ {0} /\ last <= Extents
    BY <1>1, FilledLeads DEF ext
  <1> HIDE DEF last
  <1>5. \A i \in 1..last : ext[i].start \in Nat /\ ext[i].many \in Nat
    BY <1>1, <1>4 DEF ExtentLists, Extent
  <1>6. \A i \in 1..last : cells(i) \in Seq(S) /\ Len(cells(i)) = ext[i].many
    <2> SUFFICES ASSUME NEW i \in 1..last
                 PROVE  cells(i) \in Seq(S) /\ Len(cells(i)) = ext[i].many
      OBVIOUS
    <2>1. \A k \in 1..ext[i].many : part(i, k) \in S
      <3>1. \A k \in 1..ext[i].many : ext[i].start + k - 1 \in Nat
        BY <1>5
      <3>2. QED
        BY <3>1
    <2> HIDE DEF part, S
    <2>2. QED
      BY <1>5, <2>1
  <1>7. \A j \in 0..m : off[j] \in Nat
    <2> DEFINE T == {j \in 0..m : off[j] \in Nat}
    <2>1. Climbs(T, 0, m)
      <3>1. 0 \in T
        BY <1>2
      <3>2. ASSUME NEW j \in 0..(m - 1), j \in T PROVE j + 1 \in T
        <4>1. j + 1 \in 1..m /\ (j + 1) - 1 = j
          OBVIOUS
        <4>2. off[j + 1] = off[j] + ext[j + 1].many /\ ext[j + 1].many \in Nat
          BY <1>2, <1>4, <1>5, <4>1
        <4>3. QED
          BY <3>2, <4>1, <4>2
      <3>3. QED
        BY <3>1, <3>2 DEF Climbs
    <2> HIDE DEF T
    <2>2. 0..m \subseteq T
      BY <2>1, UpTo
    <2>3. QED
      BY <2>2 DEF T
  <1>8. \A j \in 1..m : /\ off[j] = off[j - 1] + Len(cells(j))
                        /\ \A k \in 1..Len(cells(j)) : cells(j)[k] = <<stamp, off[j - 1] + k>>
    <2> SUFFICES ASSUME NEW j \in 1..m
                 PROVE  /\ off[j] = off[j - 1] + Len(cells(j))
                        /\ \A k \in 1..Len(cells(j)) : cells(j)[k] = <<stamp, off[j - 1] + k>>
      OBVIOUS
    <2> DEFINE start == ext[j].start
               b == off[j - 1]
    <2>1. j \in 1..last /\ b \in Nat /\ start \in Nat /\ ext[j].many \in Nat
      BY <1>4, <1>5, <1>7
    <2>2. ASSUME NEW k \in 1..ext[j].many PROVE cells(j)[k] = <<stamp, b + k>>
      <3>1. start + k - 1 \in Cells(ext[j])
        <4>1. start + k - 1 \in start..(start + ext[j].many - 1)
          BY <2>1
        <4>2. QED
          BY <4>1 DEF Cells, Run
      <3>2. d[Data(start + k - 1)] = <<stamp, b + (start + k - 1) - start + 1>>
        BY <1>2, <3>1
      <3>3. b + (start + k - 1) - start + 1 = b + k
        BY <2>1
      <3>4. cells(j)[k] = d[Data(start + k - 1)]
        OBVIOUS
      <3>5. QED
        BY <3>2, <3>3, <3>4
    <2>3. QED
      BY <1>2, <1>6, <2>1, <2>2
  <1> HIDE DEF cells, S
  <1>9. /\ seqs \in [1..last -> Seq(S)]
        /\ \A j \in 1..m : /\ off[j] = off[j - 1] + Len(seqs[j])
                           /\ \A k \in 1..Len(seqs[j]) : seqs[j][k] = <<stamp, off[j - 1] + k>>
    <2>1. \A j \in 1..m : j \in 1..last /\ seqs[j] = cells(j)
      BY <1>4
    <2>2. seqs \in [1..last -> Seq(S)]
      BY <1>6
    <2> HIDE DEF seqs
    <2>3. QED
      BY <1>8, <2>1, <2>2
  <1> HIDE DEF seqs
  <1>10. FlattenSeq(seqs) \in Seq(S) /\ Begins(FlattenSeq(seqs), off[m], stamp)
    BY <1>2, <1>4, <1>9, FlattenBegins
  <1>11. FirstOf(FlattenSeq(seqs), off[m]) = PartsOf(off[m], stamp)
    BY <1>10, FirstParts
  <1>12. QED
    BY <1>3, <1>11

-----------------------------------------------------------------------------
(* An inode with one extent has in it all the clusters its size asks for.  *)
Full(n) == Leading(n.ext) = 1 => n.ext[1].many = Need(n.size)

(* The file is whole, and reads as it was written unless the write was     *)
(* short or went to several extents again.                                 *)
ReadsOn(d, f, inode, size, stamp, short) ==
    /\ Full(d[Inode(f)])
    /\ (~short /\ ~(SameNeed(inode, size) /\ Leading(inode.ext) # 1))
            => ContentsOn(d, d[Inode(f)]) = Intended(size, stamp)

LEMMA LeadingNone == Leading(NoExtents) = 0
  <1>1. /\ Leading(NoExtents) \in 0..Extents /\ Extents \in Nat
        /\ \A i \in 1..Leading(NoExtents) : NoExtents[i].many > 0
    BY NothingHeld, LeadingSlots, AtufsAssumption
  <1>2. \A i \in 1..Extents : NoExtents[i].many = 0
    BY DEF NoExtents, NoExtent
  <1>3. QED
    BY <1>1, <1>2

LEMMA NeedSome ==
  ASSUME NEW size \in Nat
  PROVE  Need(size) \in Nat /\ (size > InlineMax => Need(size) # 0)
  <1>1. ClusterBytes \in Nat \ {0} /\ InlineMax \in Nat
    BY AtufsAssumption
  <1>2. size + ClusterBytes - 1 \in Nat
    BY <1>1
  <1>3. (size + ClusterBytes - 1) \div ClusterBytes \in Nat
    BY <1>1, <1>2
  <1>4. ASSUME size > InlineMax PROVE (size + ClusterBytes - 1) \div ClusterBytes # 0
    <2>1. size + ClusterBytes - 1 >= ClusterBytes
      BY <1>1, <1>4
    <2>2. QED
      BY <1>1, <1>2, <2>1
  <1>5. QED
    BY <1>3, <1>4 DEF Need

(* A large inode is written after the clusters it names.                   *)
LEMMA LargeReads ==
  ASSUME NEW s, Sound(s), NEW f \in FileNumbers, NEW size \in Nat, size > InlineMax,
         NEW stamp, NEW n \in Inodes, n.large, n.size = size,
         NEW m \in 0..Extents, NEW off, Filled(s.disk, n.ext, m, off, stamp),
         off[m] = Need(size)
  PROVE  LET d == Write(s, Inode(f), n).disk
         IN  /\ d[Inode(f)] = n /\ Full(n)
             /\ ContentsOn(d, n) = Intended(size, stamp)
  <1> DEFINE u == Write(s, Inode(f), n)
             d == u.disk
  <1>1. Need(size) \in Nat \ {0} /\ ~(size <= InlineMax)
    BY NeedSome, AtufsAssumption
  <1>2. Inode(f) \in Labels /\ Formed(s)
    BY SoundFormed DEF Labels
  <1>3. d[Inode(f)] = n
    BY InodeSound DEF InodeIs
  <1>4. \A c \in ClusterNumbers : d[Data(c)] = s.disk[Data(c)]
    BY <1>2, WritePlain DEF Plain
  <1> HIDE DEF u
  <1>5. /\ Extents \in Nat /\ n.ext \in ExtentLists /\ Compact(n.ext)
        /\ \A j \in 1..m : Cells(n.ext[j]) \subseteq ClusterNumbers
    <2>1. Extents \in Nat /\ n.ext \in ExtentLists /\ Compact(n.ext) /\ InVolume(n.ext)
      BY AtufsAssumption DEF Inodes, InodeRecords, Trim
    <2>2. QED
      BY <2>1 DEF InVolume
  <1>6. Filled(d, n.ext, m, off, stamp)
    BY <1>4, <1>5 DEF Filled
  <1> HIDE DEF d
  <1>7. m \in 1..Leading(n.ext) /\ Leading(n.ext) \in Nat
    BY <1>1, <1>5, <1>6, FilledLeads
  <1>8. Full(n)
    <2> SUFFICES ASSUME Leading(n.ext) = 1 PROVE n.ext[1].many = Need(size)
      BY DEF Full
    <2>1. m = 1
      BY <1>7
    <2>2. off[1] = off[1 - 1] + n.ext[1].many /\ off[0] = 0
      BY <1>6, <2>1 DEF Filled
    <2>3. n.ext[1].many \in Nat /\ off[1] = Need(size)
      BY <1>5, <1>7, <2>1 DEF ExtentLists, Extent
    <2>4. QED
      BY <2>2, <2>3
  <1>9. ContentsOn(d, n) = PartsOf(Need(n.size), stamp)
    BY <1>1, <1>5, <1>6, ReadFilled
  <1>10. Intended(size, stamp) = PartsOf(Need(size), stamp)
    BY <1>1 DEF Intended, PartsOf
  <1>11. QED
    BY <1>3, <1>8, <1>9, <1>10 DEF d, u

LEMMA WriteFileReads ==
  ASSUME Extents > 1, NEW s, Sound(s), NEW f \in FileNumbers, NEW inode \in Inodes,
         NEW O, Held(s.disk[CBmp], inode.ext, O),
         Full(inode), Full(s.disk[Inode(f)]),
         NEW size \in Nat, NEW stamp \in Stamps
  PROVE  LET r == write_file(s, f, inode, size, stamp)
         IN  ReadsOn(r.s.disk, f, inode, size, stamp, r.short)
  <1> DEFINE ext == IF inode.large THEN inode.ext ELSE NoExtents
             own == inode.ext
             large(e) == [large |-> TRUE, size |-> size, ext |-> e, inline |-> <<>>]
             small == [large |-> FALSE, size |-> size, ext |-> NoExtents, inline |-> stamp]
             r == write_file(s, f, inode, size, stamp)
  <1>1. /\ ext = own /\ own \in ExtentLists /\ Compact(own) /\ InVolume(own)
        /\ stamp \in Stamps \cup {<<>>} /\ (own # NoExtents => inode.large)
    BY DEF Inodes, InodeRecords, Trim
  <1>2. InlineMax \in Nat /\ Extents \in Nat /\ Formed(s)
    BY AtufsAssumption, SoundFormed
  <1>3. small \in Inodes
    BY NothingHeld DEF Inodes, InodeRecords, Trim
  <1>4. ASSUME size > InlineMax, NEW e \in ExtentLists, Compact(e), InVolume(e)
        PROVE  large(e) \in Inodes /\ large(e).ext = e /\ large(e).large /\ large(e).size = size
    <2>1. ~(size <= InlineMax)
      BY <1>2, <1>4
    <2>2. QED
      BY <1>4, <2>1 DEF Inodes, InodeRecords, Trim
  <1>5. Held(s.disk[CBmp], own, O)
    OBVIOUS
  <1> HIDE DEF ext, own, large
  <1>6. CASE size <= InlineMax
    <2> DEFINE t == ClearSlots(s, own, 1, Extents)
    <2>1. r = [s |-> Write(t, Inode(f), small), short |-> FALSE]
      <3>1. ~SameNeed(inode, size)
        BY <1>2, <1>6 DEF SameNeed
      <3>2. QED
        BY <1>1, <1>6, <3>1 DEF write_file, ext
    <2>2. Formed(t)
      <3> DEFINE from == 1
      <3>1. from \in 1..(Extents + 1) /\ own \in ExtentLists
        BY <1>1, AtufsAssumption
      <3> HIDE DEF from
      <3>2. Plain(s, ClearSlots(s, own, from, Extents))
        BY <1>2, <3>1, ClearSlotsPlain
      <3>3. QED
        BY <3>2 DEF Plain, from
    <2> HIDE DEF t, r
    <2>3. r.s.disk[Inode(f)] = small
      <3>1. Inode(f) \in DOMAIN t.disk
        BY <2>2, AddressesApart DEF Formed
      <3>2. r.s.disk = [t.disk EXCEPT ![Inode(f)] = small]
        BY <2>1 DEF Write
      <3>3. QED
        BY <3>1, <3>2
    <2>4. Full(small)
      BY LeadingNone DEF Full
    <2>5. ContentsOn(r.s.disk, small) = Intended(size, stamp)
      BY <1>6 DEF ContentsOn, Intended
    <2> HIDE DEF small
    <2>6. QED
      BY <2>3, <2>4, <2>5 DEF ReadsOn, r
  <1>7. CASE SameNeed(inode, size)
    <2> DEFINE t == Rewrite(s, own, stamp)
               n == large(own)
               u == Write(t, Inode(f), n)
    <2>1. size > InlineMax /\ ~(size <= InlineMax) /\ Need(size) = Need(inode.size)
      BY <1>2, <1>7 DEF SameNeed
    <2>2. r = [s |-> u, short |-> FALSE]
      BY <1>1, <1>7, <2>1 DEF write_file, ext, large
    <2>3. Sound(t)
      BY <1>1, RewriteSound
    <2>4. n \in Inodes /\ n.ext = own /\ n.large /\ n.size = size
      BY <1>1, <1>4, <2>1
    <2> HIDE DEF r, t, n
    <2>5. u.disk[Inode(f)] = n
      BY <2>3, <2>4, InodeSound DEF InodeIs
    <2>6. Full(n)
      BY <2>1, <2>4 DEF Full, own
    <2>7. ASSUME Leading(own) = 1 PROVE ContentsOn(u.disk, n) = Intended(size, stamp)
      <3> DEFINE e == own[1]
                 off == [j \in 0..1 |-> IF j = 0 THEN 0 ELSE e.many]
      <3>1. /\ e \in Extent /\ e.many > 0 /\ e.many = Need(size) /\ 1 \in 1..Extents
            /\ Cells(e) = Run(e.start, e.many)
        <4>1. 1 \in 1..Extents
          BY <1>2
        <4>2. e \in Extent
          BY <1>1, <4>1 DEF ExtentLists
        <4>3. e.many > 0
          BY <1>1, <2>7, LeadingSlots
        <4>4. e.many = Need(size)
          BY <2>1, <2>7 DEF Full, own
        <4>5. QED
          BY <4>1, <4>2, <4>3, <4>4 DEF Cells
      <3> DEFINE x == WriteData(s, e.start, e.many, stamp, 0)
      <3>2. t = x
        <4>1. Leading(own) \in Nat /\ 1 \in 1..Leading(own) /\ 1 - 1 = 0
          BY <2>7
        <4>2. PICK run : /\ run[0] = s
                         /\ \A i \in 1..Leading(own) :
                               run[i] = WriteData(run[i - 1], own[i].start, own[i].many, stamp, 0)
                         /\ Rewrite(s, own, stamp) = run[Leading(own)]
          BY <4>1, RewriteRuns
        <4>3. run[1] = WriteData(run[0], e.start, e.many, stamp, 0)
          BY <4>1, <4>2
        <4>4. QED
          BY <2>7, <4>2, <4>3 DEF t
      <3>3. Puts(s, x, e.start, e.many, stamp, 0)
        BY <1>2, WriteDataPuts
      <3> HIDE DEF x
      <3>4. \A c \in Cells(e) : t.disk[Data(c)] = <<stamp, 0 + c - e.start + 1>>
        <4>1. Cells(e) \subseteq ClusterNumbers
          BY <1>1, <3>1 DEF InVolume
        <4>2. QED
          BY <3>1, <3>2, <3>3, <4>1 DEF Puts
      <3> HIDE DEF e
      <3>5. /\ off[0] = 0 /\ off[1] = e.many /\ off[1] = off[0] + e.many
            /\ \A j \in 1..1 : j = 1 /\ off[j - 1] = off[0]
        BY <3>1 DEF Extent
      <3> HIDE DEF off
      <3>6. Filled(t.disk, own, 1, off, stamp)
        BY <3>1, <3>4, <3>5 DEF Filled, e
      <3>7. 1 \in 0..Extents /\ off[1] = Need(size)
        BY <3>1, <3>5
      <3>8. QED
        BY <2>1, <2>3, <2>4, <3>6, <3>7, LargeReads
    <2> HIDE DEF u
    <2>8. r.s = u
      BY <2>2
    <2>9. ReadsOn(u.disk, f, inode, size, stamp, r.short)
      BY <1>7, <2>5, <2>6, <2>7 DEF ReadsOn, own
    <2>10. QED
      BY <2>8, <2>9 DEF r
  <1>8. CASE size > InlineMax /\ ~SameNeed(inode, size)
    <2> DEFINE need == Need(size)
               w == Resize(s, own, need, stamp)
               n == large(w.ext)
               u == Write(w.s, Inode(f), n)
               tight == FALSE
    <2>1. ~(size <= InlineMax) /\ need \in Nat /\ need # 0
      BY <1>2, <1>8, NeedSome
    <2>2. r = [s |-> IF w.loop = "full" THEN w.s ELSE u, short |-> w.left > 0]
      BY <1>1, <1>8, <2>1 DEF write_file, ext, large
    <2> HIDE DEF need
    <2>3. Kept(s, O, tight, w) /\ Shaped(w, Extents)
      <3>1. tight \in BOOLEAN /\ (tight => Exact(s.disk[CBmp], own, O))
        OBVIOUS
      <3> HIDE DEF tight
      <3>2. QED
        BY <1>1, <1>5, <2>1, <3>1, ResizeKept
    <2>4. PICK m \in 0..Extents : \E off : Fills(w, Extents, m, off, need, stamp)
      BY <1>1, <1>5, <2>1, ResizeFills
    <2>5. PICK off : Fills(w, Extents, m, off, need, stamp)
      BY <2>4
    <2> HIDE DEF w, n, r
    <2>6. /\ Sound(w.s) /\ SameFiles(s, w.s) /\ w.ext \in ExtentLists /\ w.left \in Nat
          /\ Held(w.s.disk[CBmp], w.ext, O)
      BY <2>3 DEF Kept
    <2>7. CASE w.loop = "full"
      <3>1. w.left > 0
        BY <2>3, <2>7 DEF Shaped
      <3>2. r.s = w.s /\ r.short
        BY <2>2, <2>7, <3>1
      <3>3. Full(w.s.disk[Inode(f)])
        BY <2>6 DEF SameFiles
      <3>4. QED
        BY <3>2, <3>3 DEF ReadsOn, r
    <2>8. CASE w.loop # "full"
      <3>1. Compact(w.ext) /\ InVolume(w.ext)
        BY <2>3, <2>6, <2>8, HeldInVolume DEF Shaped, Compact, CompactFrom
      <3>2. n \in Inodes /\ n.ext = w.ext /\ n.large /\ n.size = size
        BY <1>4, <1>8, <2>6, <3>1 DEF n
      <3>3. u.disk[Inode(f)] = n
        BY <2>6, <3>2, InodeSound DEF InodeIs
      <3>4. ASSUME w.left = 0 PROVE Full(n) /\ ContentsOn(u.disk, n) = Intended(size, stamp)
        <4>1. Filled(w.s.disk, n.ext, m, off, stamp) /\ off[m] = Need(size)
          BY <2>1, <2>5, <3>2, <3>4 DEF Fills, need
        <4>2. QED
          BY <1>8, <2>6, <3>2, <4>1, LargeReads
      <3>5. ASSUME w.left > 0 PROVE Full(n)
        <4>1. \A j \in 1..Extents : w.ext[j].many > 0
          BY <2>3, <2>8, <3>5 DEF Shaped
        <4>2. /\ Leading(w.ext) \in 0..Extents
              /\ \A i \in (Leading(w.ext) + 1)..Extents : w.ext[i].many = 0
          BY <2>6, <3>1, LeadingSlots
        <4>3. ~(Leading(w.ext) < Extents)
          BY <1>2, <4>1, <4>2
        <4>4. Leading(n.ext) # 1
          BY <1>2, <3>2, <4>2, <4>3
        <4>5. QED
          BY <4>4 DEF Full
      <3> HIDE DEF u
      <3>6. r.s = u /\ (r.short <=> w.left > 0)
        BY <2>2, <2>8
      <3>7. QED
        BY <2>6, <3>3, <3>4, <3>5, <3>6 DEF ReadsOn, r
    <2>9. QED
      BY <2>7, <2>8
  <1>9. QED
    BY <1>2, <1>6, <1>7, <1>8

-----------------------------------------------------------------------------
(* What is left to write leads to a volume on which the last write reads   *)
(* as it should.                                                           *)
Faithful(o) == o.name \in {"create", "write"} /\ ~o.short /\ ~(o.same /\ o.runs # 1)
AsWritten(v, o) == o.file \in FileNumbers
                   /\ ContentsOn(v, v[Inode(o.file)]) = Intended(o.size, o.stamp)
AllWhole(v) == \A f \in FileNumbers : Full(v[Inode(f)])

RInv == \E v : /\ Leads(disk, todo, v) /\ Volume(v) /\ AllWhole(v)
               /\ Faithful(op) => AsWritten(v, op)

LEMMA RewriteReads ==
  ASSUME Extents > 1, IInv, RInv, NEW f \in live, NEW size \in Sizes, NEW stamp \in Stamps,
         rewrite_file(f, size, stamp)
  PROVE  RInv'
  <1> DEFINE inode == disk[Inode(f)]
             w == write_file(Now, f, inode, size, stamp)
             O == Others(disk, f)
             u == w.s.disk
  <1>1. Ledger(disk, info, live, deleted, ~strained) /\ Sound(Now) /\ Now.disk = disk
    BY IdleLedger DEF rewrite_file, Now
  <1>2. AllWhole(disk)
    <2>1. PICK v : Leads(disk, todo, v) /\ Volume(v) /\ AllWhole(v)
      BY DEF RInv
    <2>2. v = disk
      BY <2>1, LeadsDone DEF IInv, rewrite_file, Idle
    <2>3. QED
      BY <2>1, <2>2
  <1>3. /\ f \in FileNumbers /\ size \in Nat /\ inode \in Inodes
        /\ Held(disk[CBmp], inode.ext, O)
    <2>1. f \in FileNumbers /\ size \in Nat
      BY InputAssumption DEF IInv
    <2>2. inode \in Inodes
      BY <2>1, VolumeTypes DEF IInv
    <2>3. QED
      BY <1>1, <2>1, <2>2 DEF Ledger, Owned
  <1>4. /\ Begin(w.s)
        /\ op' = [name |-> "write", file |-> f, size |-> size, stamp |-> stamp,
                  short |-> w.short, same |-> SameNeed(inode, size),
                  runs |-> Leading(inode.ext)]
    BY DEF rewrite_file
  <1>5. Wrote(Now, f, O, FALSE, w)
    <2>1. Held(Now.disk[CBmp], inode.ext, O)
      BY <1>1, <1>3
    <2> HIDE DEF O, inode
    <2>2. QED
      BY <1>1, <1>3, <2>1, WriteFileSound
  <1>6. ReadsOn(u, f, inode, size, stamp, w.short)
    <2>1. /\ Held(Now.disk[CBmp], inode.ext, O)
          /\ Full(inode) /\ Full(Now.disk[Inode(f)])
      BY <1>1, <1>2, <1>3 DEF AllWhole
    <2> HIDE DEF O, inode
    <2>2. QED
      BY <1>1, <1>3, <2>1, WriteFileReads
  <1> HIDE DEF w, O, inode
  <1>7. Sound(w.s) /\ Changes(disk, u, f)
    BY <1>1, <1>5 DEF Wrote, Changes
  <1>8. Leads(disk', todo', u) /\ Volume(u)
    BY <1>4, <1>7 DEF Begin, Sound, Safe
  <1>9. AllWhole(u)
    BY <1>2, <1>6, <1>7 DEF AllWhole, Changes, ReadsOn
  <1>10. Faithful(op') => AsWritten(u, op')
    BY <1>3, <1>4, <1>6 DEF Faithful, AsWritten, ReadsOn
  <1>11. QED
    BY <1>8, <1>9, <1>10 DEF RInv

LEMMA IdleWhole ==
  ASSUME IInv, RInv, Idle
  PROVE  AllWhole(disk)
  <1>1. PICK v : Leads(disk, todo, v) /\ Volume(v) /\ AllWhole(v)
    BY DEF RInv
  <1>2. v = disk
    BY <1>1, LeadsDone DEF IInv, Idle
  <1>3. QED
    BY <1>1, <1>2

LEMMA CreateReads ==
  ASSUME Extents > 1, IInv, RInv, NEW size \in Sizes, NEW stamp \in Stamps,
         create_file(size, stamp)
  PROVE  RInv'
  <1> DEFINE c == create(Now, size, stamp)
             a == alocate_file(Now)
             f == a.file
             fresh == [NoInode EXCEPT !.large = size > InlineMax]
             w == write_file(a.s, f, fresh, size, stamp)
             v == disk
             O == Others(v, f)
  <1>1. Ledger(v, info, live, deleted, ~strained) /\ Sound(Now) /\ Now.disk = v
    BY IdleLedger DEF create_file, Now
  <1>2. FreeFiles(Now) # {}
    BY DEF create_file, create
  <1>3. c.s = w.s /\ c.file = f /\ c.short = w.short
    BY <1>2 DEF create
  <1>4. /\ Begin(w.s)
        /\ op' = [NoOp EXCEPT !.name = "create", !.file = f, !.size = size,
                              !.stamp = stamp, !.short = w.short]
    <2> HIDE DEF w, f, a
    <2>1. /\ Begin(c.s)
          /\ op' = [NoOp EXCEPT !.name = "create", !.file = c.file, !.size = size,
                                !.stamp = stamp, !.short = c.short]
      BY DEF create_file
    <2> HIDE DEF c
    <2>2. QED
      BY <1>3, <2>1
  <1>5. /\ f \in FileNumbers /\ Sound(a.s) /\ a.s.disk[CBmp] = v[CBmp]
        /\ \A g \in FileNumbers : a.s.disk[Inode(g)] = v[Inode(g)]
    BY <1>1, <1>2, AlocateFileSound
  <1> HIDE DEF a, f, c
  <1>6. size \in Nat /\ InlineMax \in Nat
    BY InputAssumption, AtufsAssumption
  <1>7. fresh \in Inodes /\ fresh.ext = NoExtents /\ fresh.size = 0
    <2>1. fresh = [large |-> size > InlineMax, size |-> 0, ext |-> NoExtents, inline |-> <<>>]
      BY DEF NoInode
    <2> HIDE DEF fresh
    <2>2. fresh \in InodeRecords /\ fresh.ext = NoExtents
      BY <2>1, NothingHeld DEF InodeRecords
    <2>3. QED
      BY <2>1, <2>2, NothingHeld DEF Inodes, Trim
  <1>8. Held(a.s.disk[CBmp], fresh.ext, O)
    <2>1. Held(v[CBmp], v[Inode(f)].ext, O)
      BY <1>1, <1>5 DEF Ledger, Owned
    <2>2. Held(v[CBmp], NoExtents, O)
      BY <2>1, NothingHeld DEF Held, SlotsApart
    <2>3. QED
      BY <1>5, <1>7, <2>2
  <1>9. ~SameNeed(fresh, size)
    <2>1. ClusterBytes \in Nat \ {0}
      BY AtufsAssumption
    <2>2. (0 + ClusterBytes - 1) \div ClusterBytes = 0
      BY <2>1
    <2>3. Need(0) = 0
      BY <2>2 DEF Need
    <2> HIDE DEF fresh
    <2>4. QED
      BY <1>6, <1>7, <2>3, NeedSome DEF SameNeed
  <1>10. AllWhole(v)
    BY IdleWhole DEF create_file
  <1> HIDE DEF fresh, O
  <1>11. Wrote(a.s, f, O, FALSE, w)
    BY <1>5, <1>6, <1>7, <1>8, WriteFileSound
  <1>12. ReadsOn(w.s.disk, f, fresh, size, stamp, w.short)
    <2>1. Full(fresh) /\ Full(a.s.disk[Inode(f)])
      BY <1>5, <1>7, <1>10, LeadingNone DEF Full, AllWhole
    <2>2. QED
      BY <1>5, <1>6, <1>7, <1>8, <2>1, WriteFileReads
  <1> HIDE DEF w
  <1> DEFINE u == w.s.disk
  <1>13. Sound(w.s) /\ Changes(v, u, f)
    BY <1>5, <1>11 DEF Wrote, Changes
  <1>14. Leads(disk', todo', u) /\ Volume(u)
    BY <1>4, <1>13 DEF Begin, Sound, Safe
  <1>15. AllWhole(u)
    BY <1>10, <1>12, <1>13 DEF AllWhole, Changes, ReadsOn
  <1>16. Faithful(op') => AsWritten(u, op')
    <2>1. /\ op'.file = f /\ op'.size = size /\ op'.stamp = stamp /\ op'.short = w.short
      BY <1>4 DEF NoOp
    <2>2. QED
      BY <1>5, <1>9, <1>12, <2>1 DEF Faithful, AsWritten, ReadsOn
  <1>17. QED
    BY <1>14, <1>15, <1>16 DEF RInv

LEMMA RemoveReads ==
  ASSUME IInv, RInv, NEW f \in live \ {Root}, remove_file(f)
  PROVE  RInv'
  <1>1. /\ Ledger(disk, info, live, deleted, ~strained) /\ Sound(Now)
        /\ Now.disk = disk /\ Now.info = info /\ f \in FileNumbers /\ AllWhole(disk)
    BY IdleLedger, IdleWhole DEF remove_file, Now, IInv
  <1>2. CASE /\ f \in disk[FBmp] /\ Begin(delete_file(Now, f))
             /\ op' = [NoOp EXCEPT !.name = "delete", !.file = f]
    <2> DEFINE u == delete_file(Now, f)
               O == Others(disk, f)
               d == u.disk
    <2>1. Removed(Now, f, O, FALSE, u)
      <3>1. Held(Now.disk[CBmp], Now.disk[Inode(f)].ext, O) /\ f \in Now.disk[FBmp]
        BY <1>1, <1>2 DEF Ledger, Owned
      <3> HIDE DEF O
      <3>2. QED
        BY <1>1, <3>1, DeleteSound
    <2> HIDE DEF u, O
    <2>2. Sound(u) /\ d[Inode(f)].ext = NoExtents /\ Changes(disk, d, f)
      BY <1>1, <2>1 DEF Removed, NoInode
    <2>3. Leads(disk', todo', d) /\ Volume(d)
      BY <1>2, <2>2 DEF Begin, Sound, Safe, u
    <2>4. AllWhole(d)
      BY <1>1, <2>2, LeadingNone DEF AllWhole, Changes, Full
    <2>5. ~Faithful(op')
      BY <1>2 DEF Faithful, NoOp
    <2>6. QED
      BY <2>3, <2>4, <2>5 DEF RInv
  <1>3. CASE UNCHANGED <<disk, info, todo, op>>
    BY <1>3 DEF RInv
  <1>4. QED
    BY <1>2, <1>3 DEF remove_file, diskVars

LEMMA FlushReads ==
  ASSUME IInv, RInv, FlushSector, UNCHANGED history
  PROVE  RInv'
  <1>1. PICK v : /\ Leads(disk, todo, v) /\ Volume(v) /\ AllWhole(v)
                 /\ Faithful(op) => AsWritten(v, op)
    BY DEF RInv
  <1>2. todo \in Seq(Writes) /\ todo # <<>> /\ Volume(disk)
    BY DEF IInv, FlushSector, Idle
  <1>3. /\ disk' = [disk EXCEPT ![Head(todo).at] = Head(todo).is] /\ todo' = Tail(todo)
        /\ op' = op
    BY DEF FlushSector, history
  <1>4. Leads(disk', todo', v)
    BY <1>1, <1>2, <1>3, LeadsFlush
  <1>5. QED
    BY <1>1, <1>3, <1>4 DEF RInv

LEMMA InitReads == ASSUME Init PROVE RInv
  <1>1. IInv /\ todo = <<>> /\ op.name = "none"
    BY InitLedger DEF Init, DiskInit, NoOp
  <1>2. Volume(disk) /\ Leads(disk, todo, disk)
    BY <1>1, LeadsNowhere DEF IInv
  <1>3. \A f \in FileNumbers : disk[Inode(f)] = NoInode
    <2>1. disk = NewVolume
      BY DEF Init, DiskInit
    <2>2. \A f \in FileNumbers : Inode(f)[1] = "inode"
      BY DEF Inode
    <2>3. QED
      BY <2>1, <2>2, AddressesApart DEF NewVolume
  <1>4. AllWhole(disk)
    BY <1>3, LeadingNone DEF AllWhole, Full, NoInode
  <1>5. QED
    BY <1>1, <1>2, <1>4 DEF RInv, Faithful

(* A write that did not run short reads back as it was written, unless it  *)
(* went again to clusters that are not in one extent. With one slot for    *)
(* extents the code would not keep this: a short write would fill it, and  *)
(* a second write of the size that was asked for would trust it.           *)
THEOREM WritesReadBack ==
  ASSUME Extents > 1
  PROVE  Spec => []ReadsBack
  <1>1. Init => RInv
    BY InitReads
  <1>2. IInv /\ RInv /\ [Next]_vars => RInv'
    <2> SUFFICES ASSUME IInv, RInv, [Next]_vars PROVE RInv'
      OBVIOUS
    <2>1. ASSUME NEW size \in Sizes, NEW stamp \in Stamps, create_file(size, stamp) PROVE RInv'
      BY <2>1, CreateReads
    <2>2. ASSUME NEW f \in live, NEW size \in Sizes, NEW stamp \in Stamps,
                 rewrite_file(f, size, stamp)
          PROVE  RInv'
      BY <2>2, RewriteReads
    <2>3. ASSUME NEW f \in live \ {Root}, remove_file(f) PROVE RInv'
      BY <2>3, RemoveReads
    <2>4. CASE FlushSector /\ UNCHANGED history
      BY <2>4, FlushReads
    <2>5. CASE UNCHANGED vars
      BY <2>5 DEF vars, diskVars, history, RInv
    <2>6. QED
      BY <2>1, <2>2, <2>3, <2>4, <2>5 DEF Next
  <1>3. IInv /\ RInv => ReadsBack
    <2> SUFFICES ASSUME IInv, RInv, Idle, Faithful(op)
                 PROVE  Reads(op.file) = Intended(op.size, op.stamp)
      BY DEF ReadsBack, Faithful
    <2>1. PICK v : Leads(disk, todo, v) /\ Volume(v) /\ AsWritten(v, op)
      BY DEF RInv
    <2>2. v = disk
      BY <2>1, LeadsDone DEF IInv, Idle
    <2>3. QED
      BY <2>1, <2>2 DEF AsWritten, Reads
  <1>4. QED
    BY <1>1, <1>2, <1>3, LedgerKept, PTL DEF Spec

-----------------------------------------------------------------------------
(***************************************************************************)
(* Directory: a crash may come between any two sectors, so that every disk *)
(* on the way has to be one a machine can start from. An operation is      *)
(* followed by the disks it leaves behind one sector after the other. No   *)
(* operation of module Directory frees a cluster: a file only grows.       *)
(***************************************************************************)

(* An inode has no more clusters than its size asks for.                   *)
Sized(n) ==
    /\ n.size \in Nat /\ n.ext \in ExtentLists
    /\ Compact(n.ext) /\ InVolume(n.ext)
    /\ (~n.large \/ n.size <= InlineMax) => n.ext = NoExtents
    /\ Cardinality(CellsFrom(n.ext, 1, Extents)) <= Need(n.size)

IsDisk(d) == d = [a \in Addresses |-> d[a]]

(* The clusters that files have.                                           *)
AllCells(d) == UNION {CellsHeld(d, f) : f \in FileNumbers}

Restartable(d) ==
    /\ IsDisk(d)
    /\ d[Info] \in Counts
    /\ d[CBmp] \subseteq ClusterNumbers
    /\ Cardinality(AllCells(d)) <= d[Info].clusters
    /\ \A f \in FileNumbers : Sized(d[Inode(f)])
    /\ Owned(d)

(* D[k] is the disk when k sectors of the log have been written.           *)
Way(D, log) ==
    /\ \A k \in 0..Len(log) : Restartable(D[k])
    /\ \A k \in 1..Len(log) : D[k] = [D[k - 1] EXCEPT ![log[k].at] = log[k].is]

Reaches(d, log, e) == \E D : D[0] = d /\ D[Len(log)] = e /\ Way(D, log)

IsLog(log) == \E S : log \in Seq(S)

LEMMA AllCellsSplit ==
  ASSUME NEW d, NEW f \in FileNumbers
  PROVE  AllCells(d) = Others(d, f) \cup CellsHeld(d, f)
  BY DEF AllCells, Others

LEMMA ClustersFinite ==
  ASSUME NEW S, S \subseteq ClusterNumbers
  PROVE  IsFiniteSet(S) /\ Cardinality(S) \in Nat
  <1>1. IsFiniteSet(ClusterNumbers)
    BY AtufsAssumption, FS_Interval DEF ClusterNumbers
  <1>2. QED  BY <1>1, FS_Subset, FS_CardinalityType

LEMMA AllCellsMarked ==
  ASSUME NEW d, Owned(d)
  PROVE  AllCells(d) \subseteq d[CBmp]
  <1>1. \A f \in FileNumbers : CellsHeld(d, f) \subseteq d[CBmp]
    BY DEF Owned, Held, CellsHeld, CellsFrom
  <1>2. QED  BY <1>1 DEF AllCells

LEMMA ReachesNowhere ==
  ASSUME NEW d, Restartable(d)
  PROVE  Reaches(d, <<>>, d) /\ IsLog(<<>>)
  <1> DEFINE D == [k \in 0..0 |-> d]
  <1>1. D[0] = d /\ Len(<<>>) = 0
    OBVIOUS
  <1>2. Way(D, <<>>)
    BY <1>1 DEF Way
  <1>3. <<>> \in Seq({})
    OBVIOUS
  <1>4. QED  BY <1>1, <1>2, <1>3 DEF Reaches, IsLog

LEMMA ReachesEnds ==
  ASSUME NEW d, NEW log, NEW e, IsLog(log), Reaches(d, log, e)
  PROVE  Restartable(d) /\ Restartable(e) /\ (log = <<>> => e = d)
  <1>1. PICK D : D[0] = d /\ D[Len(log)] = e /\ Way(D, log)
    BY DEF Reaches
  <1>2. Len(log) \in Nat /\ (log = <<>> => Len(log) = 0)
    BY DEF IsLog
  <1>3. QED  BY <1>1, <1>2 DEF Way

(* One more sector.                                                        *)
LEMMA ReachesAppend ==
  ASSUME NEW d, NEW log, NEW e, NEW at, NEW is, IsLog(log), Reaches(d, log, e),
         Restartable([e EXCEPT ![at] = is])
  PROVE  LET more == Append(log, [at |-> at, is |-> is])
         IN  IsLog(more) /\ Reaches(d, more, [e EXCEPT ![at] = is])
  <1> DEFINE r == [at |-> at, is |-> is]
             more == Append(log, r)
             n == Len(log)
             u == [e EXCEPT ![at] = is]
  <1>1. PICK S : log \in Seq(S)
    BY DEF IsLog
  <1>2. log \in Seq(S \cup {r})
    BY <1>1
  <1>3. /\ more \in Seq(S \cup {r}) /\ n \in Nat /\ Len(more) = n + 1 /\ more[n + 1] = r
        /\ \A k \in 1..n : more[k] = log[k]
    BY <1>2
  <1>4. PICK D : D[0] = d /\ D[n] = e /\ Way(D, log)
    BY DEF Reaches
  <1> DEFINE E == [k \in 0..(n + 1) |-> IF k <= n THEN D[k] ELSE u]
  <1>5. r.at = at /\ r.is = is
    OBVIOUS
  <1>6. \A k \in 0..n : E[k] = D[k]
    BY <1>3
  <1>7. E[n + 1] = u
    BY <1>3
  <1> HIDE DEF E, more, r, u
  <1>8. ASSUME NEW k \in 0..Len(more) PROVE Restartable(E[k])
    <2>1. CASE k = n + 1
      BY <1>7, <2>1 DEF u
    <2>2. CASE k # n + 1
      <3>1. k \in 0..n
        BY <1>3, <2>2
      <3>2. QED  BY <1>4, <1>6, <3>1 DEF Way
    <2>3. QED  BY <2>1, <2>2
  <1>9. ASSUME NEW k \in 1..Len(more) PROVE E[k] = [E[k - 1] EXCEPT ![more[k].at] = more[k].is]
    <2>1. CASE k = n + 1
      <3>1. E[k - 1] = e /\ more[k] = r /\ E[k] = u
        BY <1>3, <1>4, <1>6, <1>7, <2>1
      <3>2. QED  BY <1>5, <3>1 DEF u
    <2>2. CASE k # n + 1
      <3>1. k \in 1..n /\ k - 1 \in 0..n /\ k \in 0..n
        BY <1>3, <2>2
      <3>2. E[k - 1] = D[k - 1] /\ E[k] = D[k] /\ more[k] = log[k]
        BY <1>3, <1>6, <3>1
      <3>3. QED  BY <1>4, <3>1, <3>2 DEF Way
    <2>3. QED  BY <2>1, <2>2
  <1>10. Way(E, more)
    BY <1>8, <1>9 DEF Way
  <1>11. E[0] = d /\ E[Len(more)] = u
    BY <1>3, <1>4, <1>6, <1>7
  <1>12. Reaches(d, more, u) /\ IsLog(more)
    BY <1>3, <1>10, <1>11 DEF Reaches, IsLog
  <1>13. QED  BY <1>12 DEF more, r, u

(* The next sector reaches the disk.                                       *)
LEMMA ReachesFlush ==
  ASSUME NEW d, NEW log, NEW e, IsLog(log), log # <<>>, Reaches(d, log, e)
  PROVE  /\ IsLog(Tail(log))
         /\ Reaches([d EXCEPT ![Head(log).at] = Head(log).is], Tail(log), e)
  <1> DEFINE rest == Tail(log)
             n == Len(log)
  <1>1. PICK S : log \in Seq(S)
    BY DEF IsLog
  <1>2. /\ rest \in Seq(S) /\ n \in Nat /\ n > 0 /\ Len(rest) = n - 1 /\ Head(log) = log[1]
        /\ \A k \in 1..(n - 1) : rest[k] = log[k + 1]
    BY <1>1
  <1>3. PICK D : D[0] = d /\ D[n] = e /\ Way(D, log)
    BY DEF Reaches
  <1> DEFINE E == [k \in 0..(n - 1) |-> D[k + 1]]
  <1>4. \A k \in 0..(n - 1) : E[k] = D[k + 1]
    OBVIOUS
  <1> HIDE DEF E, rest
  <1>5. ASSUME NEW k \in 0..(n - 1) PROVE Restartable(E[k])
    BY <1>2, <1>3, <1>4 DEF Way
  <1>6. ASSUME NEW k \in 1..(n - 1) PROVE E[k] = [E[k - 1] EXCEPT ![rest[k].at] = rest[k].is]
    <2>1. k \in 0..(n - 1) /\ k - 1 \in 0..(n - 1) /\ k + 1 \in 1..n /\ (k + 1) - 1 = k
          /\ (k - 1) + 1 = k
      BY <1>2
    <2>2. E[k] = D[k + 1] /\ E[k - 1] = D[k] /\ rest[k] = log[k + 1]
      BY <1>2, <1>4, <2>1
    <2>3. D[k + 1] = [D[k] EXCEPT ![log[k + 1].at] = log[k + 1].is]
      BY <1>3, <2>1 DEF Way
    <2>4. QED  BY <2>2, <2>3
  <1>7. E[0] = [d EXCEPT ![Head(log).at] = Head(log).is]
    <2>1. 1 \in 1..n /\ 0 \in 0..(n - 1) /\ 1 - 1 = 0 /\ 0 + 1 = 1
      BY <1>2
    <2>2. D[1] = [D[0] EXCEPT ![log[1].at] = log[1].is]
      BY <1>3, <2>1 DEF Way
    <2>3. QED  BY <1>2, <1>3, <1>4, <2>1, <2>2
  <1>8. E[n - 1] = e
    <2>1. n - 1 \in 0..(n - 1) /\ (n - 1) + 1 = n
      BY <1>2
    <2>2. QED  BY <1>3, <1>4, <2>1
  <1>9. Way(E, rest)
    BY <1>2, <1>5, <1>6 DEF Way
  <1>10. QED  BY <1>2, <1>7, <1>8, <1>9 DEF Reaches, IsLog, rest

-----------------------------------------------------------------------------
(* A state of the computation of an operation that begins with disk.       *)
Passes(s) ==
    /\ s = [disk |-> s.disk, info |-> s.info, log |-> s.log]
    /\ IsLog(s.log) /\ Reaches(disk, s.log, s.disk)

(* Clusters that are marked and that no file has, when an operation begins *)
(* with disk: a crash, or a write that ran short, has left them. They need *)
(* not be counted. Nobody is given them.                                   *)
Lost == disk[CBmp] \ AllCells(disk)
Reckoned(s) ==
    /\ Lost \subseteq s.disk[CBmp] /\ Lost \cap AllCells(s.disk) = {}
    /\ Cardinality(s.disk[CBmp] \ Lost) <= s.info.clusters

(* atufsinfo in memory is that of the information sector.                  *)
Going(s) == Passes(s) /\ s.info = s.disk[Info] /\ Reckoned(s)

SameInodes(s, t) == \A f \in FileNumbers : t.disk[Inode(f)] = s.disk[Inode(f)]

LEMMA SameCells ==
  ASSUME NEW d, NEW u, \A f \in FileNumbers : u[Inode(f)] = d[Inode(f)]
  PROVE  AllCells(u) = AllCells(d)
  BY DEF AllCells, CellsHeld

LEMMA ReckonedOn ==
  ASSUME NEW s, NEW t, Reckoned(s), t.disk[CBmp] = s.disk[CBmp], SameInodes(s, t),
         t.info.clusters = s.info.clusters
  PROVE  Reckoned(t)
  <1>1. AllCells(t.disk) = AllCells(s.disk)
    BY SameCells DEF SameInodes
  <1>2. QED  BY <1>1 DEF Reckoned

LEMMA PassesAt == ASSUME NEW s, Passes(s) PROVE Restartable(s.disk)
  BY ReachesEnds DEF Passes

LEMMA WritePasses ==
  ASSUME NEW s, Passes(s), NEW at, NEW is, Restartable([s.disk EXCEPT ![at] = is])
  PROVE  /\ Passes(Write(s, at, is))
         /\ Write(s, at, is).disk = [s.disk EXCEPT ![at] = is]
         /\ Write(s, at, is).info = s.info
  <1> DEFINE log == Append(s.log, [at |-> at, is |-> is])
             u == [s.disk EXCEPT ![at] = is]
             t == Write(s, at, is)
  <1>1. t = [disk |-> u, info |-> s.info, log |-> log]
    BY DEF Write
  <1>2. IsLog(log) /\ Reaches(disk, log, u)
    BY ReachesAppend DEF Passes
  <1> HIDE DEF log, u, t
  <1>3. Passes(t) /\ t.disk = u /\ t.info = s.info
    BY <1>1, <1>2 DEF Passes
  <1>4. QED  BY <1>3 DEF t, u

(* Whatever is written but an inode: clusters may be marked, not freed.    *)
LEMMA StillRestartable ==
  ASSUME NEW d, Restartable(d), NEW u, IsDisk(u), u[Info] \in Counts,
         d[CBmp] \subseteq u[CBmp], u[CBmp] \subseteq ClusterNumbers,
         d[Info].clusters <= u[Info].clusters,
         \A f \in FileNumbers : u[Inode(f)] = d[Inode(f)]
  PROVE  Restartable(u)
  <1>0. Cardinality(AllCells(u)) <= u[Info].clusters
    <2>1. AllCells(u) = AllCells(d) /\ AllCells(d) \subseteq ClusterNumbers
      BY SameCells, AllCellsMarked DEF Restartable
    <2>2. Cardinality(AllCells(d)) \in Nat
      BY <2>1, ClustersFinite
    <2>3. d[Info].clusters \in Nat /\ u[Info].clusters \in Nat
      BY DEF Restartable, Counts
    <2>4. Cardinality(AllCells(d)) <= d[Info].clusters
      BY DEF Restartable
    <2>5. QED  BY <2>1, <2>2, <2>3, <2>4
  <1>1. \A f \in FileNumbers : Others(u, f) = Others(d, f)
    BY DEF Others, CellsHeld
  <1>2. Owned(u)
    <2>1. ASSUME NEW f \in FileNumbers PROVE Held(u[CBmp], u[Inode(f)].ext, Others(u, f))
      <3>1. Held(d[CBmp], d[Inode(f)].ext, Others(d, f))
        BY DEF Restartable, Owned
      <3>2. Held(u[CBmp], d[Inode(f)].ext, Others(d, f))
        BY <3>1, HeldMore
      <3>3. QED  BY <1>1, <3>2
    <2>2. QED  BY <2>1 DEF Owned
  <1>3. QED  BY <1>0, <1>2 DEF Restartable

(* The sector at one address changes.                                      *)
LEMMA SectorChanged ==
  ASSUME NEW d, IsDisk(d), NEW at \in Addresses, NEW is
  PROVE  LET u == [d EXCEPT ![at] = is]
         IN  /\ IsDisk(u)
             /\ \A a \in Addresses : u[a] = IF a = at THEN is ELSE d[a]
  BY DEF IsDisk

(* The information sector: no fewer clusters are counted.                  *)
LEMMA InfoGoes ==
  ASSUME NEW s, Passes(s), NEW i \in Counts, s.disk[Info].clusters <= i.clusters
  PROVE  LET t == Write(s, Info, i)
         IN  /\ Passes(t) /\ t.info = s.info /\ t.disk[Info] = i
             /\ t.disk[CBmp] = s.disk[CBmp] /\ SameInodes(s, t)
  <1> DEFINE d == s.disk
             u == [d EXCEPT ![Info] = i]
             t == Write(s, Info, i)
  <1>1. Restartable(d)
    BY PassesAt
  <1>2. IsDisk(u) /\ \A a \in Addresses : u[a] = IF a = Info THEN i ELSE d[a]
    BY <1>1, SectorChanged, AddressesApart DEF Restartable
  <1> HIDE DEF u, t, d
  <1>3. /\ u[Info] = i /\ u[CBmp] = d[CBmp] /\ \A f \in FileNumbers : u[Inode(f)] = d[Inode(f)]
    BY <1>2, AddressesApart
  <1>4. d[Info].clusters <= u[Info].clusters /\ d[CBmp] \subseteq ClusterNumbers
    BY <1>1, <1>3 DEF Restartable, d
  <1>5. Restartable(u)
    BY <1>1, <1>2, <1>3, <1>4, StillRestartable
  <1>6. Passes(t) /\ t.disk = u /\ t.info = s.info
    BY <1>5, WritePasses DEF u, d, t
  <1>7. QED  BY <1>3, <1>6 DEF t, d, SameInodes

(* The bitmap of the clusters.                                             *)
LEMMA BitsGo ==
  ASSUME NEW s, Passes(s), NEW bits \in SUBSET ClusterNumbers, s.disk[CBmp] \subseteq bits
  PROVE  LET t == Write(s, CBmp, bits)
         IN  /\ Passes(t) /\ t.info = s.info /\ t.disk[Info] = s.disk[Info]
             /\ t.disk[CBmp] = bits /\ SameInodes(s, t)
  <1> DEFINE d == s.disk
             u == [d EXCEPT ![CBmp] = bits]
             t == Write(s, CBmp, bits)
  <1>1. Restartable(d)
    BY PassesAt
  <1>2. IsDisk(u) /\ \A a \in Addresses : u[a] = IF a = CBmp THEN bits ELSE d[a]
    BY <1>1, SectorChanged, AddressesApart DEF Restartable
  <1> HIDE DEF u, t, d
  <1>3. /\ u[Info] = d[Info] /\ u[CBmp] = bits /\ \A f \in FileNumbers : u[Inode(f)] = d[Inode(f)]
    BY <1>2, AddressesApart
  <1>4. d[Info] \in Counts /\ d[CBmp] \subseteq bits /\ d[Info].clusters <= u[Info].clusters
    BY <1>1, <1>3 DEF Restartable, Counts, d
  <1>5. Restartable(u)
    BY <1>1, <1>2, <1>3, <1>4, StillRestartable
  <1>6. Passes(t) /\ t.disk = u /\ t.info = s.info
    <2>1. Passes(s) /\ Restartable([s.disk EXCEPT ![CBmp] = bits])
      BY <1>5 DEF u, d
    <2>2. QED  BY ONLY <2>1, WritePasses DEF u, d, t
  <1>7. QED  BY <1>3, <1>6 DEF t, d, SameInodes

(* The bitmap of the files.                                                *)
LEMMA FileBitsGo ==
  ASSUME NEW s, Passes(s), NEW bits
  PROVE  LET t == Write(s, FBmp, bits)
         IN  /\ Passes(t) /\ t.info = s.info /\ t.disk[Info] = s.disk[Info]
             /\ t.disk[CBmp] = s.disk[CBmp] /\ SameInodes(s, t)
  <1> DEFINE d == s.disk
             u == [d EXCEPT ![FBmp] = bits]
             t == Write(s, FBmp, bits)
  <1>1. Restartable(d)
    BY PassesAt
  <1>2. IsDisk(u) /\ \A a \in Addresses : u[a] = IF a = FBmp THEN bits ELSE d[a]
    <2>1. IsDisk(d) /\ FBmp \in Addresses
      BY <1>1, AddressesApart DEF Restartable
    <2>2. QED  BY <2>1 DEF IsDisk
  <1> HIDE DEF u, t, d
  <1>3. /\ u[Info] = d[Info] /\ u[CBmp] = d[CBmp]
        /\ \A f \in FileNumbers : u[Inode(f)] = d[Inode(f)]
    BY <1>2, AddressesApart
  <1>4. Restartable(u)
    BY <1>1, <1>2, <1>3, StillRestartable DEF Restartable, Counts
  <1>5. Passes(t) /\ t.disk = u /\ t.info = s.info
    BY <1>4, WritePasses DEF u, d, t
  <1>6. QED  BY <1>3, <1>5 DEF t, d, SameInodes

LEMMA HeldLess ==
  ASSUME NEW bits, NEW ext, NEW O, NEW P, Held(bits, ext, O \cup P)
  PROVE  Held(bits, ext, O)
  BY DEF Held

(* An inode whose clusters nobody else has, and no one has lost.           *)
LEMMA InodeGoes ==
  ASSUME NEW s, Going(s), NEW f \in FileNumbers, NEW n, Sized(n),
         Held(s.disk[CBmp], n.ext, Others(s.disk, f) \cup Lost)
  PROVE  Going(Write(s, Inode(f), n))
  <1> DEFINE d == s.disk
             u == [d EXCEPT ![Inode(f)] = n]
             t == Write(s, Inode(f), n)
             own == CellsFrom(n.ext, 1, Extents)
  <1>1. Restartable(d)
    BY PassesAt DEF Going
  <1>2. IsDisk(u) /\ \A a \in Addresses : u[a] = IF a = Inode(f) THEN n ELSE d[a]
    BY <1>1, SectorChanged, AddressesApart DEF Restartable
  <1>3. Held(d[CBmp], n.ext, Others(d, f)) /\ own \cap Lost = {} /\ own \subseteq d[CBmp]
    <2>1. Held(d[CBmp], n.ext, Others(d, f))
      BY HeldLess
    <2>2. QED  BY <2>1 DEF Held, CellsFrom
  <1> HIDE DEF u, t, d
  <1>4. /\ u[Info] = d[Info] /\ u[CBmp] = d[CBmp] /\ u[Inode(f)] = n
        /\ \A g \in FileNumbers \ {f} : u[Inode(g)] = d[Inode(g)]
    BY <1>2, AddressesApart
  <1>5. Owned(u) /\ Others(u, f) = Others(d, f)
    BY <1>1, <1>3, <1>4, OwnedAgain, OthersStay DEF Changes, Restartable
  <1>6. AllCells(u) \subseteq d[CBmp] \ Lost
    <2>1. AllCells(u) = Others(d, f) \cup own
      BY <1>4, <1>5, AllCellsSplit DEF CellsHeld
    <2>2. Others(d, f) \subseteq AllCells(d) /\ AllCells(d) \cap Lost = {}
      BY AllCellsSplit DEF Going, Reckoned, d
    <2>3. AllCells(u) \subseteq d[CBmp]
      BY <1>4, <1>5, AllCellsMarked
    <2>4. QED  BY <1>3, <2>1, <2>2, <2>3
  <1>7. Cardinality(AllCells(u)) <= u[Info].clusters
    <2> DEFINE kept == d[CBmp] \ Lost
    <2>1. kept \subseteq ClusterNumbers
      BY <1>1 DEF Restartable
    <2>2. IsFiniteSet(kept) /\ Cardinality(kept) \in Nat
      BY <2>1, ClustersFinite
    <2>3. Cardinality(kept) <= u[Info].clusters /\ u[Info].clusters \in Nat
      BY <1>1, <1>4 DEF Going, Reckoned, Restartable, Counts, d
    <2>4. Cardinality(AllCells(u)) \in Nat /\ Cardinality(AllCells(u)) <= Cardinality(kept)
      BY <1>6, <2>2, FS_Subset, FS_CardinalityType
    <2> HIDE DEF kept
    <2>5. QED  BY <2>2, <2>3, <2>4
  <1>8. Restartable(u)
    <2>1. \A g \in FileNumbers : Sized(u[Inode(g)])
      BY <1>1, <1>4 DEF Restartable
    <2>2. QED  BY <1>1, <1>2, <1>4, <1>5, <1>7, <2>1 DEF Restartable
  <1>9. Passes(t) /\ t.disk = u /\ t.info = s.info
    BY <1>8, WritePasses DEF u, d, t, Going
  <1>10. Reckoned(t)
    BY <1>4, <1>6, <1>9 DEF Going, Reckoned, d
  <1>11. QED  BY <1>4, <1>9, <1>10 DEF t, d, Going

(* The sectors of the bitmap, one after the other.                         *)
LEMMA ThroughGrows ==
  ASSUME NEW bits \in SUBSET ClusterNumbers, NEW old \in SUBSET bits, NEW k \in Int
  PROVE  /\ old \subseteq Through(old, bits, k) /\ Through(old, bits, k) \subseteq bits
         /\ Through(old, bits, k) \subseteq Through(old, bits, k + 1)
  <1>1. \A c \in bits : SectorOf(c) \in Int
    <2>1. \A c \in bits : c \in Nat /\ c <= c
      BY AtufsAssumption DEF ClusterNumbers
    <2>2. QED  BY <2>1, SectorNumbers
  <1>2. ASSUME NEW c \in old PROVE c \in Through(old, bits, k)
    <2>1. SectorOf(c) \in Int
      BY <1>1
    <2>2. SectorOf(c) < k \/ SectorOf(c) >= k
      BY <2>1
    <2>3. QED  BY <2>2 DEF Through
  <1>3. ASSUME NEW c \in Through(old, bits, k) PROVE c \in Through(old, bits, k + 1)
    <2>1. c \in bits /\ (SectorOf(c) < k \/ c \in old)
      BY <1>3 DEF Through
    <2>2. SectorOf(c) \in Int
      BY <1>1, <2>1
    <2>3. SectorOf(c) < k + 1 \/ (c \in old /\ SectorOf(c) >= k + 1)
      BY <2>1, <2>2
    <2>4. QED  BY <2>1, <2>3 DEF Through
  <1>4. Through(old, bits, k) \subseteq bits
    BY DEF Through
  <1>5. QED  BY <1>2, <1>3, <1>4

(* From s to t more has been marked, but nothing outside of upper.         *)
MarksMore(s, t, upper) ==
    /\ Passes(t) /\ t.info = s.info /\ t.disk[Info] = s.disk[Info] /\ SameInodes(s, t)
    /\ s.disk[CBmp] \subseteq t.disk[CBmp] /\ t.disk[CBmp] \subseteq upper

LEMMA MarkEarlyPasses ==
  ASSUME NEW s, Passes(s), NEW bits \in SUBSET ClusterNumbers, s.disk[CBmp] \subseteq bits,
         NEW first \in Int, NEW last \in Int, first <= last
  PROVE  MarksMore(s, MarkEarly(s, bits, first, last), bits)
  <1> DEFINE old == s.disk[CBmp]
  <1>0. first \in Int /\ last \in Int /\ first <= last
    OBVIOUS
  <1>1. PICK run : /\ run[first] = s
                   /\ \A k \in (first + 1)..last :
                         run[k] = Write(run[k - 1], CBmp, Through(s.disk[CBmp], bits, k))
                   /\ MarkEarly(s, bits, first, last) = run[last]
    BY ONLY <1>0, MarkEarlyRuns
  <1> DEFINE T == {k \in first..last : MarksMore(s, run[k], Through(old, bits, k))}
  <1>2. first \in T
    <2>1. old \subseteq Through(old, bits, first)
      BY ThroughGrows
    <2>2. SameInodes(s, s)
      BY DEF SameInodes
    <2> HIDE DEF old
    <2>3. QED  BY <1>1, <2>1, <2>2 DEF MarksMore, old
  <1>3. ASSUME NEW k \in first..(last - 1), k \in T PROVE k + 1 \in T
    <2> DEFINE is == Through(old, bits, k + 1)
               t == run[k]
               u == run[k + 1]
    <2>1. k + 1 \in (first + 1)..last /\ k + 1 \in first..last /\ (k + 1) - 1 = k /\ k \in Int
          /\ k + 1 \in Int
      OBVIOUS
    <2>2. u = Write(t, CBmp, is)
      BY <1>1, <2>1
    <2>3. /\ is \subseteq bits /\ is \in SUBSET ClusterNumbers /\ old \subseteq is
          /\ Through(old, bits, k) \subseteq is
      <3>1. old \in SUBSET bits
        OBVIOUS
      <3> DEFINE m == k + 1
      <3> HIDE DEF old, m
      <3>2. Through(old, bits, k) \subseteq Through(old, bits, k + 1)
        BY <2>1, <3>1, ThroughGrows
      <3>3. m \in Int
        BY <2>1 DEF m
      <3>4. old \subseteq Through(old, bits, m) /\ Through(old, bits, m) \subseteq bits
        BY <3>1, <3>3, ThroughGrows
      <3>5. QED  BY <3>2, <3>4 DEF old, m
    <2>4. MarksMore(s, t, Through(old, bits, k))
      BY <1>3
    <2> HIDE DEF is, t, u, old
    <2>5. Passes(t) /\ t.disk[CBmp] \subseteq is
      BY <2>3, <2>4 DEF MarksMore
    <2>6. /\ Passes(u) /\ u.info = t.info /\ u.disk[Info] = t.disk[Info]
          /\ u.disk[CBmp] = is /\ SameInodes(t, u)
      BY <2>2, <2>3, <2>5, BitsGo
    <2>7. MarksMore(s, u, is)
      BY <2>3, <2>4, <2>6 DEF MarksMore, SameInodes, old
    <2>8. QED  BY <2>1, <2>7 DEF is, u
  <1>4. last \in T
    <2>1. Climbs(T, first, last)
      BY <1>2, <1>3 DEF Climbs
    <2> HIDE DEF T
    <2>2. first..last \subseteq T
      BY ONLY <1>0, <2>1, UpTo
    <2>3. QED  BY ONLY <1>0, <2>2
  <1>5. Through(old, bits, last) \subseteq bits
    BY DEF Through
  <1>6. QED  BY <1>1, <1>4, <1>5 DEF MarksMore

(* What a file may get is counted before it gets it.                       *)
LEMMA SetClustersGoes ==
  ASSUME NEW s, Going(s), NEW n \in Nat, NEW bits \in SUBSET ClusterNumbers,
         s.disk[CBmp] \subseteq bits, s.info.clusters <= n, Cardinality(bits \ Lost) <= n,
         NEW first \in Int, NEW last \in Int, first <= last
  PROVE  LET t == SetClusters(s, n, bits, first, last)
         IN  Going(t) /\ t.disk[CBmp] = bits /\ SameInodes(s, t)
  <1> DEFINE i == [s.info EXCEPT !.clusters = n]
             r == [s EXCEPT !.info.clusters = n]
             t == MarkEarly(r, bits, first, last)
             u == Write(t, Info, t.info)
             v == Write(u, CBmp, bits)
  <1>1. Restartable(s.disk) /\ s.info \in Counts /\ s.info = s.disk[Info]
    BY PassesAt DEF Going, Restartable
  <1>2. i \in Counts /\ i.clusters = n /\ i.files = s.info.files
    BY <1>1 DEF Counts
  <1>3. r = [disk |-> s.disk, info |-> i, log |-> s.log]
    BY DEF Going, Passes
  <1> HIDE DEF i
  <1>4. Passes(r) /\ r.info = i /\ r.disk = s.disk
    BY <1>3 DEF Going, Passes
  <1> HIDE DEF r
  <1>5. MarksMore(r, t, bits)
    BY <1>4, MarkEarlyPasses
  <1> HIDE DEF t
  <1>6. /\ Passes(t) /\ t.info = i /\ t.disk[Info].clusters <= i.clusters
        /\ t.disk[CBmp] \subseteq bits /\ SameInodes(s, t)
    BY <1>1, <1>2, <1>4, <1>5 DEF MarksMore, SameInodes
  <1>7. /\ Passes(u) /\ u.info = i /\ u.disk[Info] = i
        /\ u.disk[CBmp] = t.disk[CBmp] /\ SameInodes(t, u)
    BY <1>2, <1>6, InfoGoes
  <1> HIDE DEF u
  <1>8. /\ Passes(v) /\ v.info = i /\ v.disk[Info] = i
        /\ v.disk[CBmp] = bits /\ SameInodes(u, v)
    BY <1>6, <1>7, BitsGo
  <1> HIDE DEF v
  <1>9. SameInodes(s, v)
    BY <1>6, <1>7, <1>8 DEF SameInodes
  <1>10. Reckoned(v)
    <2>1. AllCells(v.disk) = AllCells(s.disk)
      BY <1>9, SameCells DEF SameInodes
    <2>2. QED  BY <1>2, <1>8, <2>1 DEF Going, Reckoned
  <1>11. v = SetClusters(s, n, bits, first, last)
    BY DEF SetClusters, v, u, t, r
  <1>12. QED  BY <1>8, <1>9, <1>10, <1>11 DEF Going

LEMMA SetFilesGoes ==
  ASSUME NEW s, Going(s), NEW n \in Nat, NEW bits
  PROVE  LET t == SetFiles(s, n, bits)
         IN  Going(t) /\ t.disk[CBmp] = s.disk[CBmp] /\ SameInodes(s, t)
  <1> DEFINE i == [s.info EXCEPT !.files = n]
             t == [s EXCEPT !.info.files = n]
             u == Write(t, FBmp, bits)
             v == Write(u, Info, u.info)
  <1>1. Restartable(s.disk) /\ s.info \in Counts /\ s.info = s.disk[Info]
    BY PassesAt DEF Going, Restartable
  <1>2. i \in Counts /\ i.clusters = s.info.clusters
    BY <1>1 DEF Counts
  <1>3. t = [disk |-> s.disk, info |-> i, log |-> s.log]
    BY DEF Going, Passes
  <1> HIDE DEF i
  <1>4. Passes(t) /\ t.info = i /\ t.disk = s.disk
    BY <1>3 DEF Going, Passes
  <1> HIDE DEF t
  <1>5. /\ Passes(u) /\ u.info = i /\ u.disk[Info] = s.disk[Info]
        /\ u.disk[CBmp] = s.disk[CBmp] /\ SameInodes(t, u)
    BY <1>4, FileBitsGo
  <1>6. u.disk[Info].clusters <= i.clusters
    BY <1>1, <1>2, <1>5 DEF Counts
  <1> HIDE DEF u
  <1>7. /\ Passes(v) /\ v.info = i /\ v.disk[Info] = i
        /\ v.disk[CBmp] = u.disk[CBmp] /\ SameInodes(u, v)
    BY <1>2, <1>5, <1>6, InfoGoes
  <1> HIDE DEF v
  <1>8. v = SetFiles(s, n, bits)
    BY DEF SetFiles, v, u, t
  <1>9. v.disk[CBmp] = s.disk[CBmp] /\ SameInodes(s, v)
    BY <1>4, <1>5, <1>7 DEF SameInodes
  <1>10. Reckoned(v)
    BY <1>2, <1>7, <1>9, ReckonedOn DEF Going
  <1>11. QED  BY <1>7, <1>8, <1>9, <1>10 DEF Going

LEMMA CountJoined ==
  ASSUME NEW S, NEW T, IsFiniteSet(S), IsFiniteSet(T), S \cap T = {}
  PROVE  Cardinality(S \cup T) = Cardinality(S) + Cardinality(T)
  <1>1. Cardinality(S \cap T) = 0
    BY FS_EmptySet, Zenon
  <1>2. Cardinality(S \cup T) = Cardinality(S) + Cardinality(T) - Cardinality(S \cap T)
    BY FS_Union
  <1>3. Cardinality(S) \in Nat /\ Cardinality(T) \in Nat
    BY FS_CardinalityType
  <1>4. QED  BY <1>1, <1>2, <1>3

(* What alocate_clusters takes was free.                                   *)
LEMMA AlocateGoes ==
  ASSUME NEW s, Going(s), NEW n \in Nat
  PROVE  LET a == alocate_clusters(s, n)
         IN  /\ a.e \in Extent /\ a.e.many <= n
             /\ Cells(a.e) \subseteq ClusterNumbers \ s.disk[CBmp]
             /\ Going(a.s) /\ SameInodes(s, a.s)
             /\ a.s.disk[CBmp] = s.disk[CBmp] \cup Cells(a.e)
  <1> DEFINE bits == s.disk[CBmp]
             e == FreeRun(s, n)
             from == 0
             last == LastLooked(e, n)
             count == s.info.clusters + e.many
             more == bits \cup Cells(e)
             kept == bits \ Lost
             t == SetClusters(s, count, more, from, last)
  <1>1. /\ bits \in SUBSET ClusterNumbers /\ s.info.clusters \in Nat
        /\ Cardinality(kept) <= s.info.clusters /\ Lost \subseteq bits
    BY PassesAt DEF Going, Reckoned, Restartable, Counts
  <1>2. IsFiniteSet(kept) /\ Cardinality(kept) \in Nat
    BY <1>1, ClustersFinite
  <1>3. e \in Extent /\ e.many <= n /\ Cells(e) \subseteq ClusterNumbers \ bits
    BY FreeRunFree
  <1>4. from \in Int /\ last \in Int /\ from <= last
    BY <1>3, LookedSectors
  <1> HIDE DEF bits, e, last, from
  <1>5. IsFiniteSet(Cells(e)) /\ Cardinality(Cells(e)) = e.many /\ e.many \in Nat
    BY <1>3, CellsCounted DEF Extent
  <1>6. more \ Lost = kept \cup Cells(e) /\ kept \cap Cells(e) = {}
    BY <1>1, <1>3
  <1> HIDE DEF kept
  <1>7. Cardinality(more \ Lost) = Cardinality(kept) + e.many
    BY <1>2, <1>5, <1>6, CountJoined
  <1>8. /\ more \in SUBSET ClusterNumbers /\ s.disk[CBmp] \subseteq more
        /\ count \in Nat /\ s.info.clusters <= count /\ Cardinality(more \ Lost) <= count
    BY <1>1, <1>2, <1>3, <1>5, <1>7 DEF bits
  <1>9. alocate_clusters(s, n) = [s |-> t, e |-> e]
    BY DEF alocate_clusters, mark_true, Cells, bits, e, last, from
  <1>10. Going(t) /\ t.disk[CBmp] = more /\ SameInodes(s, t)
    <2> HIDE DEF more, count
    <2>1. QED  BY <1>4, <1>8, SetClustersGoes
  <1> HIDE DEF t
  <1>11. QED  BY <1>3, <1>9, <1>10 DEF bits

(* Clusters are written: none changes hands.                               *)
LEMMA DataPasses ==
  ASSUME NEW d, Restartable(d), NEW u, IsDisk(u),
         \A a \in Addresses : a[1] # "data" => u[a] = d[a]
  PROVE  Restartable(u)
  <1>1. /\ u[Info] = d[Info] /\ u[CBmp] = d[CBmp]
        /\ \A f \in FileNumbers : u[Inode(f)] = d[Inode(f)]
    BY AddressesApart, DataNames
  <1>2. QED  BY <1>1, StillRestartable DEF Restartable, Counts

Joined(log, more, n, all) ==
    /\ IsLog(all) /\ Len(log) \in Nat /\ Len(all) = Len(log) + n
    /\ \A k \in 1..Len(log) : all[k] = log[k]
    /\ \A k \in 1..n : all[Len(log) + k] = more[k]

LEMMA LogsJoin ==
  ASSUME NEW log, IsLog(log), NEW n \in Nat, NEW T, NEW more \in [1..n -> T]
  PROVE  Joined(log, more, n, log \o more)
  <1> DEFINE all == log \o more
  <1>1. PICK S : log \in Seq(S)
    BY DEF IsLog
  <1>2. more \in Seq(T) /\ Len(more) = n
    BY ListsAreSequences
  <1>3. log \in Seq(S \cup T) /\ more \in Seq(S \cup T)
    BY <1>1, <1>2
  <1>4. /\ all \in Seq(S \cup T) /\ Len(log) \in Nat /\ Len(all) = Len(log) + n
        /\ \A k \in 1..Len(log) : all[k] = log[k]
        /\ \A k \in 1..n : all[Len(log) + k] = more[k]
    BY <1>2, <1>3
  <1>5. QED  BY <1>4 DEF IsLog, Joined

(* The disks that a run of clusters leaves behind.                         *)
LEMMA DataGoes ==
  ASSUME NEW s, Going(s), NEW first \in Nat, NEW n \in Nat,
         Run(first, n) \subseteq ClusterNumbers, NEW stamp, NEW parts
  PROVE  LET t == WriteData(s, first, n, stamp, parts)
         IN  Going(t) /\ SameInodes(s, t) /\ t.disk[CBmp] = s.disk[CBmp]
  <1> DEFINE part(c) == <<stamp, parts + c - first + 1>>
             d == s.disk
             log == s.log
             m == Len(log)
             r(k) == [at |-> Data(first + k - 1), is |-> part(first + k - 1)]
             T == {r(k) : k \in 1..n}
             more == [k \in 1..n |-> r(k)]
             all == log \o more
             V(k) == [a \in Addresses |->
                         IF a[1] = "data" /\ a[2] \in Run(first, k) THEN part(a[2]) ELSE d[a]]
             t == WriteData(s, first, n, stamp, parts)
  <1>1. Restartable(d) /\ IsLog(log) /\ Reaches(disk, log, d) /\ s.info = d[Info]
    BY PassesAt DEF Going, Passes
  <1>2. IsDisk(d) /\ DOMAIN d = Addresses
    BY <1>1 DEF Restartable, IsDisk
  <1>3. t = [disk |-> V(n), info |-> s.info, log |-> all]
    BY <1>2 DEF WriteData
  <1>4. more \in [1..n -> T] /\ \A k \in 1..n : more[k] = r(k)
    OBVIOUS
  <1>5. /\ IsLog(all) /\ m \in Nat /\ Len(all) = m + n
        /\ \A k \in 1..m : all[k] = log[k]
        /\ \A k \in 1..n : all[m + k] = r(k)
    <2> HIDE DEF T, more, r, log
    <2>1. Joined(log, more, n, log \o more)
      BY <1>1, <1>4, LogsJoin, Zenon
    <2>2. QED  BY <1>4, <2>1 DEF Joined
  <1>6. \A k \in 1..n : r(k).at = Data(first + k - 1) /\ r(k).is = part(first + k - 1)
    OBVIOUS
  <1>7. ASSUME NEW k \in Nat PROVE Restartable(V(k))
    <2>1. IsDisk(V(k)) /\ \A a \in Addresses : a[1] # "data" => V(k)[a] = d[a]
      BY DEF IsDisk
    <2> HIDE DEF V
    <2>2. QED  BY <1>1, <2>1, DataPasses
  <1>8. V(0) = d
    <2>1. Run(first, 0) = {}
      BY DEF Run
    <2>2. \A a \in Addresses : V(0)[a] = d[a]
      BY <2>1
    <2>3. V(0) = [a \in Addresses |-> V(0)[a]]
      OBVIOUS
    <2> HIDE DEF V, d
    <2>4. QED  BY <1>2, <2>2, <2>3 DEF IsDisk
  <1>9. ASSUME NEW k \in 1..n
        PROVE  V(k) = [V(k - 1) EXCEPT ![Data(first + k - 1)] = part(first + k - 1)]
    <2> DEFINE c == first + k - 1
               u == [V(k - 1) EXCEPT ![Data(c)] = part(c)]
    <2>1. c \in Run(first, n) /\ c \in ClusterNumbers /\ k - 1 \in Nat
      BY DEF Run
    <2>2. Run(first, k) = Run(first, k - 1) \cup {c} /\ c \notin Run(first, k - 1)
      BY DEF Run
    <2>3. /\ u = [a \in Addresses |-> u[a]] /\ V(k) = [a \in Addresses |-> V(k)[a]]
          /\ \A a \in Addresses : u[a] = IF a = Data(c) THEN part(c) ELSE V(k - 1)[a]
      OBVIOUS
    <2>4. ASSUME NEW a \in Addresses PROVE V(k)[a] = u[a]
      <3>1. V(k)[a] = IF a[1] = "data" /\ a[2] \in Run(first, k) THEN part(a[2]) ELSE d[a]
        OBVIOUS
      <3>2. V(k - 1)[a] = IF a[1] = "data" /\ a[2] \in Run(first, k - 1) THEN part(a[2]) ELSE d[a]
        OBVIOUS
      <3>3. CASE a = Data(c)
        <4>1. a[1] = "data" /\ a[2] = c
          BY <2>1, <3>3, DataNames
        <4> HIDE DEF u, V, c, part
        <4>2. QED  BY <2>2, <2>3, <3>1, <3>3, <4>1
      <3>4. CASE a # Data(c)
        <4>1. a[1] = "data" => \E b \in ClusterNumbers : a = Data(b) /\ a[2] = b
          BY AddressesApart, DataNames
        <4>2. a[1] = "data" => a[2] # c
          BY <3>4, <4>1
        <4> HIDE DEF u, V, c, part
        <4>3. QED  BY <2>2, <2>3, <3>1, <3>2, <3>4, <4>2
      <3>5. QED  BY <3>3, <3>4
    <2> HIDE DEF u, V
    <2>5. V(k) = u
      BY <2>3, <2>4
    <2>6. QED  BY <2>5 DEF u
  <1>10. PICK D : D[0] = disk /\ D[m] = d /\ Way(D, log)
    BY <1>1 DEF Reaches
  <1> DEFINE E == [k \in 0..(m + n) |-> IF k <= m THEN D[k] ELSE V(k - m)]
  <1> HIDE DEF V, t, all, more, r, part, d, log, m
  <1>11. \A k \in 0..m : E[k] = D[k]
    BY <1>5
  <1>12. \A k \in 0..n : E[m + k] = V(k)
    <2>1. ASSUME NEW k \in 0..n, k # 0 PROVE E[m + k] = V(k)
      <3>1. m + k \in 0..(m + n) /\ ~(m + k <= m) /\ (m + k) - m = k
        BY <1>5, <2>1
      <3>2. QED  BY <3>1
    <2>2. E[m + 0] = V(0)
      BY <1>5, <1>8, <1>10, <1>11
    <2>3. QED  BY <2>1, <2>2
  <1> HIDE DEF E
  <1>13. \A k \in 0..(m + n) : k \in 0..m \/ (k - m \in 1..n /\ k = m + (k - m))
    BY <1>5
  <1>14. ASSUME NEW k \in 0..(m + n) PROVE Restartable(E[k])
    <2>1. CASE k \in 0..m
      BY <1>10, <1>11, <2>1 DEF Way, m
    <2>2. CASE k - m \in 1..n
      <3>1. E[k] = V(k - m) /\ k - m \in Nat
        <4>1. k - m \in 0..n /\ k = m + (k - m)
          BY <1>5, <2>2
        <4>2. QED  BY <1>12, <4>1
      <3>2. QED  BY <1>7, <3>1
    <2>3. QED  BY <1>13, <2>1, <2>2
  <1>15. ASSUME NEW k \in 1..(m + n) PROVE E[k] = [E[k - 1] EXCEPT ![all[k].at] = all[k].is]
    <2>1. CASE k \in 0..m
      <3>1. k \in 1..m /\ k - 1 \in 0..m
        BY <1>5, <2>1
      <3>2. QED  BY <1>5, <1>10, <1>11, <2>1, <3>1 DEF Way, m
    <2>2. ASSUME k - m \in 1..n PROVE E[k] = [E[k - 1] EXCEPT ![all[k].at] = all[k].is]
      <3> DEFINE j == k - m
      <3>1. j \in 1..n /\ j - 1 \in 0..n /\ j \in 0..n /\ k = m + j /\ k - 1 = m + (j - 1)
        BY <1>5, <2>2
      <3> HIDE DEF j
      <3>2. E[k] = V(j) /\ E[k - 1] = V(j - 1) /\ all[k] = r(j)
        BY <1>5, <1>12, <3>1
      <3>3. QED  BY <1>6, <1>9, <3>1, <3>2
    <2>3. QED  BY <1>13, <2>1, <2>2
  <1>16. Reaches(disk, all, V(n))
    <2>1. Way(E, all)
      BY <1>5, <1>14, <1>15 DEF Way
    <2>2. E[0] = disk /\ E[Len(all)] = V(n)
      BY <1>5, <1>10, <1>11, <1>12
    <2>3. QED  BY <2>1, <2>2 DEF Reaches
  <1>17. t.disk = V(n) /\ t.info = s.info /\ t.log = all
    BY <1>3
  <1>18. /\ V(n)[Info] = d[Info] /\ V(n)[CBmp] = d[CBmp]
         /\ \A f \in FileNumbers : V(n)[Inode(f)] = d[Inode(f)]
    <2>1. \A a \in Addresses : a[1] # "data" => V(n)[a] = d[a]
      BY DEF V
    <2>2. QED  BY <2>1, AddressesApart, DataNames
  <1>19. Passes(t) /\ t.info = t.disk[Info]
    BY <1>1, <1>3, <1>5, <1>16, <1>17, <1>18 DEF Passes
  <1>20. SameInodes(s, t) /\ t.disk[CBmp] = s.disk[CBmp]
    BY <1>17, <1>18 DEF SameInodes, d
  <1>21. Reckoned(t)
    BY <1>17, <1>20, ReckonedOn DEF Going
  <1>22. QED  BY <1>19, <1>20, <1>21 DEF t, Going

-----------------------------------------------------------------------------
LEMMA CellsFinite ==
  ASSUME NEW ext, InVolume(ext), NEW a \in 1..(Extents + 1), NEW b \in 0..Extents
  PROVE  IsFiniteSet(CellsFrom(ext, a, b)) /\ Cardinality(CellsFrom(ext, a, b)) \in Nat
  <1>1. Extents \in Nat /\ IsFiniteSet(ClusterNumbers)
    BY AtufsAssumption, FS_Interval DEF ClusterNumbers
  <1>2. CellsFrom(ext, a, b) \subseteq ClusterNumbers
    <2>1. \A j \in a..b : j \in 1..Extents
      BY <1>1
    <2>2. QED  BY <2>1 DEF CellsFrom, InVolume
  <1>3. QED  BY <1>1, <1>2, FS_Subset, FS_CardinalityType

(* The clusters of slots are counted slot by slot.                         *)
LEMMA CellsSplit ==
  ASSUME NEW ext \in ExtentLists, InVolume(ext), SlotsApart(ext), NEW i \in 1..Extents
  PROVE  /\ Cardinality(CellsFrom(ext, i, Extents))
               = ext[i].many + Cardinality(CellsFrom(ext, i + 1, Extents))
         /\ Cardinality(CellsFrom(ext, 1, i))
               = Cardinality(CellsFrom(ext, 1, i - 1)) + ext[i].many
         /\ Cardinality(CellsFrom(ext, i + 1, Extents)) \in Nat
         /\ Cardinality(CellsFrom(ext, 1, i - 1)) \in Nat
  <1>1. Extents \in Nat /\ ext[i] \in Extent
    BY AtufsAssumption DEF ExtentLists
  <1>2. /\ i + 1 \in 1..(Extents + 1) /\ Extents \in 0..Extents
        /\ 1 \in 1..(Extents + 1) /\ i - 1 \in 0..Extents
    BY <1>1
  <1>3. IsFiniteSet(Cells(ext[i])) /\ Cardinality(Cells(ext[i])) = ext[i].many
    BY <1>1, CellsCounted
  <1>4. /\ CellsFrom(ext, i, Extents) = Cells(ext[i]) \cup CellsFrom(ext, i + 1, Extents)
        /\ Cells(ext[i]) \cap CellsFrom(ext, i + 1, Extents) = {}
    <2>1. i..Extents = {i} \cup ((i + 1)..Extents)
      BY <1>1
    <2>2. \A j \in (i + 1)..Extents : j \in 1..Extents /\ j # i
      BY <1>1
    <2>3. QED  BY <2>1, <2>2 DEF CellsFrom, SlotsApart
  <1>5. /\ CellsFrom(ext, 1, i) = CellsFrom(ext, 1, i - 1) \cup Cells(ext[i])
        /\ CellsFrom(ext, 1, i - 1) \cap Cells(ext[i]) = {}
    <2>1. 1..i = (1..(i - 1)) \cup {i}
      BY <1>1
    <2>2. \A j \in 1..(i - 1) : j \in 1..Extents /\ j # i
      BY <1>1
    <2>3. QED  BY <2>1, <2>2 DEF CellsFrom, SlotsApart
  <1>6. /\ IsFiniteSet(CellsFrom(ext, i + 1, Extents)) /\ IsFiniteSet(CellsFrom(ext, 1, i - 1))
        /\ Cardinality(CellsFrom(ext, i + 1, Extents)) \in Nat
        /\ Cardinality(CellsFrom(ext, 1, i - 1)) \in Nat
    BY <1>2, CellsFinite
  <1>7. QED  BY <1>3, <1>4, <1>5, <1>6, CountJoined

LEMMA CellsTotal ==
  ASSUME NEW ext \in ExtentLists, InVolume(ext), SlotsApart(ext), NEW i \in 0..Extents
  PROVE  /\ Cardinality(CellsFrom(ext, 1, Extents))
               = Cardinality(CellsFrom(ext, 1, i)) + Cardinality(CellsFrom(ext, i + 1, Extents))
         /\ Cardinality(CellsFrom(ext, 1, i)) \in Nat
         /\ Cardinality(CellsFrom(ext, i + 1, Extents)) \in Nat
  <1>1. Extents \in Nat
    BY AtufsAssumption
  <1>2. /\ i + 1 \in 1..(Extents + 1) /\ Extents \in 0..Extents
        /\ 1 \in 1..(Extents + 1) /\ i \in 0..Extents
    BY <1>1
  <1>3. /\ CellsFrom(ext, 1, Extents) = CellsFrom(ext, 1, i) \cup CellsFrom(ext, i + 1, Extents)
        /\ CellsFrom(ext, 1, i) \cap CellsFrom(ext, i + 1, Extents) = {}
    <2>1. 1..Extents = (1..i) \cup ((i + 1)..Extents)
      BY <1>1
    <2>2. \A j \in 1..i, k \in (i + 1)..Extents : j \in 1..Extents /\ k \in 1..Extents /\ j # k
      BY <1>1
    <2>3. QED  BY <2>1, <2>2 DEF CellsFrom, SlotsApart
  <1>4. /\ IsFiniteSet(CellsFrom(ext, i + 1, Extents)) /\ IsFiniteSet(CellsFrom(ext, 1, i))
        /\ Cardinality(CellsFrom(ext, i + 1, Extents)) \in Nat
        /\ Cardinality(CellsFrom(ext, 1, i)) \in Nat
    BY <1>2, CellsFinite
  <1>5. QED  BY <1>3, <1>4, CountJoined

-----------------------------------------------------------------------------
(* The loop of write_file over the slots, for a file that grows to n       *)
(* clusters: the slots behind i have no more clusters than are left, and   *)
(* so no slot has to be cleared.                                           *)
Growing(s, O, n, w, i) ==
    /\ IsWork(w) /\ Going(w.s) /\ SameInodes(s, w.s)
    /\ w.ext \in ExtentLists /\ w.left \in Nat
    /\ Held(w.s.disk[CBmp], w.ext, O)
    /\ w.loop = "on" =>
          /\ Cardinality(CellsFrom(w.ext, 1, i)) + w.left <= n
          /\ Cardinality(CellsFrom(w.ext, i + 1, Extents)) <= w.left
    /\ w.loop = "break" => Cardinality(CellsFrom(w.ext, 1, Extents)) <= n

LEMMA HeldInside ==
  ASSUME NEW s, Going(s), NEW ext, NEW O, Held(s.disk[CBmp], ext, O)
  PROVE  InVolume(ext) /\ SlotsApart(ext)
  <1>1. s.disk[CBmp] \subseteq ClusterNumbers
    BY PassesAt DEF Going, Restartable
  <1>2. QED  BY <1>1 DEF Held, InVolume

(* Clusters are written and put into a slot.                               *)
Entered(s, w, t, i, e, k, x) ==
    /\ IsWork(x) /\ Going(x.s) /\ SameInodes(s, x.s)
    /\ x.s.disk[CBmp] = t.disk[CBmp]
    /\ x.ext = [w.ext EXCEPT ![i] = [start |-> e.start, many |-> k]]
    /\ x.left = w.left - k /\ x.loop = w.loop

LEMMA StoreEnters ==
  ASSUME NEW s, NEW w, IsWork(w), NEW t, Going(t), SameInodes(s, t), NEW i,
         NEW e \in Extent, NEW k \in Nat, Run(e.start, k) \subseteq ClusterNumbers, NEW stamp
  PROVE  Entered(s, w, t, i, e, k, Store(w, t, i, e, k, stamp))
  <1> DEFINE first == e.start
             parts == w.parts
             u == WriteData(t, first, k, stamp, parts)
             v == [w.ext EXCEPT ![i] = [start |-> first, many |-> k]]
             x == Store(w, t, i, e, k, stamp)
  <1>1. x = [s |-> u, ext |-> v, left |-> w.left - k, parts |-> w.parts + k, loop |-> w.loop]
    BY StoreFields
  <1>2. first \in Nat /\ Run(first, k) \subseteq ClusterNumbers
    BY DEF Extent
  <1>3. Going(u) /\ SameInodes(t, u) /\ u.disk[CBmp] = t.disk[CBmp]
    <2>1. Going(t) /\ k \in Nat
      OBVIOUS
    <2> HIDE DEF first, parts, u
    <2>2. Going(WriteData(t, first, k, stamp, parts))
          /\ SameInodes(t, WriteData(t, first, k, stamp, parts))
          /\ WriteData(t, first, k, stamp, parts).disk[CBmp] = t.disk[CBmp]
      BY <1>2, <2>1, DataGoes
    <2>3. QED  BY <2>2 DEF u
  <1> HIDE DEF x, u
  <1>4. QED  BY <1>1, <1>3 DEF Entered, IsWork, SameInodes, x

(* The loop ends at a slot, or goes on.                                    *)
LEMMA GrowingEnds ==
  ASSUME NEW s, NEW O, NEW n, NEW w, NEW i, Growing(s, O, n, w, i),
         Cardinality(CellsFrom(w.ext, 1, Extents)) <= n
  PROVE  LET x == [w EXCEPT !.loop = "break"]
         IN  Growing(s, O, n, x, i) /\ x.ext = w.ext /\ x.left = w.left /\ x.loop = "break"
  <1> DEFINE x == [w EXCEPT !.loop = "break"]
  <1>1. x = [s |-> w.s, ext |-> w.ext, left |-> w.left, parts |-> w.parts, loop |-> "break"]
    BY DEF Growing, IsWork
  <1> HIDE DEF x
  <1>2. Growing(s, O, n, x, i)
    BY <1>1 DEF Growing, IsWork
  <1>3. QED  BY <1>1, <1>2 DEF x

(* Slots behind the first empty one are empty.                             *)
LEMMA RestEmpty ==
  ASSUME NEW ext \in ExtentLists, NEW i \in 1..Extents, CompactFrom(ext, i, Extents),
         ext[i].many = 0
  PROVE  /\ \A j \in i..Extents : ext[j].many = 0 /\ Cells(ext[j]) = {}
         /\ CellsFrom(ext, i, Extents) = {} /\ CellsFrom(ext, i + 1, Extents) = {}
         /\ Cardinality(CellsFrom(ext, i, Extents)) = 0
         /\ Cardinality(CellsFrom(ext, i + 1, Extents)) = 0
  <1>1. Extents \in Nat
    BY AtufsAssumption
  <1>2. \A j \in i..Extents : ext[j].many = 0 /\ ext[j] \in Extent
    BY <1>1 DEF CompactFrom, ExtentLists
  <1>3. \A j \in i..Extents : Cells(ext[j]) = {}
    BY <1>2, CellsCounted
  <1>4. \A j \in (i + 1)..Extents : j \in i..Extents
    BY <1>1
  <1>5. CellsFrom(ext, i, Extents) = {} /\ CellsFrom(ext, i + 1, Extents) = {}
    <2>1. \A j \in (i + 1)..Extents : Cells(ext[j]) = {}
      BY <1>3, <1>4
    <2>2. CellsFrom(ext, i, Extents) = {}
      BY <1>3, Zenon DEF CellsFrom
    <2>3. CellsFrom(ext, i + 1, Extents) = {}
      BY <2>1, Zenon DEF CellsFrom
    <2>4. QED  BY <2>2, <2>3
  <1>6. QED  BY <1>2, <1>3, <1>5, FS_EmptySet

(* The slot takes free clusters.                                           *)
LEMMA NewGrows ==
  ASSUME NEW s, NEW O, NEW n \in Nat, NEW w, NEW i \in 1..Extents, Growing(s, O, n, w, i - 1),
         Shaped(w, i - 1), w.loop = "on", w.left > 0, w.ext[i].many = 0, NEW stamp
  PROVE  Growing(s, O, n, StoreNew(w, i, stamp), i) /\ Shaped(StoreNew(w, i, stamp), i)
  <1> DEFINE a == alocate_clusters(w.s, w.left)
             e == a.e
             t == a.s
             k == e.many
             v == [w.ext EXCEPT ![i] = e]
             x == Store(w, t, i, e, k, stamp)
             bits == w.s.disk[CBmp]
  <1>1. /\ e \in Extent /\ e.many <= w.left
        /\ Cells(e) \subseteq ClusterNumbers \ bits
        /\ Going(t) /\ SameInodes(w.s, t)
        /\ t.disk[CBmp] = bits \cup Cells(e)
    BY AlocateGoes DEF Growing
  <1>2. StoreNew(w, i, stamp) = IF k = 0 THEN [w EXCEPT !.s = t, !.loop = "full"] ELSE x
    BY DEF StoreNew
  <1>3. /\ Cells(w.ext[i]) = {} /\ w.ext \in ExtentLists /\ w.ext[i] \in Extent
        /\ IsWork(w) /\ Going(w.s) /\ SameInodes(s, w.s) /\ w.left \in Nat
        /\ Held(bits, w.ext, O) /\ Extents \in Nat
        /\ (i - 1) + 1 = i /\ i - 1 \in 0..Extents
        /\ Cardinality(CellsFrom(w.ext, 1, i - 1)) + w.left <= n
    <2>1. w.ext \in ExtentLists /\ w.ext[i] \in Extent
      BY DEF Growing, ExtentLists
    <2>2. Extents \in Nat
      BY AtufsAssumption
    <2>3. QED  BY <2>1, <2>2, CellsCounted DEF Growing
  <1> HIDE DEF a, x
  <1>4. SameInodes(s, t)
    BY <1>1, <1>3 DEF SameInodes
  <1>5. CASE k = 0
    <2> DEFINE y == [w EXCEPT !.s = t, !.loop = "full"]
    <2>1. Cells(e) = {}
      BY <1>1, <1>5, CellsCounted
    <2>2. t.disk[CBmp] = bits
      BY <1>1, <2>1
    <2>3. y = [s |-> t, ext |-> w.ext, left |-> w.left, parts |-> w.parts, loop |-> "full"]
      BY <1>3, WorkChanged
    <2> HIDE DEF y, e, t
    <2>4. Growing(s, O, n, y, i)
      BY <1>1, <1>3, <1>4, <2>2, <2>3 DEF Growing, IsWork
    <2>5. Shaped(y, i)
      BY <2>3 DEF Shaped
    <2>6. QED  BY <1>2, <1>5, <2>4, <2>5 DEF y
  <1>6. CASE k # 0
    <2> HIDE DEF e, t, k
    <2>1. k \in 0..w.left /\ k > 0 /\ w.left - k \in Nat /\ e = [start |-> e.start, many |-> k]
      BY <1>1, <1>3, <1>6 DEF Extent, k
    <2>2. Run(e.start, k) \subseteq ClusterNumbers
      BY <1>1 DEF Cells, k
    <2>3. v \in ExtentLists /\ Held(t.disk[CBmp], v, O)
      <3> DEFINE none == {}
                 new == Cells(e)
                 after == (bits \cup new) \ none
      <3>1. after = t.disk[CBmp] /\ none \subseteq Cells(w.ext[i])
            /\ Cells(e) = (Cells(w.ext[i]) \cup new) \ none /\ new \cap bits = {}
        BY <1>1, <1>3
      <3> HIDE DEF none, new, bits
      <3>2. v \in ExtentLists /\ Held(after, v, O)
        BY <1>1, <1>3, <3>1, HeldSlot
      <3>3. QED  BY <3>1, <3>2
    <2>4. v = [w.ext EXCEPT ![i] = [start |-> e.start, many |-> k]]
      BY <2>1
    <2>5. v[i] = e /\ v[i].many = k /\ \A j \in 1..Extents : j # i => v[j] = w.ext[j]
      BY <1>3 DEF ExtentLists, k
    <2> HIDE DEF v
    <2>6. /\ IsWork(x) /\ Going(x.s) /\ SameInodes(s, x.s) /\ x.s.disk[CBmp] = t.disk[CBmp]
          /\ x.ext = v /\ x.left = w.left - k /\ x.loop = w.loop
      <3>1. k \in Nat /\ e \in Extent /\ Going(t) /\ IsWork(w)
        BY <1>1, <1>3, <2>1
      <3>2. Entered(s, w, t, i, e, k, x)
        BY <1>4, <2>2, <3>1, StoreEnters, Zenon DEF x
      <3>3. QED  BY <2>4, <3>2 DEF Entered
    <2>7. /\ \A j \in 1..(i - 1) : w.ext[j].many > 0
          /\ CompactFrom(w.ext, i, Extents)
      BY <1>3 DEF Shaped
    <2>8. \A j \in 1..i : v[j].many > 0
      <3>1. \A j \in 1..i : j \in 1..Extents /\ (j = i \/ j \in 1..(i - 1))
        BY <1>3
      <3>2. QED  BY <2>1, <2>5, <2>7, <3>1
    <2>9. CompactFrom(v, 1, i)
      BY <2>8 DEF CompactFrom
    <2>10. CompactFrom(v, i + 1, Extents) /\ CellsFrom(v, i + 1, Extents) = {}
      <3>1. \A j \in i..Extents : w.ext[j].many = 0 /\ Cells(w.ext[j]) = {}
        BY <1>3, <2>7, RestEmpty
      <3>2. \A j \in (i + 1)..Extents : j \in i..Extents /\ j \in 1..Extents /\ j # i
        BY <1>3
      <3>3. \A j \in (i + 1)..Extents : v[j].many = 0 /\ Cells(v[j]) = {}
        BY <2>5, <3>1, <3>2
      <3>4. QED  BY <3>3 DEF CompactFrom, CellsFrom
    <2>11. Shaped(x, i)
      BY <2>6, <2>8, <2>9, <2>10 DEF Shaped
    <2>12. /\ Cardinality(CellsFrom(v, 1, i)) = Cardinality(CellsFrom(w.ext, 1, i - 1)) + k
           /\ Cardinality(CellsFrom(w.ext, 1, i - 1)) \in Nat
      <3>1. InVolume(v) /\ SlotsApart(v)
        BY <2>3, <2>6, HeldInside
      <3>2. CellsFrom(v, 1, i - 1) = CellsFrom(w.ext, 1, i - 1)
        <4>1. \A j \in 1..(i - 1) : v[j] = w.ext[j]
          BY <1>3, <2>5
        <4>2. QED  BY <4>1 DEF CellsFrom
      <3>3. QED  BY <2>3, <2>5, <3>1, <3>2, CellsSplit
    <2>13. Cardinality(CellsFrom(v, i + 1, Extents)) = 0
      BY <2>10, FS_EmptySet
    <2>14. /\ Cardinality(CellsFrom(v, 1, i)) + (w.left - k) <= n
           /\ Cardinality(CellsFrom(v, i + 1, Extents)) <= w.left - k
      BY <1>3, <2>1, <2>12, <2>13
    <2>15. Growing(s, O, n, x, i)
      BY <2>1, <2>3, <2>6, <2>14 DEF Growing
    <2>16. QED  BY <1>2, <1>6, <2>11, <2>15
  <1>7. QED  BY <1>5, <1>6

(* The slot is written again.                                              *)
Repeats(s, O, n, w, i, x) ==
    /\ Growing(s, O, n, x, i) /\ x.ext = w.ext /\ x.loop = w.loop
    /\ x.left = w.left - w.ext[i].many

LEMMA OldGrows ==
  ASSUME NEW s, NEW O, NEW n \in Nat, NEW w, NEW i \in 1..Extents, Growing(s, O, n, w, i - 1),
         w.loop = "on", w.ext[i].many <= w.left, NEW stamp
  PROVE  Repeats(s, O, n, w, i, Store(w, w.s, i, w.ext[i], w.ext[i].many, stamp))
  <1> DEFINE e == w.ext[i]
             k == e.many
             t == w.s
             x == Store(w, t, i, e, k, stamp)
  <1>1. /\ e \in Extent /\ k \in Nat /\ e = [start |-> e.start, many |-> k] /\ w.left \in Nat
        /\ w.left - k \in Nat /\ Extents \in Nat /\ (i - 1) + 1 = i
    <2>1. e \in Extent /\ w.left \in Nat
      BY DEF Growing, ExtentLists
    <2>2. k \in Nat /\ e = [start |-> e.start, many |-> k]
      BY <2>1 DEF Extent
    <2>3. QED  BY <2>1, <2>2, AtufsAssumption
  <1>2. /\ IsWork(w) /\ Going(t) /\ SameInodes(s, t) /\ w.ext \in ExtentLists
        /\ Held(t.disk[CBmp], w.ext, O)
        /\ Cardinality(CellsFrom(w.ext, 1, i - 1)) + w.left <= n
        /\ Cardinality(CellsFrom(w.ext, i, Extents)) <= w.left
    BY <1>1 DEF Growing
  <1>3. InVolume(w.ext) /\ SlotsApart(w.ext)
    BY <1>2, HeldInside
  <1>4. Run(e.start, k) \subseteq ClusterNumbers
    BY <1>3 DEF InVolume, Cells
  <1>5. w.ext = [w.ext EXCEPT ![i] = [start |-> e.start, many |-> k]]
    <2>1. w.ext = [w.ext EXCEPT ![i] = e]
      BY <1>2 DEF ExtentLists
    <2>2. QED  BY <1>1, <2>1
  <1>6. /\ Cardinality(CellsFrom(w.ext, i, Extents))
              = k + Cardinality(CellsFrom(w.ext, i + 1, Extents))
        /\ Cardinality(CellsFrom(w.ext, 1, i)) = Cardinality(CellsFrom(w.ext, 1, i - 1)) + k
        /\ Cardinality(CellsFrom(w.ext, i + 1, Extents)) \in Nat
        /\ Cardinality(CellsFrom(w.ext, 1, i - 1)) \in Nat
    BY <1>2, <1>3, CellsSplit
  <1> HIDE DEF x, e, k, t
  <1>7. Entered(s, w, t, i, e, k, x)
    BY <1>1, <1>2, <1>4, StoreEnters, Zenon DEF x
  <1>8. /\ IsWork(x) /\ Going(x.s) /\ SameInodes(s, x.s) /\ x.s.disk[CBmp] = t.disk[CBmp]
        /\ x.ext = w.ext /\ x.left = w.left - k /\ x.loop = w.loop
    BY <1>5, <1>7 DEF Entered
  <1>9. /\ Cardinality(CellsFrom(w.ext, 1, i)) + (w.left - k) <= n
        /\ Cardinality(CellsFrom(w.ext, i + 1, Extents)) <= w.left - k
    BY <1>1, <1>2, <1>6
  <1>10. Growing(s, O, n, x, i)
    BY <1>1, <1>2, <1>8, <1>9 DEF Growing
  <1>11. QED  BY <1>8, <1>10 DEF Repeats, x, e, k, t

LEMMA SlotFits ==
  ASSUME NEW s, NEW O, NEW n, NEW w, NEW i \in 1..Extents, Growing(s, O, n, w, i - 1),
         w.loop = "on"
  PROVE  w.ext[i].many <= w.left
  <1>1. w.ext \in ExtentLists /\ w.left \in Nat /\ (i - 1) + 1 = i
    BY AtufsAssumption DEF Growing
  <1>2. w.ext[i].many \in Nat
    BY <1>1 DEF ExtentLists, Extent
  <1>3. InVolume(w.ext) /\ SlotsApart(w.ext)
    BY HeldInside DEF Growing
  <1>4. Cardinality(CellsFrom(w.ext, i, Extents)) <= w.left
    BY <1>1 DEF Growing
  <1>5. /\ Cardinality(CellsFrom(w.ext, i, Extents))
              = w.ext[i].many + Cardinality(CellsFrom(w.ext, i + 1, Extents))
        /\ Cardinality(CellsFrom(w.ext, i + 1, Extents)) \in Nat
    BY <1>1, <1>3, CellsSplit
  <1>6. QED  BY <1>1, <1>2, <1>4, <1>5

LEMMA GrowingWorks ==
  ASSUME NEW s, NEW O, NEW n, NEW w, NEW i, Growing(s, O, n, w, i)
  PROVE  Working(w)
  <1>1. IsDisk(w.s.disk)
    BY PassesAt DEF Growing, Going, Restartable
  <1>2. Formed(w.s)
    BY <1>1 DEF Growing, Going, Passes, IsDisk, Formed
  <1>3. QED  BY <1>2, HeldInside DEF Growing, Working

LEMMA SlotGrows ==
  ASSUME NEW s, NEW O, NEW n \in Nat, NEW w, NEW i \in 1..Extents, Growing(s, O, n, w, i - 1),
         Shaped(w, i - 1), NEW stamp
  PROVE  Growing(s, O, n, Slot(w, i, stamp), i) /\ Shaped(Slot(w, i, stamp), i)
  <1> DEFINE e == w.ext[i]
             x == Slot(w, i, stamp)
             again == Store(w, w.s, i, e, e.many, stamp)
  <1>1. /\ Extents \in Nat /\ i \in Nat /\ (i - 1) + 1 = i /\ i - 1 \in 0..Extents
        /\ w.ext \in ExtentLists /\ e.many \in Nat /\ w.left \in Nat
        /\ Held(w.s.disk[CBmp], w.ext, O) /\ Going(w.s)
    <2>1. Extents \in Nat
      BY AtufsAssumption
    <2>2. w.ext \in ExtentLists /\ e.many \in Nat
      BY DEF Growing, ExtentLists, Extent
    <2>3. QED  BY <2>1, <2>2 DEF Growing
  <1>2. InVolume(w.ext) /\ SlotsApart(w.ext)
    BY <1>1, HeldInside
  <1>3. CASE w.loop # "on"
    <2>1. x = w
      BY <1>3 DEF Slot
    <2>2. Growing(s, O, n, w, i) /\ Shaped(w, i)
      BY <1>3 DEF Shaped, Growing
    <2>3. QED  BY <2>1, <2>2
  <1>4. CASE w.loop = "on"
    <2>1. /\ w.left > 0 => \A j \in 1..(i - 1) : w.ext[j].many > 0
          /\ CompactFrom(w.ext, 1, i - 1) /\ CompactFrom(w.ext, i, Extents)
          /\ Cardinality(CellsFrom(w.ext, 1, i - 1)) + w.left <= n
          /\ Cardinality(CellsFrom(w.ext, i, Extents)) <= w.left
      BY <1>1, <1>4 DEF Shaped, Growing
    <2>2. /\ Cardinality(CellsFrom(w.ext, i, Extents))
                = e.many + Cardinality(CellsFrom(w.ext, i + 1, Extents))
          /\ Cardinality(CellsFrom(w.ext, i + 1, Extents)) \in Nat
          /\ Cardinality(CellsFrom(w.ext, 1, i - 1)) \in Nat
          /\ Cardinality(CellsFrom(w.ext, 1, Extents))
                = Cardinality(CellsFrom(w.ext, 1, i - 1)) + Cardinality(CellsFrom(w.ext, i, Extents))
      <3>1. /\ Cardinality(CellsFrom(w.ext, i, Extents))
                = e.many + Cardinality(CellsFrom(w.ext, i + 1, Extents))
            /\ Cardinality(CellsFrom(w.ext, i + 1, Extents)) \in Nat
            /\ Cardinality(CellsFrom(w.ext, 1, i - 1)) \in Nat
        BY <1>1, <1>2, CellsSplit
      <3>2. Cardinality(CellsFrom(w.ext, 1, Extents))
              = Cardinality(CellsFrom(w.ext, 1, i - 1))
                + Cardinality(CellsFrom(w.ext, (i - 1) + 1, Extents))
        BY <1>1, <1>2, CellsTotal
      <3>3. QED  BY <1>1, <3>1, <3>2
    <2>3. e.many <= w.left /\ Cardinality(CellsFrom(w.ext, 1, Extents)) <= n
      BY <1>1, <2>1, <2>2
    <2>4. CASE w.left = 0
      <3> DEFINE y == [w EXCEPT !.loop = "break"]
      <3>1. e.many = 0
        BY <1>1, <2>3, <2>4
      <3>2. x = y
        BY <1>4, <2>4, <3>1 DEF Slot
      <3>3. Growing(s, O, n, w, i)
        <4>1. Cardinality(CellsFrom(w.ext, i + 1, Extents)) = 0
          BY <1>1, <2>1, <3>1, RestEmpty
        <4>2. Cardinality(CellsFrom(w.ext, 1, i)) = Cardinality(CellsFrom(w.ext, 1, i - 1)) + e.many
          BY <1>1, <1>2, CellsSplit
        <4>3. QED  BY <1>4, <2>1, <2>2, <2>4, <3>1, <4>1, <4>2 DEF Growing
      <3>4. Compact(w.ext)
        <4>1. \A j \in i..Extents : w.ext[j].many = 0
          BY <1>1, <2>1, <3>1, RestEmpty
        <4>2. QED  BY <1>1, <2>1, <4>1 DEF Compact, CompactFrom
      <3>5. Growing(s, O, n, y, i) /\ y.ext = w.ext /\ y.left = w.left /\ y.loop = "break"
        BY <2>3, <3>3, GrowingEnds
      <3> HIDE DEF y, x
      <3>6. QED  BY <2>4, <3>2, <3>4, <3>5 DEF Shaped, x
    <2>5. CASE w.left > 0 /\ e.many = 0
      <3>1. x = StoreNew(w, i, stamp)
        BY <1>1, <1>4, <2>5 DEF Slot
      <3> HIDE DEF x
      <3>2. QED  BY <1>4, <2>5, <3>1, NewGrows DEF x
    <2>6. CASE w.left > 0 /\ e.many > 0
      <3>1. /\ Growing(s, O, n, again, i) /\ again.ext = w.ext /\ again.loop = w.loop
            /\ again.left = w.left - e.many
        <4> HIDE DEF x
        <4>1. Growing(s, O, n, w, i - 1) /\ w.loop = "on" /\ w.ext[i].many <= w.left
          BY <1>4, <2>3
        <4> HIDE DEF again, e
        <4>2. Repeats(s, O, n, w, i, again)
          BY <4>1, OldGrows, Zenon DEF again, e
        <4>3. QED  BY <4>2 DEF Repeats, e
      <3>2. \A j \in 1..i : w.ext[j].many > 0
        <4>1. \A j \in 1..i : j \in 1..(i - 1) \/ j = i
          BY <1>1
        <4>2. QED  BY <2>1, <2>6, <4>1
      <3>3. CASE e.many < w.left
        <4>1. x = again
          BY <1>1, <1>4, <2>6, <3>3 DEF Slot
        <4> HIDE DEF again, x
        <4>2. CompactFrom(w.ext, 1, i) /\ CompactFrom(w.ext, i + 1, Extents)
          BY <1>1, <2>1, <3>2 DEF CompactFrom
        <4>3. Shaped(again, i)
          BY <1>4, <3>1, <3>2, <4>2 DEF Shaped
        <4>4. QED  BY <3>1, <4>1, <4>3 DEF x
      <3>4. CASE e.many = w.left
        <4> DEFINE y == [again EXCEPT !.loop = "break"]
        <4>1. x = y
          BY <1>1, <1>4, <2>6, <3>4 DEF Slot
        <4> HIDE DEF again
        <4>2. Growing(s, O, n, y, i) /\ y.ext = again.ext /\ y.left = again.left
              /\ y.loop = "break"
          BY <2>3, <3>1, GrowingEnds
        <4>3. Compact(w.ext)
          <5>1. ASSUME NEW p \in 1..Extents, NEW q \in 1..Extents, p <= q, w.ext[p].many = 0
                PROVE  w.ext[q].many = 0
            <6>1. p \notin 1..i
              BY <3>2, <5>1
            <6>2. p \in i..Extents /\ q \in i..Extents
              BY <1>1, <5>1, <6>1
            <6>3. QED  BY <2>1, <5>1, <6>2 DEF CompactFrom
          <5>2. QED  BY <5>1 DEF Compact
        <4>4. again.left = 0
          BY <1>1, <3>1, <3>4
        <4> HIDE DEF y, x
        <4>5. QED  BY <3>1, <4>1, <4>2, <4>3, <4>4 DEF Shaped, x
      <3>5. QED  BY <1>1, <2>3, <3>3, <3>4
    <2>7. QED  BY <1>1, <2>4, <2>5, <2>6
  <1>5. QED  BY <1>3, <1>4

(* The loop as a whole, slot by slot, of a file that grows.                *)
GrowsBy(s, O, n, ext, stamp, run) ==
    /\ run[0] = [s |-> s, ext |-> ext, left |-> n, parts |-> 0, loop |-> "on"]
    /\ \A i \in 1..Extents : run[i] = Slot(run[i - 1], i, stamp)
    /\ run[Extents] = Resize(s, ext, n, stamp)
    /\ \A i \in 0..Extents : Growing(s, O, n, run[i], i) /\ Shaped(run[i], i)

LEMMA ResizeSlots ==
  ASSUME NEW s, Going(s), NEW O, NEW ext \in ExtentLists, Compact(ext),
         Held(s.disk[CBmp], ext, O), NEW n \in Nat,
         Cardinality(CellsFrom(ext, 1, Extents)) <= n, NEW stamp
  PROVE  \E run : GrowsBy(s, O, n, ext, stamp, run)
  <1> DEFINE start == [s |-> s, ext |-> ext, left |-> n, parts |-> 0, loop |-> "on"]
  <1>1. Extents \in Nat
    BY AtufsAssumption
  <1>2. PICK run : /\ run[0] = start
                   /\ \A i \in 1..Extents : run[i] = Slot(run[i - 1], i, stamp)
                   /\ Resize(s, ext, n, stamp) = run[Extents]
    BY ResizeRuns
  <1> DEFINE T == {i \in 0..Extents : Growing(s, O, n, run[i], i) /\ Shaped(run[i], i)}
  <1>3. 0 \in T
    <2>1. /\ IsWork(start) /\ start.s = s /\ start.ext = ext /\ start.left = n
          /\ start.loop = "on"
      BY DEF IsWork
    <2> HIDE DEF start
    <2>2. SameInodes(s, s)
      BY DEF SameInodes
    <2>3. CellsFrom(ext, 1, 0) = {} /\ Cardinality(CellsFrom(ext, 1, 0)) = 0
      <3>1. CellsFrom(ext, 1, 0) = {}
        BY DEF CellsFrom
      <3>2. QED  BY <3>1, FS_EmptySet
    <2>4. 0 + 1 = 1
      OBVIOUS
    <2>5. Growing(s, O, n, start, 0)
      BY <2>1, <2>2, <2>3, <2>4 DEF Growing
    <2>6. CompactFrom(ext, 1, 0) /\ CompactFrom(ext, 0 + 1, Extents)
      BY DEF CompactFrom, Compact
    <2>7. Shaped(start, 0)
      BY <2>1, <2>6 DEF Shaped
    <2>8. QED  BY <1>1, <1>2, <2>5, <2>7
  <1>4. ASSUME NEW i \in 0..(Extents - 1), i \in T PROVE i + 1 \in T
    <2> DEFINE w == run[i]
               k == i + 1
    <2>1. k \in 1..Extents /\ k - 1 = i /\ k \in 0..Extents
      BY <1>1
    <2>2. run[k] = Slot(w, k, stamp)
      BY <1>2, <2>1
    <2>3. Growing(s, O, n, w, k - 1) /\ Shaped(w, k - 1)
      BY <1>4, <2>1
    <2> HIDE DEF w, k
    <2>4. Growing(s, O, n, Slot(w, k, stamp), k) /\ Shaped(Slot(w, k, stamp), k)
      BY <2>1, <2>3, SlotGrows
    <2>5. QED  BY <2>1, <2>2, <2>4 DEF k
  <1>5. 0..Extents \subseteq T
    <2>1. Climbs(T, 0, Extents)
      BY <1>3, <1>4 DEF Climbs
    <2> HIDE DEF T
    <2>2. QED  BY <1>1, <2>1, UpTo
  <1>6. \A i \in 0..Extents : Growing(s, O, n, run[i], i) /\ Shaped(run[i], i)
    BY <1>5
  <1>7. GrowsBy(s, O, n, ext, stamp, run)
    BY <1>2, <1>6 DEF GrowsBy
  <1>8. QED  BY <1>7

(* A file that grows: nothing is cleared, and unless the volume runs out   *)
(* of clusters the inode may be written.                                   *)
LEMMA ResizeGrows ==
  ASSUME NEW s, Going(s), NEW O, NEW ext \in ExtentLists, Compact(ext),
         Held(s.disk[CBmp], ext, O), NEW n \in Nat,
         Cardinality(CellsFrom(ext, 1, Extents)) <= n, NEW stamp
  PROVE  LET w == Resize(s, ext, n, stamp)
         IN  /\ Growing(s, O, n, w, Extents)
             /\ w.loop # "full" =>
                   Compact(w.ext) /\ Cardinality(CellsFrom(w.ext, 1, Extents)) <= n
  <1> DEFINE w == Resize(s, ext, n, stamp)
  <1>1. Extents \in Nat /\ Extents \in 0..Extents
    BY AtufsAssumption
  <1>2. PICK run : GrowsBy(s, O, n, ext, stamp, run)
    BY ResizeSlots
  <1>3. Growing(s, O, n, w, Extents) /\ Shaped(w, Extents)
    BY <1>1, <1>2 DEF GrowsBy
  <1> HIDE DEF w
  <1>4. ASSUME w.loop # "full"
        PROVE  Compact(w.ext) /\ Cardinality(CellsFrom(w.ext, 1, Extents)) <= n
    <2>1. Compact(w.ext)
      BY <1>3, <1>4 DEF Shaped, Compact, CompactFrom
    <2>2. Cardinality(CellsFrom(w.ext, 1, Extents)) <= n
      <3>1. Cardinality(CellsFrom(w.ext, 1, Extents)) \in Nat
        <4>1. InVolume(w.ext)
          BY <1>3, HeldInside DEF Growing
        <4>2. 1 \in 1..(Extents + 1) /\ Extents \in 0..Extents
          BY <1>1
        <4>3. QED  BY <4>1, <4>2, CellsFinite
      <3>2. w.loop = "on" \/ w.loop = "break"
        BY <1>3, <1>4 DEF Shaped
      <3>3. QED  BY <1>3, <3>1, <3>2 DEF Growing
    <2>3. QED  BY <2>1, <2>2
  <1>5. QED  BY <1>3, <1>4 DEF w

-----------------------------------------------------------------------------
(* The clusters are written in place.                                      *)
LEMMA RewriteGoes ==
  ASSUME NEW s, Going(s), NEW ext \in ExtentLists, InVolume(ext), NEW stamp
  PROVE  LET t == Rewrite(s, ext, stamp)
         IN  Going(t) /\ SameInodes(s, t) /\ t.disk[CBmp] = s.disk[CBmp]
  <1>1. Leading(ext) \in 0..Extents /\ Extents \in Nat
    BY LeadingSlots, AtufsAssumption
  <1>2. Leading(ext) \in Nat
    BY <1>1
  <1>3. PICK run : /\ run[0] = s
                   /\ \A i \in 1..Leading(ext) :
                        run[i] = WriteData(run[i - 1], ext[i].start, ext[i].many, stamp, 0)
                   /\ Rewrite(s, ext, stamp) = run[Leading(ext)]
    BY ONLY <1>2, RewriteRuns
  <1> DEFINE last == Leading(ext)
             Fine(t) == Going(t) /\ SameInodes(s, t) /\ t.disk[CBmp] = s.disk[CBmp]
             T == {i \in 0..last : Fine(run[i])}
  <1>4. /\ run[0] = s
        /\ \A i \in 1..last :
              run[i] = WriteData(run[i - 1], ext[i].start, ext[i].many, stamp, 0)
        /\ Rewrite(s, ext, stamp) = run[last]
    BY ONLY <1>3
  <1> HIDE DEF last
  <1>5. 0 \in T
    BY <1>1, <1>4 DEF SameInodes, last
  <1>6. ASSUME NEW i \in 0..(last - 1), i \in T PROVE i + 1 \in T
    <2> DEFINE first == ext[i + 1].start
               many == ext[i + 1].many
               r == run[i]
               t == WriteData(r, first, many, stamp, 0)
    <2>1. i + 1 \in 1..last /\ i + 1 \in 1..Extents /\ (i + 1) - 1 = i /\ i + 1 \in 0..last
      BY <1>1 DEF last
    <2>2. run[i + 1] = t
      BY <1>4, <2>1
    <2>3. first \in Nat /\ many \in Nat /\ Run(first, many) \subseteq ClusterNumbers
      BY <2>1 DEF ExtentLists, Extent, InVolume, Cells
    <2>4. Going(r) /\ SameInodes(s, r) /\ r.disk[CBmp] = s.disk[CBmp]
      BY <1>6
    <2> HIDE DEF first, many, r
    <2>5. Going(t) /\ SameInodes(r, t) /\ t.disk[CBmp] = r.disk[CBmp]
      BY <2>3, <2>4, DataGoes
    <2> HIDE DEF t
    <2>6. Fine(run[i + 1])
      BY <2>2, <2>4, <2>5 DEF SameInodes
    <2>7. QED  BY <2>1, <2>6
  <1>7. last \in T
    <2>1. Climbs(T, 0, last)
      BY <1>5, <1>6 DEF Climbs
    <2>2. last \in Int /\ last \in 0..last
      BY <1>1 DEF last
    <2> HIDE DEF T
    <2>3. QED  BY <2>1, <2>2, UpTo
  <1>8. QED  BY <1>4, <1>7

(* A file without clusters has none to give up.                            *)
LEMMA NothingCleared ==
  ASSUME NEW s
  PROVE  ClearSlots(s, NoExtents, 1, Extents) = s
  <1>1. Extents \in Nat
    BY AtufsAssumption
  <1> DEFINE from == 1
  <1>2. from \in Int /\ Extents \in Int /\ from - 1 <= Extents /\ from - 1 = 0
    BY <1>1
  <1> HIDE DEF from
  <1>3. PICK run : /\ run[from - 1] = s
                   /\ \A i \in from..Extents : run[i] = clear_clusters(run[i - 1], NoExtents[i])
                   /\ ClearSlots(s, NoExtents, from, Extents) = run[Extents]
    BY <1>2, ClearSlotsRuns
  <1> DEFINE T == {i \in 0..Extents : run[i] = s}
  <1>4. 0 \in T
    BY <1>1, <1>2, <1>3
  <1>5. ASSUME NEW i \in 0..(Extents - 1), i \in T PROVE i + 1 \in T
    <2>1. i + 1 \in from..Extents /\ (i + 1) - 1 = i /\ i + 1 \in 1..Extents
      BY <1>1 DEF from
    <2>2. NoExtents[i + 1].many = 0
      BY <2>1 DEF NoExtents, NoExtent
    <2>3. run[i + 1] = clear_clusters(run[i], NoExtents[i + 1])
      BY <1>3, <2>1
    <2>4. run[i + 1] = run[i]
      BY <2>2, <2>3 DEF clear_clusters
    <2>5. QED  BY <1>5, <2>1, <2>4
  <1>6. Extents \in T
    <2>1. Climbs(T, 0, Extents)
      BY <1>4, <1>5 DEF Climbs
    <2> HIDE DEF T
    <2>2. QED  BY <1>1, <2>1, UpTo
  <1>7. QED  BY <1>3, <1>6 DEF from

(* More contents need no fewer clusters.                                   *)
LEMMA NeedGrows ==
  ASSUME NEW a \in Nat, NEW b \in Nat, a <= b
  PROVE  Need(a) \in Nat /\ Need(b) \in Nat /\ Need(a) <= Need(b)
  <1> DEFINE c == ClusterBytes
             x == a + c - 1
             y == b + c - 1
             p == x \div c
             q == y \div c
  <1>1. c \in Nat /\ c > 0 /\ x \in Nat /\ y \in Nat /\ x <= y
    BY AtufsAssumption
  <1> HIDE DEF c, x, y
  <1>2. /\ p \in Nat /\ q \in Nat
        /\ c * p <= x /\ x < c * (p + 1) /\ c * q <= y /\ y < c * (q + 1)
    BY <1>1
  <1> HIDE DEF p, q
  <1>3. p <= q
    <2>1. SUFFICES ASSUME p >= q + 1 PROVE FALSE
      BY <1>2
    <2>2. c * p >= c * (q + 1)
      BY <1>1, <1>2, <2>1
    <2>3. c * p \in Nat /\ c * (q + 1) \in Nat
      BY <1>1, <1>2
    <2>4. QED  BY <1>1, <1>2, <2>2, <2>3
  <1>4. QED  BY <1>2, <1>3 DEF Need, p, q, x, y, c

LEMMA NoneSized ==
  ASSUME NEW n, n.size \in Nat, n.ext = NoExtents
  PROVE  Sized(n)
  <1>1. CellsFrom(n.ext, 1, Extents) = {} /\ Cardinality(CellsFrom(n.ext, 1, Extents)) = 0
    BY NothingHeld, FS_EmptySet
  <1>2. Need(n.size) \in Nat
    BY NeedGrows
  <1>3. QED  BY <1>1, <1>2, NothingHeld DEF Sized

LEMMA NoneHeld ==
  ASSUME NEW bits, NEW O, O \subseteq bits
  PROVE  Held(bits, NoExtents, O)
  BY NothingHeld DEF Held, SlotsApart

LEMMA OthersMarked ==
  ASSUME NEW s, Going(s), NEW f \in FileNumbers
  PROVE  /\ Others(s.disk, f) \cup Lost \subseteq s.disk[CBmp]
         /\ Sized(s.disk[Inode(f)])
         /\ Held(s.disk[CBmp], s.disk[Inode(f)].ext, Others(s.disk, f) \cup Lost)
  <1> DEFINE d == s.disk
             ext == d[Inode(f)].ext
  <1>1. Sized(d[Inode(f)]) /\ Held(d[CBmp], ext, Others(d, f))
    BY PassesAt DEF Going, Restartable, Owned
  <1>2. Lost \subseteq d[CBmp] /\ Lost \cap CellsFrom(ext, 1, Extents) = {}
    BY AllCellsSplit DEF Going, Reckoned, CellsHeld
  <1> HIDE DEF d, ext
  <1>3. \A i \in 1..Extents : Cells(ext[i]) \cap Lost = {}
    BY <1>2 DEF CellsFrom
  <1>4. Held(d[CBmp], ext, Others(d, f) \cup Lost)
    BY <1>1, <1>2, <1>3 DEF Held
  <1>5. QED  BY <1>1, <1>4 DEF Held, d, ext

(* The other files are the same files.                                     *)
LEMMA OthersSame ==
  ASSUME NEW s, NEW t, SameInodes(s, t), NEW f \in FileNumbers
  PROVE  Others(t.disk, f) = Others(s.disk, f)
  BY DEF SameInodes, Others, CellsHeld

(* write_file, for a file that grows, or that stays as long as it is.      *)
LEMMA WriteFileGoes ==
  ASSUME NEW s, Going(s), NEW f \in FileNumbers, NEW inode, Sized(inode),
         Held(s.disk[CBmp], inode.ext, Others(s.disk, f) \cup Lost),
         NEW size \in Nat, inode.size <= size, NEW stamp
  PROVE  Going(write_file(s, f, inode, size, stamp).s)
  <1> DEFINE ext == IF inode.large THEN inode.ext ELSE NoExtents
             own == inode.ext
             O == Others(s.disk, f) \cup Lost
             large(e) == [large |-> TRUE, size |-> size, ext |-> e, inline |-> <<>>]
             small == [large |-> FALSE, size |-> size, ext |-> NoExtents, inline |-> stamp]
             r == write_file(s, f, inode, size, stamp)
  <1>1. /\ ext = own /\ own \in ExtentLists /\ Compact(own) /\ InVolume(own)
        /\ inode.size \in Nat /\ (inode.size <= InlineMax => own = NoExtents)
        /\ Cardinality(CellsFrom(own, 1, Extents)) <= Need(inode.size)
    BY DEF Sized
  <1>2. Held(s.disk[CBmp], own, O) /\ O \subseteq s.disk[CBmp]
    BY DEF Held
  <1>3. InlineMax \in Nat /\ Extents \in Nat
    BY AtufsAssumption
  <1>4. Need(inode.size) \in Nat /\ Need(size) \in Nat /\ Need(inode.size) <= Need(size)
    BY <1>1, NeedGrows
  <1>5. Cardinality(CellsFrom(own, 1, Extents)) <= Need(size)
    <2>1. 1 \in 1..(Extents + 1) /\ Extents \in 0..Extents
      BY <1>3
    <2>2. Cardinality(CellsFrom(own, 1, Extents)) \in Nat
      BY <1>1, <2>1, CellsFinite
    <2>3. QED  BY <1>1, <1>4, <2>2
  <1>6. small.ext = NoExtents /\ Sized(small)
    BY NoneSized
  <1>7. ASSUME ~(size <= InlineMax), NEW e \in ExtentLists, Compact(e), InVolume(e),
               Cardinality(CellsFrom(e, 1, Extents)) <= Need(size)
        PROVE  Sized(large(e)) /\ large(e).ext = e
    BY <1>7 DEF Sized
  <1> HIDE DEF ext, own, large, small, O
  <1>8. CASE size <= InlineMax
    <2>1. own = NoExtents
      BY <1>1, <1>3, <1>8
    <2>2. r.s = Write(s, Inode(f), small)
      <3>1. ~SameNeed(inode, size)
        BY <1>3, <1>8 DEF SameNeed
      <3>2. ClearSlots(s, ext, 1, Extents) = s
        BY <1>1, <2>1, NothingCleared
      <3>3. QED  BY <1>8, <3>1, <3>2 DEF write_file, ext, small
    <2>3. Held(s.disk[CBmp], small.ext, Others(s.disk, f) \cup Lost)
      BY <1>2, <1>6, NoneHeld DEF O
    <2> HIDE DEF r
    <2>4. Going(Write(s, Inode(f), small))
      BY <1>6, <2>3, InodeGoes
    <2>5. QED  BY <2>2, <2>4 DEF r
  <1>9. CASE SameNeed(inode, size)
    <2> DEFINE t == Rewrite(s, own, stamp)
    <2>1. size > InlineMax /\ ~(size <= InlineMax)
      BY <1>3, <1>9 DEF SameNeed
    <2>2. r.s = Write(t, Inode(f), large(own))
      BY <1>1, <1>9, <2>1 DEF write_file, ext, large
    <2>3. Going(t) /\ SameInodes(s, t) /\ t.disk[CBmp] = s.disk[CBmp]
      BY <1>1, RewriteGoes
    <2> DEFINE n == large(own)
    <2>4. Sized(n) /\ n.ext = own
      BY <1>1, <1>5, <1>7, <2>1
    <2> HIDE DEF t, r, n
    <2>5. Held(t.disk[CBmp], n.ext, Others(t.disk, f) \cup Lost)
      BY <1>2, <2>3, <2>4, OthersSame DEF O
    <2>6. Going(Write(t, Inode(f), n))
      BY <2>3, <2>4, <2>5, InodeGoes
    <2>7. QED  BY <2>2, <2>6 DEF r, n
  <1>10. CASE size > InlineMax /\ ~SameNeed(inode, size)
    <2> DEFINE m == Need(size)
               w == Resize(s, own, m, stamp)
               n == large(w.ext)
    <2>1. ~(size <= InlineMax)
      BY <1>3, <1>10
    <2>2. r.s = IF w.loop = "full" THEN w.s ELSE Write(w.s, Inode(f), n)
      BY <1>1, <1>10, <2>1 DEF write_file, ext, large
    <2>3. m \in Nat /\ Cardinality(CellsFrom(own, 1, Extents)) <= m
      BY <1>4, <1>5
    <2> HIDE DEF m
    <2>4. /\ Growing(s, O, m, w, Extents)
          /\ w.loop # "full" =>
                Compact(w.ext) /\ Cardinality(CellsFrom(w.ext, 1, Extents)) <= m
      BY <1>1, <1>2, <2>3, ResizeGrows
    <2> HIDE DEF w, n, r
    <2>5. /\ Going(w.s) /\ SameInodes(s, w.s) /\ w.ext \in ExtentLists
          /\ Held(w.s.disk[CBmp], w.ext, O)
      BY <2>4 DEF Growing
    <2>6. CASE w.loop = "full"
      BY <2>2, <2>5, <2>6 DEF r
    <2>7. CASE w.loop # "full"
      <3>1. InVolume(w.ext)
        BY <2>5, HeldInside
      <3>2. Sized(n) /\ n.ext = w.ext
        BY <1>7, <2>1, <2>4, <2>5, <2>7, <3>1 DEF n, m
      <3>3. Held(w.s.disk[CBmp], n.ext, Others(w.s.disk, f) \cup Lost)
        BY <2>5, <3>2, OthersSame DEF O
      <3>4. Going(Write(w.s, Inode(f), n))
        BY <2>5, <3>2, <3>3, InodeGoes
      <3>5. QED  BY <2>2, <2>7, <3>4 DEF r
    <2>8. QED  BY <2>6, <2>7
  <1>11. QED  BY <1>3, <1>8, <1>9, <1>10

-----------------------------------------------------------------------------
(* create_file: the new inode has no clusters.                             *)
LEMMA CreateGoes ==
  ASSUME NEW s, Going(s), NEW size \in Nat, NEW stamp
  PROVE  LET c == create(s, size, stamp)
         IN  Going(c.s) /\ (c.made => c.file \in FileNumbers)
  <1> DEFINE c == create(s, size, stamp)
             fresh == [NoInode EXCEPT !.large = size > InlineMax]
             f == Min(FreeFiles(s))
             count == s.info.files + 1
             bits == s.disk[FBmp] \cup {BitOf(f)}
             t == SetFiles(s, count, bits)
             w == write_file(t, f, fresh, size, stamp)
  <1>1. CASE FreeFiles(s) = {}
    <2>1. c.s = s /\ c.made = FALSE
      BY <1>1 DEF create
    <2>2. QED  BY <2>1
  <1>2. CASE FreeFiles(s) # {}
    <2>1. f \in FileNumbers
      <3>1. FreeFiles(s) \in SUBSET Nat
        BY AtufsAssumption DEF FreeFiles
      <3>2. f \in FreeFiles(s)
        BY <1>2, <3>1, Smallest
      <3>3. QED  BY <3>2 DEF FreeFiles, FileNumbers
    <2>2. c.s = w.s /\ c.file = f
      BY <1>2 DEF create, alocate_file
    <2>3. fresh.size = 0 /\ fresh.ext = NoExtents
      BY DEF NoInode
    <2>4. count \in Nat
      BY PassesAt DEF Going, Restartable, Counts
    <2> HIDE DEF c, fresh, f, count, bits
    <2>5. Going(t)
      BY <2>4, SetFilesGoes
    <2> HIDE DEF t
    <2>6. Held(t.disk[CBmp], fresh.ext, Others(t.disk, f) \cup Lost) /\ Sized(fresh)
      BY <2>1, <2>3, <2>5, OthersMarked, NoneHeld, NoneSized
    <2>7. fresh.size \in Nat /\ fresh.size <= size
      BY <2>3
    <2>8. Going(w.s)
      BY <2>1, <2>5, <2>6, <2>7, WriteFileGoes
    <2>9. QED  BY <2>1, <2>2, <2>8 DEF c
  <1>3. QED  BY <1>1, <1>2

(* A directory is written.                                                 *)
LEMMA WrittenGoes ==
  ASSUME NEW s, Going(s), NEW dir \in FileNumbers, NEW size \in Nat,
         s.disk[Inode(dir)].size <= size, NEW b
  PROVE  Going(Written(s, dir, s.disk[Inode(dir)], size, b).s)
  <1> DEFINE inode == s.disk[Inode(dir)]
             w == write_file(s, dir, inode, size, b)
  <1>1. Sized(inode) /\ Held(s.disk[CBmp], inode.ext, Others(s.disk, dir) \cup Lost)
    BY OthersMarked
  <1>2. inode.size <= size
    OBVIOUS
  <1>3. Written(s, dir, inode, size, b).s = w.s
    BY DEF Written
  <1> HIDE DEF inode
  <1>4. Going(w.s)
    BY <1>1, <1>2, WriteFileGoes
  <1>5. QED  BY <1>3, <1>4 DEF inode

LEMMA CreateEntryGoes ==
  ASSUME NEW s, Going(s), NEW file, NEW used, NEW dir \in FileNumbers, NEW name, Len(name) \in Nat
  PROVE  Going(create_entry(s, file, used, dir, name).s)
  <1> DEFINE inode == s.disk[Inode(dir)]
             n == ClusterBytes * Need(inode.size + 1 + Len(name))
             b == Buffer(s.disk, inode, n)
             o == Place(b, n, Len(name))
             size == inode.size + IF b[o + 1].size = 0 THEN 1 + Len(name) ELSE 0
             w == Written(s, dir, inode, size, Put(b, o, file, used, name))
             r == create_entry(s, file, used, dir, name)
  <1>1. r.s = s \/ r.s = w.s
    BY DEF create_entry, EnterAt, Unwritten, Written
  <1>2. inode.size \in Nat
    BY OthersMarked DEF Sized
  <1>3. size \in Nat /\ s.disk[Inode(dir)].size <= size
    <2> HIDE DEF b, o
    <2>1. QED  BY <1>2
  <1> HIDE DEF b, o, size, n, r
  <1>4. Going(w.s)
    BY <1>3, WrittenGoes
  <1>5. QED  BY <1>1, <1>4 DEF r

(* The directory is written as long as it was, or not at all.              *)
Same(s, dir, r) ==
    \/ r.s = s
    \/ \E b : r.s = Written(s, dir, s.disk[Inode(dir)], s.disk[Inode(dir)].size, b).s

LEMMA SameGoes ==
  ASSUME NEW s, Going(s), NEW dir \in FileNumbers, NEW r, Same(s, dir, r)
  PROVE  Going(r.s)
  <1> DEFINE size == s.disk[Inode(dir)].size
  <1>1. size \in Nat /\ s.disk[Inode(dir)].size <= size
    <2>1. Sized(s.disk[Inode(dir)])
      BY OthersMarked
    <2>2. size \in Nat
      BY <2>1 DEF Sized
    <2>3. QED  BY <2>2
  <1>2. CASE r.s = s
    BY <1>2
  <1>3. ASSUME NEW b, r.s = Written(s, dir, s.disk[Inode(dir)], size, b).s PROVE Going(r.s)
    <2> HIDE DEF size
    <2>1. Going(Written(s, dir, s.disk[Inode(dir)], size, b).s)
      BY <1>1, WrittenGoes
    <2>2. QED  BY <1>3, <2>1
  <1>4. QED  BY <1>2, <1>3 DEF Same

LEMMA DeleteEntryGoes ==
  ASSUME NEW s, Going(s), NEW dir \in FileNumbers, NEW name, NEW r \in delete_entry(s, dir, name)
  PROVE  Going(r.s)
  <1> DEFINE inode == s.disk[Inode(dir)]
             b == Buffer(s.disk, inode, Whole(inode))
             hits == SelectSeq(Offsets(b, Len(b)), LAMBDA o : Matches(b, o, name, Len(name)))
             o == Head(hits)
             cleared == [i \in DOMAIN b |->
                           CASE i = o + 1 -> [b[i] EXCEPT !.used = FALSE]
                             [] i - o - 1 \in 1..b[o + 1].len -> Zero
                             [] OTHER -> b[i]]
             dull == Written(s, dir, inode, inode.size, b)
             good == Written(s, dir, inode, inode.size, cleared)
  <1>0. delete_entry(s, dir, name) = IF hits # <<>> THEN {good} ELSE {Unwritten(s, TRUE), dull}
    BY DEF delete_entry
  <1> HIDE DEF hits, cleared, b
  <1>1. r = good \/ r = dull \/ r = Unwritten(s, TRUE)
    BY <1>0
  <1>2. Same(s, dir, r)
    BY <1>1 DEF Same, Unwritten
  <1>3. QED  BY <1>2, SameGoes

LEMMA RenameEntryGoes ==
  ASSUME NEW s, Going(s), NEW dir \in FileNumbers, NEW old, NEW new, Len(new) \in Nat
  PROVE  Going(rename_entry(s, dir, old, new).s)
  <1> DEFINE inode == s.disk[Inode(dir)]
             b == Buffer(s.disk, inode, Whole(inode))
             all == Offsets(b, inode.size)
             end == IF all = <<>> THEN 0 ELSE Last(all) + b[Last(all) + 1].size
             compared == IF end < inode.size THEN Append(all, end) ELSE all
             hits == SelectSeq(compared, LAMBDA p : Matches(b, p, old, At(b, p + 1).len))
             o == Head(hits)
             unit == At(b, o + 1)
             renamed == [i \in DOMAIN b |->
                           CASE i = o + 1 -> [b[i] EXCEPT !.len = Len(new)]
                             [] i - o - 1 \in 1..Len(new) -> Letter(new[i - o - 1])
                             [] OTHER -> b[i]]
             whole == Written(s, dir, inode, inode.size, renamed)
             short == [whole EXCEPT !.bad = @ \/ unit.len > Len(new)]
             same == Written(s, dir, inode, inode.size, b)
             more == create_entry(same.s, unit.file, unit.used, dir, new)
             r == rename_entry(s, dir, old, new)
  <1>1. r = CASE hits = <<>> -> Unwritten(s, end < inode.size)
              [] hits # <<>> /\ unit.len >= Len(new) -> short
              [] OTHER -> [more EXCEPT !.bad = @ \/ same.bad]
    BY DEF rename_entry
  <1> HIDE DEF r, hits, all, end, compared, unit, renamed, b, more
  <1>2. r.s = s \/ r = short \/ r = [more EXCEPT !.bad = @ \/ same.bad]
    BY <1>1 DEF Unwritten
  <1>3. CASE r.s = s \/ r = short
    <2>1. CASE r = short
      <3>1. short.s = whole.s
        <4> HIDE DEF inode
        <4>1. QED  BY DEF Written
      <3> HIDE DEF short
      <3>2. r.s = Written(s, dir, s.disk[Inode(dir)], s.disk[Inode(dir)].size, renamed).s
        BY <2>1, <3>1
      <3>3. Same(s, dir, r)
        BY <3>2 DEF Same
      <3>4. QED  BY <3>3, SameGoes DEF r
    <2>2. CASE r.s = s
      <3>1. Same(s, dir, r)
        BY <2>2 DEF Same
      <3>2. QED  BY <3>1, SameGoes DEF r
    <2>3. QED  BY <1>3, <2>1, <2>2
  <1>4. CASE r = [more EXCEPT !.bad = @ \/ same.bad]
    <2>1. Same(s, dir, same)
      BY DEF Same
    <2>2. Going(same.s)
      BY <2>1, SameGoes
    <2> HIDE DEF same
    <2>3. Going(more.s)
      BY <2>2, CreateEntryGoes DEF more
    <2>4. r.s = more.s
      BY <1>4 DEF more, create_entry, EnterAt, Unwritten, Written
    <2>5. QED  BY <2>3, <2>4 DEF r
  <1>5. QED  BY <1>2, <1>3, <1>4

-----------------------------------------------------------------------------
(* The inductive invariant: from the disk, through the sectors that are    *)
(* still to be written, each disk on the way is one to start from.         *)
Covered == \E e : Reaches(disk, todo, e) /\ info = e[Info]

CrashInv ==
    /\ IsLog(todo) /\ Covered
    /\ \A c \in copied : c.file \in FileNumbers
    /\ \A t \in named \cup pending : t.dir \in FileNumbers

LEMMA NowGoes == ASSUME CrashInv, Idle PROVE Going(Now)
  <1>1. todo = <<>>
    BY DEF Idle
  <1>2. PICK e : Reaches(disk, todo, e) /\ info = e[Info]
    BY DEF CrashInv, Covered
  <1>3. Restartable(disk) /\ e = disk
    BY <1>1, <1>2, ReachesEnds DEF CrashInv
  <1>4. Reaches(disk, <<>>, disk) /\ IsLog(<<>>)
    BY <1>3, ReachesNowhere
  <1>5. /\ Now = [disk |-> disk, info |-> info, log |-> <<>>]
        /\ Now.disk = disk /\ Now.info = info /\ Now.log = <<>>
    BY DEF Now
  <1>6. AllCells(disk) \subseteq disk[CBmp]
    BY <1>3, AllCellsMarked DEF Restartable
  <1>7. disk[CBmp] \ Lost = AllCells(disk)
    BY <1>6 DEF Lost
  <1>8. Lost \subseteq disk[CBmp] /\ Lost \cap AllCells(disk) = {}
    BY DEF Lost
  <1>9. Cardinality(disk[CBmp] \ Lost) <= info.clusters
    BY <1>2, <1>3, <1>7 DEF Restartable
  <1>10. Reckoned(Now)
    BY <1>5, <1>8, <1>9 DEF Reckoned
  <1>11. QED  BY <1>2, <1>3, <1>4, <1>5, <1>10 DEF Going, Passes

(* An operation that goes through disks to start from is begun.            *)
LEMMA GoingBegun ==
  ASSUME NEW s, Going(s), Begin(s)
  PROVE  IsLog(todo)' /\ Covered'
  <1>1. info' = s.info /\ todo' = s.log /\ disk' = disk
    BY DEF Begin
  <1>2. IsLog(s.log) /\ Reaches(disk, s.log, s.disk) /\ s.info = s.disk[Info]
    BY DEF Going, Passes
  <1>3. QED  BY <1>1, <1>2 DEF Covered

LEMMA RootIsFile == Root \in FileNumbers
  BY AtufsAssumption DEF Root, FileNumbers

LEMMA CopyStep ==
  ASSUME CrashInv, NEW path \in Paths, NEW size \in Lengths, Copy(path, size)
  PROVE  CrashInv'
  <1> DEFINE stamp == Stamp(ops)
             c == create(Now, size, stamp)
             s == [c.s EXCEPT !.info = c.s.disk[Info]]
             dir == Resolve(s.disk, path).dir
             name == Last(path)
             entry == [dir |-> dir, name |-> name, file |-> c.file]
             contents == [file |-> c.file, size |-> size, stamp |-> stamp]
             e == create_entry(s, c.file, TRUE, dir, name)
  <1>1. /\ Idle /\ dir \in Empty /\ Start(e, dir)
        /\ pending' = IF e.s = s THEN {} ELSE {entry}
        /\ copied' = IF c.made THEN Replaced(contents, c.short) ELSE copied
        /\ named' = named
    BY DEF Copy
  <1>2. size \in Nat /\ Len(name) \in Nat
    <2>1. path \in Seq(Seq(Nat \ {0})) /\ path # <<>>
      BY DirAssumption
    <2>2. name \in Seq(Nat \ {0})
      BY <2>1 DEF Last
    <2>3. QED  BY <2>2, DirAssumption
  <1> HIDE DEF stamp
  <1>3. Going(c.s) /\ (c.made => c.file \in FileNumbers)
    BY <1>1, <1>2, NowGoes, CreateGoes
  <1>4. dir \in FileNumbers
    <2> HIDE DEF dir
    <2>1. QED  BY <1>1, RootIsFile DEF Empty, CrashInv
  <1> HIDE DEF c, name, dir
  <1>5. s = c.s
    BY <1>3 DEF Going, Passes
  <1>6. Going(e.s)
    <2>1. Going(s)
      BY <1>3, <1>5
    <2> HIDE DEF s
    <2>2. QED  BY <1>2, <1>4, <2>1, CreateEntryGoes
  <1> HIDE DEF e
  <1>7. IsLog(todo)' /\ Covered'
    BY <1>1, <1>6, GoingBegun DEF Start
  <1>8. \A x \in copied' : x.file \in FileNumbers
    <2>1. CASE c.made
      <3>1. copied' \subseteq copied \cup {contents}
        BY <1>1, <2>1 DEF Replaced
      <3>2. contents.file \in FileNumbers
        BY <1>3, <2>1
      <3> HIDE DEF contents
      <3>3. QED  BY <3>1, <3>2 DEF CrashInv
    <2>2. CASE ~c.made
      BY <1>1, <2>2 DEF CrashInv
    <2>3. QED  BY <2>1, <2>2
  <1>9. \A t \in named' \cup pending' : t.dir \in FileNumbers
    <2>1. entry.dir = dir
      OBVIOUS
    <2> HIDE DEF entry
    <2>2. QED  BY <1>1, <1>4, <2>1 DEF CrashInv
  <1>10. QED  BY <1>7, <1>8, <1>9 DEF CrashInv

(* An entry is removed or renamed.                                         *)
LEMMA EntryStep ==
  ASSUME CrashInv, NEW s, Going(s), Begin(s), UNCHANGED <<copied, pending>>, named' \subseteq named
  PROVE  CrashInv'
  <1>1. IsLog(todo)' /\ Covered'
    BY GoingBegun
  <1>2. QED  BY <1>1 DEF CrashInv

LEMMA DirectoriesAreFiles == ASSUME CrashInv PROVE Directories \subseteq FileNumbers
  BY RootIsFile DEF Directories, CrashInv

LEMMA DeleteEntryStep ==
  ASSUME CrashInv, NEW dir \in Directories, NEW name \in Names, DeleteEntry(dir, name)
  PROVE  CrashInv'
  <1>1. PICK r \in delete_entry(Now, dir, name) : Start(r, dir)
    BY DEF DeleteEntry
  <1>2. Idle /\ named' \subseteq named /\ UNCHANGED <<copied, pending>>
    BY DEF DeleteEntry
  <1>3. Going(r.s)
    BY <1>2, NowGoes, DirectoriesAreFiles, DeleteEntryGoes
  <1>4. QED  BY <1>1, <1>2, <1>3, EntryStep DEF Start

LEMMA RenameEntryStep ==
  ASSUME CrashInv, NEW dir \in Directories, NEW old \in Names, NEW new \in Names,
         RenameEntry(dir, old, new)
  PROVE  CrashInv'
  <1> DEFINE r == rename_entry(Now, dir, old, new)
  <1>1. Idle /\ Start(r, dir) /\ named' \subseteq named /\ UNCHANGED <<copied, pending>>
    BY DEF RenameEntry
  <1>2. Len(new) \in Nat
    <2>1. PICK p \in Paths : new = Last(p)
      BY DEF Names
    <2>2. p \in Seq(Seq(Nat \ {0})) /\ p # <<>>
      BY DirAssumption
    <2>3. Last(p) \in Seq(Nat \ {0})
      BY <2>2 DEF Last
    <2>4. QED  BY <2>1, <2>3
  <1>3. Going(r.s)
    BY <1>1, <1>2, NowGoes, DirectoriesAreFiles, RenameEntryGoes
  <1> HIDE DEF r
  <1>4. QED  BY <1>1, <1>3, EntryStep DEF Start

LEMMA DirFlushStep == ASSUME CrashInv, Flush PROVE CrashInv'
  <1>1. /\ todo # <<>> /\ todo' = Tail(todo) /\ info' = info /\ copied' = copied
        /\ disk' = [disk EXCEPT ![Head(todo).at] = Head(todo).is]
        /\ named' \cup pending' \subseteq named \cup pending
    BY DEF Flush, FlushSector, Idle
  <1>2. PICK e : Reaches(disk, todo, e) /\ info = e[Info]
    BY DEF CrashInv, Covered
  <1>3. IsLog(todo) /\ IsLog(todo') /\ Reaches(disk', todo', e)
    BY <1>1, <1>2, ReachesFlush DEF CrashInv
  <1>4. IsLog(todo)' /\ Covered'
    BY <1>1, <1>2, <1>3 DEF Covered
  <1>5. QED  BY <1>1, <1>4 DEF CrashInv

LEMMA CrashStep == ASSUME CrashInv, Crash PROVE CrashInv'
  <1>1. /\ todo' = <<>> /\ info' = disk[Info] /\ disk' = disk
        /\ copied' \subseteq copied /\ named' = named /\ pending' = {}
    BY DEF Crash
  <1>2. Restartable(disk)
    BY ReachesEnds DEF CrashInv, Covered
  <1>3. Reaches(disk, <<>>, disk) /\ IsLog(<<>>)
    BY <1>2, ReachesNowhere
  <1>4. IsLog(todo)' /\ Covered'
    BY <1>1, <1>3 DEF Covered
  <1>5. QED  BY <1>1, <1>4 DEF CrashInv

(* The volume that mkatufs makes.                                          *)
LEMMA NewIsRestartable == Restartable(NewVolume)
  <1> DEFINE d == NewVolume
  <1>1. /\ Info[1] # "inode" /\ FBmp[1] # "inode" /\ CBmp[1] # "inode"
        /\ \A f \in FileNumbers : Inode(f)[1] = "inode"
    BY DEF Info, FBmp, CBmp, Inode
  <1>2. d[Info] = [files |-> 0, clusters |-> 0]
    BY <1>1, AddressesApart DEF NewVolume
  <1>3. d[CBmp] = {}
    BY <1>1, AddressesApart DEF NewVolume
  <1>4. \A f \in FileNumbers : d[Inode(f)] = NoInode
    BY <1>1, AddressesApart DEF NewVolume
  <1>5. IsDisk(d)
    BY DEF NewVolume, IsDisk
  <1> HIDE DEF d
  <1>6. NoInode.size = 0 /\ NoInode.ext = NoExtents
    BY DEF NoInode
  <1>7. Sized(NoInode)
    BY <1>6, NoneSized
  <1>8. \A f \in FileNumbers : Others(d, f) = {}
    BY <1>4, <1>6, NothingHeld DEF Others, CellsHeld
  <1>9. Owned(d)
    BY <1>3, <1>4, <1>6, <1>8, NoneHeld DEF Owned
  <1>10. Cardinality(AllCells(d)) <= d[Info].clusters
    <2>1. AllCells(d) = {}
      BY <1>3, <1>9, AllCellsMarked
    <2>2. QED  BY <1>2, <2>1, FS_EmptySet
  <1>11. Restartable(d)
    BY <1>2, <1>3, <1>4, <1>5, <1>7, <1>9, <1>10 DEF Restartable, Counts
  <1>12. QED  BY <1>11 DEF d

LEMMA InitCrashInv == ASSUME DirInit PROVE CrashInv
  <1>1. /\ disk = NewVolume /\ info = disk[Info] /\ todo = <<>>
        /\ named = {} /\ pending = {} /\ copied = {}
    BY DEF DirInit, DiskInit
  <1>2. Reaches(disk, <<>>, disk) /\ IsLog(<<>>)
    BY <1>1, NewIsRestartable, ReachesNowhere
  <1>3. QED  BY <1>1, <1>2 DEF CrashInv, Covered

(* The inductive invariant: the machine may stop and start again between   *)
(* any two sectors, and the operation it has begun ends on such a disk too. *)
THEOREM EveryDiskRestarts == DirSpec => []CrashInv
  <1>1. DirInit => CrashInv
    BY InitCrashInv
  <1>2. CrashInv /\ [DirNext]_dirVars => CrashInv'
    <2> SUFFICES ASSUME CrashInv, [DirNext]_dirVars PROVE CrashInv'
      OBVIOUS
    <2>1. ASSUME NEW path \in Paths, NEW size \in Lengths, Copy(path, size) PROVE CrashInv'
      BY <2>1, CopyStep
    <2>2. ASSUME NEW dir \in Directories, NEW name \in Names, DeleteEntry(dir, name)
          PROVE  CrashInv'
      BY <2>2, DeleteEntryStep
    <2>3. ASSUME NEW dir \in Directories, NEW old \in Names, NEW new \in Names,
                 RenameEntry(dir, old, new)
          PROVE  CrashInv'
      BY <2>3, RenameEntryStep
    <2>4. CASE Flush
      BY <2>4, DirFlushStep
    <2>5. CASE Crash
      BY <2>5, CrashStep
    <2>6. CASE UNCHANGED dirVars
      BY <2>6 DEF dirVars, diskVars, dirHistory, CrashInv, Covered
    <2>7. QED  BY <2>1, <2>2, <2>3, <2>4, <2>5, <2>6 DEF DirNext
  <1>3. QED  BY <1>1, <1>2, PTL DEF DirSpec

LEMMA ReferencedCells == Referenced = AllCells(disk)
  <1>1. \A c \in Referenced : c \in AllCells(disk)
    <2> SUFFICES ASSUME NEW c \in Referenced PROVE c \in AllCells(disk)
      OBVIOUS
    <2>1. PICK x \in Slotted : c \in CellsOf(x)
      BY DEF Referenced
    <2>2. x[1] \in FileNumbers /\ x[2] \in 1..Extents
      BY DEF Slotted, FileNumbers
    <2>3. c \in CellsHeld(disk, x[1])
      BY <2>1, <2>2 DEF CellsOf, CellsHeld, CellsFrom
    <2>4. QED  BY <2>2, <2>3 DEF AllCells
  <1>2. \A c \in AllCells(disk) : c \in Referenced
    <2> SUFFICES ASSUME NEW c \in AllCells(disk) PROVE c \in Referenced
      OBVIOUS
    <2>1. PICK f \in FileNumbers : c \in CellsHeld(disk, f)
      BY DEF AllCells
    <2>2. PICK j \in 1..Extents : c \in Cells(disk[Inode(f)].ext[j])
      BY <2>1 DEF CellsHeld, CellsFrom
    <2> DEFINE x == <<f, j>>
    <2>3. x \in Slotted /\ x[1] = f /\ x[2] = j
      BY DEF Slotted, FileNumbers
    <2> HIDE DEF x
    <2>4. c \in CellsOf(x)
      BY <2>2, <2>3 DEF CellsOf
    <2>5. QED  BY <2>3, <2>4 DEF Referenced
  <1>3. QED  BY <1>1, <1>2

(* At any moment the machine may stop at, between any two sectors that     *)
(* cpatufs or an operation on a directory writes, no cluster is in two     *)
(* extents, each that is in one is marked, and no more are in extents than *)
(* are counted.                                                            *)
THEOREM CrashesAreSafe == DirSpec => []CrashSafe
  <1>1. CrashInv => CrashSafe
    <2> SUFFICES ASSUME CrashInv PROVE CrashSafe
      OBVIOUS
    <2>1. Restartable(disk)
      BY ReachesEnds DEF CrashInv, Covered
    <2>2. Referenced = AllCells(disk)
      BY ReferencedCells
    <2>3. QED  BY <2>1, <2>2, OwnedApart DEF CrashSafe, Restartable
  <1>2. QED  BY <1>1, EveryDiskRestarts, PTL

-----------------------------------------------------------------------------
(* What the directories on a disk name. A unit of a directory is one of    *)
(* the files F; so are those of the buffers that sectors hold.             *)
Unit(F) == [file : F, size : Nat, used : BOOLEAN, len : Nat, ch : Nat]
UnitsIn(b, F) == \A i \in DOMAIN b : b[i] \in Unit(F)
Holds(a, x, F) ==
    /\ \A c \in ClusterNumbers : a = Data(c) => UnitsIn(x[1], F)
    /\ \A f \in FileNumbers : a = Inode(f) => UnitsIn(x.inline, F)
NamesIn(d, F) == \A a \in Addresses : Holds(a, d[a], F)

(* From s to t sectors with addresses in A were written, and what they     *)
(* hold names files in F only.                                             *)
Sends(s, t, A, F) ==
    /\ Len(s.log) \in Nat /\ Len(t.log) \in Nat /\ Len(s.log) <= Len(t.log)
    /\ \A k \in 1..Len(s.log) : t.log[k] = s.log[k]
    /\ \A k \in (Len(s.log) + 1)..Len(t.log) :
          t.log[k].at \in A /\ Holds(t.log[k].at, t.log[k].is, F)
    /\ \A a \in Addresses : t.disk[a] = s.disk[a] \/ (a \in A /\ Holds(a, t.disk[a], F))

Logged(s) == IsLog(s.log) /\ IsDisk(s.disk)

LEMMA GoingLogged ==
  ASSUME NEW s, Going(s)
  PROVE  Logged(s) /\ Len(s.log) \in Nat
  BY PassesAt DEF Going, Passes, Restartable, Logged, IsLog

LEMMA NothingSent ==
  ASSUME NEW s, NEW t, IsLog(s.log), t.log = s.log, t.disk = s.disk, NEW A, NEW F
  PROVE  Sends(s, t, A, F)
  <1>1. Len(s.log) \in Nat
    BY DEF IsLog
  <1>2. \A k \in (Len(s.log) + 1)..Len(s.log) : FALSE
    BY <1>1
  <1>3. QED  BY <1>1, <1>2 DEF Sends

LEMMA SendsOn ==
  ASSUME NEW s, NEW t, NEW u, NEW A, NEW F, Sends(s, t, A, F), Sends(t, u, A, F)
  PROVE  Sends(s, u, A, F)
  <1>1. /\ Len(s.log) \in Nat /\ Len(t.log) \in Nat /\ Len(u.log) \in Nat
        /\ Len(s.log) <= Len(t.log) /\ Len(t.log) <= Len(u.log)
    BY DEF Sends
  <1>2. \A k \in 1..Len(s.log) : u.log[k] = s.log[k]
    BY <1>1 DEF Sends
  <1>3. ASSUME NEW k \in (Len(s.log) + 1)..Len(u.log)
        PROVE  u.log[k].at \in A /\ Holds(u.log[k].at, u.log[k].is, F)
    <2>1. CASE k <= Len(t.log)
      <3>1. k \in 1..Len(t.log) /\ k \in (Len(s.log) + 1)..Len(t.log)
        BY <1>1, <2>1
      <3>2. QED  BY <3>1 DEF Sends
    <2>2. CASE ~(k <= Len(t.log))
      <3>1. k \in (Len(t.log) + 1)..Len(u.log)
        BY <1>1, <2>2
      <3>2. QED  BY <3>1 DEF Sends
    <2>3. QED  BY <2>1, <2>2
  <1>4. \A a \in Addresses : u.disk[a] = s.disk[a] \/ (a \in A /\ Holds(a, u.disk[a], F))
    BY DEF Sends
  <1>5. QED  BY <1>1, <1>2, <1>3, <1>4 DEF Sends

LEMMA UnitsMore ==
  ASSUME NEW F, NEW G, F \subseteq G
  PROVE  /\ \A b : UnitsIn(b, F) => UnitsIn(b, G)
         /\ \A a, x : Holds(a, x, F) => Holds(a, x, G)
  <1>1. Unit(F) \subseteq Unit(G)
    BY DEF Unit
  <1>2. \A b : UnitsIn(b, F) => UnitsIn(b, G)
    BY <1>1 DEF UnitsIn
  <1>3. QED  BY <1>2 DEF Holds

LEMMA SendsMore ==
  ASSUME NEW s, NEW t, NEW A, NEW B, NEW F, NEW G, Sends(s, t, A, F), A \subseteq B, F \subseteq G
  PROVE  Sends(s, t, B, G)
  <1>1. \A a, x : Holds(a, x, F) => Holds(a, x, G)
    BY UnitsMore
  <1>2. QED  BY <1>1 DEF Sends

(* One sector is written.                                                  *)
OneSent(s, t, at, is, A, F) ==
    /\ Sends(s, t, A, F) /\ Logged(t)
    /\ Len(t.log) = Len(s.log) + 1 /\ t.log[Len(t.log)].at = at
    /\ \A a \in Addresses : t.disk[a] = IF a = at THEN is ELSE s.disk[a]

LEMMA WriteSends ==
  ASSUME NEW s, Logged(s), NEW A, NEW F, NEW at \in A \cap Addresses, NEW is, Holds(at, is, F)
  PROVE  OneSent(s, Write(s, at, is), at, is, A, F)
  <1> DEFINE t == Write(s, at, is)
             r == [at |-> at, is |-> is]
             log == s.log
             more == Append(log, r)
             n == Len(log)
             u == [s.disk EXCEPT ![at] = is]
  <1>1. PICK S : log \in Seq(S)
    BY DEF Logged, IsLog
  <1>2. r.at = at /\ r.is = is
    OBVIOUS
  <1>3. t.log = more /\ t.disk = u
    BY DEF Write
  <1>4. IsDisk(u) /\ \A a \in Addresses : u[a] = IF a = at THEN is ELSE s.disk[a]
    BY SectorChanged DEF Logged
  <1> HIDE DEF r, t, u
  <1>5. log \in Seq(S \cup {r})
    BY <1>1
  <1>6. /\ more \in Seq(S \cup {r}) /\ n \in Nat /\ Len(more) = n + 1 /\ more[n + 1] = r
        /\ \A k \in 1..n : more[k] = log[k]
    BY <1>5
  <1> HIDE DEF more
  <1>7. \A k \in (n + 1)..Len(more) : k = n + 1
    BY <1>6
  <1>8. Sends(s, t, A, F)
    BY <1>2, <1>3, <1>4, <1>6, <1>7 DEF Sends
  <1>9. Logged(t)
    BY <1>3, <1>4, <1>6 DEF Logged, IsLog
  <1>10. OneSent(s, t, at, is, A, F)
    BY <1>2, <1>3, <1>4, <1>6, <1>8, <1>9 DEF OneSent
  <1>11. QED  BY <1>10 DEF t

(* A run of clusters is written from a buffer.                             *)
LEMMA DataSends ==
  ASSUME NEW s, Logged(s), NEW first \in Nat, NEW n \in Nat, Run(first, n) \subseteq ClusterNumbers,
         NEW stamp, NEW parts, NEW A, NEW F, \A c \in Run(first, n) : Data(c) \in A,
         UnitsIn(stamp, F)
  PROVE  Sends(s, WriteData(s, first, n, stamp, parts), A, F)
  <1> DEFINE part(c) == <<stamp, parts + c - first + 1>>
             r(k) == [at |-> Data(first + k - 1), is |-> part(first + k - 1)]
             T == {r(k) : k \in 1..n}
             more == [k \in 1..n |-> r(k)]
             log == s.log
             all == log \o more
             m == Len(log)
             u == [a \in DOMAIN s.disk |->
                      IF a[1] = "data" /\ a[2] \in Run(first, n) THEN part(a[2]) ELSE s.disk[a]]
             t == WriteData(s, first, n, stamp, parts)
  <1>1. t.log = all /\ t.disk = u
    BY DEF WriteData
  <1>2. more \in [1..n -> T] /\ \A k \in 1..n : more[k] = r(k)
    OBVIOUS
  <1>3. \A k \in 1..n : r(k).at = Data(first + k - 1) /\ r(k).is = part(first + k - 1)
    OBVIOUS
  <1>4. \A c : part(c)[1] = stamp
    OBVIOUS
  <1>5. DOMAIN s.disk = Addresses
    BY DEF Logged, IsDisk
  <1>6. ASSUME NEW c \in Run(first, n) PROVE Data(c) \in A /\ Holds(Data(c), part(c), F)
    <2>1. c \in ClusterNumbers
      OBVIOUS
    <2> HIDE DEF part
    <2>2. QED  BY <1>4, <2>1, AddressesApart DEF Holds
  <1>7. \A k \in 1..n : first + k - 1 \in Run(first, n)
    BY DEF Run
  <1>8. ASSUME NEW a \in Addresses
        PROVE  u[a] = s.disk[a] \/ (a \in A /\ Holds(a, u[a], F))
    <2>1. CASE a[1] = "data" /\ a[2] \in Run(first, n)
      <3>1. u[a] = part(a[2])
        BY <1>5, <2>1
      <3>2. a = Data(a[2])
        BY <2>1, AddressesApart, DataNames
      <3> HIDE DEF u, part
      <3>3. QED  BY <1>6, <2>1, <3>1, <3>2
    <2>2. CASE ~(a[1] = "data" /\ a[2] \in Run(first, n))
      <3>1. u[a] = s.disk[a]
        BY <1>5, <2>2
      <3>2. QED  BY <3>1
    <2>3. QED  BY <2>1, <2>2
  <1> HIDE DEF part, r, more, T, u, t
  <1>9. Joined(log, more, n, all)
    BY <1>2, LogsJoin, Zenon DEF Logged
  <1> HIDE DEF all
  <1>10. /\ m \in Nat /\ Len(all) = m + n
         /\ \A k \in 1..m : all[k] = log[k]
         /\ \A k \in 1..n : all[m + k] = r(k)
    BY <1>2, <1>9 DEF Joined
  <1>11. ASSUME NEW k \in (m + 1)..Len(all) PROVE all[k].at \in A /\ Holds(all[k].at, all[k].is, F)
    <2> DEFINE j == k - m
    <2>1. j \in 1..n /\ k = m + j
      BY <1>10
    <2> HIDE DEF j
    <2>2. all[k] = r(j)
      BY <1>10, <2>1
    <2>3. QED  BY <1>3, <1>6, <1>7, <2>1, <2>2
  <1>12. Len(all) \in Nat /\ m <= Len(all)
    BY <1>10
  <1>13. Sends(s, t, A, F)
    BY <1>1, <1>8, <1>10, <1>11, <1>12 DEF Sends
  <1>14. QED  BY <1>13 DEF t

(* No label but an inode holds a buffer.                                   *)
LEMMA LabelsHold ==
  ASSUME NEW x, NEW F
  PROVE  Holds(Info, x, F) /\ Holds(CBmp, x, F) /\ Holds(FBmp, x, F)
  BY AddressesApart DEF Holds

(* What an operation on file f writes, when other files have the clusters  *)
(* O.                                                                      *)
Area(O, f) == {Info, CBmp, Inode(f)} \cup {Data(c) : c \in ClusterNumbers \ O}

LEMMA MarkEarlySends ==
  ASSUME NEW s, Logged(s), NEW bits, NEW first \in Int, NEW last \in Int, first <= last,
         NEW A, CBmp \in A, NEW F
  PROVE  LET t == MarkEarly(s, bits, first, last)
         IN  Sends(s, t, A, F) /\ Logged(t)
  <1>0. first \in Int /\ last \in Int /\ first <= last
    OBVIOUS
  <1>1. PICK run : /\ run[first] = s
                   /\ \A k \in (first + 1)..last :
                         run[k] = Write(run[k - 1], CBmp, Through(s.disk[CBmp], bits, k))
                   /\ MarkEarly(s, bits, first, last) = run[last]
    BY ONLY <1>0, MarkEarlyRuns
  <1>2. CBmp \in A \cap Addresses
    BY AddressesApart
  <1> DEFINE T == {k \in first..last : Sends(s, run[k], A, F) /\ Logged(run[k])}
  <1>3. first \in T
    <2>1. Sends(s, s, A, F)
      BY NothingSent DEF Logged
    <2>2. QED  BY <1>1, <2>1
  <1>4. ASSUME NEW k \in first..(last - 1), k \in T PROVE k + 1 \in T
    <2> DEFINE is == Through(s.disk[CBmp], bits, k + 1)
               t == run[k]
               u == run[k + 1]
    <2>1. k + 1 \in (first + 1)..last /\ k + 1 \in first..last /\ (k + 1) - 1 = k
      OBVIOUS
    <2>2. u = Write(t, CBmp, is)
      BY <1>1, <2>1
    <2>3. Sends(s, t, A, F) /\ Logged(t)
      BY <1>4
    <2> HIDE DEF is, t, u
    <2>4. OneSent(t, u, CBmp, is, A, F)
      BY <1>2, <2>2, <2>3, WriteSends, LabelsHold
    <2>5. Sends(s, u, A, F) /\ Logged(u)
      BY <2>3, <2>4, SendsOn DEF OneSent
    <2>6. QED  BY <2>1, <2>5 DEF u
  <1>5. last \in T
    <2>1. Climbs(T, first, last)
      BY <1>3, <1>4 DEF Climbs
    <2> HIDE DEF T
    <2>2. first..last \subseteq T
      BY ONLY <1>0, <2>1, UpTo
    <2>3. QED  BY ONLY <1>0, <2>2
  <1>6. QED  BY <1>1, <1>5

LEMMA SetClustersSends ==
  ASSUME NEW s, Going(s), NEW n, NEW bits, NEW first \in Int, NEW last \in Int, first <= last,
         NEW O, NEW f, NEW F
  PROVE  Sends(s, SetClusters(s, n, bits, first, last), Area(O, f), F)
  <1> DEFINE r == [s EXCEPT !.info.clusters = n]
             t == MarkEarly(r, bits, first, last)
             u == Write(t, Info, t.info)
             v == Write(u, CBmp, bits)
             A == Area(O, f)
  <1>1. r.disk = s.disk /\ r.log = s.log
    BY DEF Going, Passes
  <1>2. Logged(s) /\ Info \in A \cap Addresses /\ CBmp \in A \cap Addresses
    BY GoingLogged, AddressesApart DEF Area
  <1> HIDE DEF r, A
  <1>3. Sends(s, r, A, F) /\ Logged(r)
    BY <1>1, <1>2, NothingSent DEF Logged
  <1>4. Sends(r, t, A, F) /\ Logged(t)
    BY <1>2, <1>3, MarkEarlySends
  <1> HIDE DEF t
  <1>5. OneSent(t, u, Info, t.info, A, F)
    BY <1>2, <1>4, WriteSends, LabelsHold
  <1> HIDE DEF u
  <1>6. OneSent(u, v, CBmp, bits, A, F)
    <2>1. Logged(u)
      BY <1>5 DEF OneSent
    <2>2. QED  BY <1>2, <2>1, WriteSends, LabelsHold
  <1> HIDE DEF v
  <1>7. Sends(s, v, A, F)
    <2>1. Sends(s, t, A, F)
      BY <1>3, <1>4, SendsOn
    <2>2. QED  BY <1>5, <1>6, <2>1, SendsOn DEF OneSent
  <1>8. v = SetClusters(s, n, bits, first, last)
    BY DEF SetClusters, v, u, t, r
  <1>9. QED  BY <1>7, <1>8 DEF A

LEMMA AlocateSends ==
  ASSUME NEW s, Going(s), NEW n \in Nat, NEW O, NEW f, NEW F
  PROVE  Sends(s, alocate_clusters(s, n).s, Area(O, f), F)
  <1> DEFINE e == FreeRun(s, n)
             m == s.info.clusters + e.many
             bits == mark_true(s.disk[CBmp], e.start, e.many)
             from == 0
             last == LastLooked(e, n)
  <1>1. alocate_clusters(s, n).s = SetClusters(s, m, bits, from, last)
    BY DEF alocate_clusters
  <1>2. e \in Extent
    BY FreeRunFree
  <1>3. from \in Int /\ last \in Int /\ from <= last
    BY <1>2, LookedSectors
  <1> HIDE DEF m, bits, from, last
  <1>4. QED  BY <1>1, <1>3, SetClustersSends

(* What Slot makes of the state, when the slot is of a file that grows.    *)
SlotDoes(w, i, stamp, x) ==
    LET a == alocate_clusters(w.s, w.left)
        e == w.ext[i]
    IN  \/ x.s = w.s
        \/ x.s = a.s
        \/ x.s = WriteData(a.s, a.e.start, a.e.many, stamp, w.parts)
        \/ x.s = WriteData(w.s, e.start, e.many, stamp, w.parts)

LEMMA SlotDone ==
  ASSUME NEW w, IsWork(w), w.left \in Nat, w.ext \in ExtentLists, NEW i \in 1..Extents,
         w.loop = "on" => w.ext[i].many <= w.left, NEW stamp
  PROVE  SlotDoes(w, i, stamp, Slot(w, i, stamp))
  <1> DEFINE e == w.ext[i]
             k == e.many
             a == alocate_clusters(w.s, w.left)
             again == Store(w, w.s, i, e, k, stamp)
             x == Slot(w, i, stamp)
             u == WriteData(w.s, e.start, k, stamp, w.parts)
  <1>1. e.many \in Nat
    BY DEF ExtentLists, Extent
  <1>2. CASE w.loop # "on"
    BY <1>2 DEF Slot, SlotDoes
  <1>3. CASE w.loop = "on" /\ w.left = 0
    <2>1. e.many = 0
      BY <1>1, <1>3
    <2>2. x = [w EXCEPT !.loop = "break"]
      BY <1>3, <2>1 DEF Slot
    <2>3. x.s = w.s
      BY <2>2 DEF IsWork
    <2> HIDE DEF x
    <2>4. QED  BY <2>3 DEF SlotDoes, x
  <1>4. CASE w.loop = "on" /\ w.left > 0 /\ e.many = 0
    <2> DEFINE y == Store(w, a.s, i, a.e, a.e.many, stamp)
               z == [w EXCEPT !.s = a.s, !.loop = "full"]
    <2>1. x = IF a.e.many = 0 THEN z ELSE y
      BY <1>1, <1>4 DEF Slot, StoreNew
    <2>2. z.s = a.s
      <3> HIDE DEF a
      <3>1. z = [s |-> a.s, ext |-> w.ext, left |-> w.left, parts |-> w.parts, loop |-> "full"]
        BY WorkChanged
      <3> HIDE DEF z
      <3>2. QED  BY <3>1
    <2>3. y.s = WriteData(a.s, a.e.start, a.e.many, stamp, w.parts)
      <3> HIDE DEF a
      <3>1. QED  BY StoreFields
    <2> HIDE DEF x, y, z
    <2>4. QED  BY <2>1, <2>2, <2>3 DEF SlotDoes, x
  <1>5. CASE w.loop = "on" /\ w.left > 0 /\ e.many > 0
    <2>1. again = [s |-> u, ext |-> [w.ext EXCEPT ![i] = [start |-> e.start, many |-> k]],
                   left |-> w.left - k, parts |-> w.parts + k, loop |-> w.loop]
      BY StoreFields
    <2>2. x = again \/ x = [again EXCEPT !.loop = "break"]
      BY <1>1, <1>5 DEF Slot
    <2> HIDE DEF again, x, u
    <2>3. x.s = u
      BY <2>1, <2>2
    <2>4. x.s = WriteData(w.s, e.start, e.many, stamp, w.parts)
      BY <2>3 DEF u
    <2>5. QED  BY <2>4 DEF SlotDoes, x
  <1>6. QED  BY <1>1, <1>2, <1>3, <1>4, <1>5

(* Clusters of the file are written.                                       *)
LEMMA OwnSent ==
  ASSUME NEW s, Going(s), NEW e \in Extent, NEW O, Cells(e) \subseteq ClusterNumbers \ O,
         NEW stamp, NEW parts, NEW f, NEW F, UnitsIn(stamp, F)
  PROVE  Sends(s, WriteData(s, e.start, e.many, stamp, parts), Area(O, f), F)
  <1> DEFINE first == e.start
             n == e.many
             A == Area(O, f)
  <1>1. first \in Nat /\ n \in Nat /\ Run(first, n) \subseteq ClusterNumbers
        /\ \A c \in Run(first, n) : Data(c) \in A
    BY DEF Extent, Cells, Area
  <1>2. Logged(s)
    BY GoingLogged
  <1> HIDE DEF first, n, A
  <1>3. Sends(s, WriteData(s, first, n, stamp, parts), A, F)
    BY <1>1, <1>2, DataSends
  <1>4. QED  BY <1>3 DEF first, n, A

LEMMA SlotSends ==
  ASSUME NEW s, NEW O, NEW n, NEW w, NEW i \in 1..Extents, Growing(s, O, n, w, i - 1),
         NEW stamp, NEW f, NEW F, UnitsIn(stamp, F)
  PROVE  Sends(w.s, Slot(w, i, stamp).s, Area(O, f), F)
  <1> DEFINE x == Slot(w, i, stamp)
             a == alocate_clusters(w.s, w.left)
             e == w.ext[i]
             A == Area(O, f)
  <1>1. /\ IsWork(w) /\ w.left \in Nat /\ w.ext \in ExtentLists /\ Going(w.s)
        /\ Held(w.s.disk[CBmp], w.ext, O)
    BY DEF Growing
  <1>2. SlotDoes(w, i, stamp, x)
    BY <1>1, SlotFits, SlotDone
  <1>3. /\ a.e \in Extent /\ Cells(a.e) \subseteq ClusterNumbers \ O
        /\ Going(a.s) /\ Sends(w.s, a.s, A, F)
    <2>1. a.e \in Extent /\ Cells(a.e) \subseteq ClusterNumbers \ w.s.disk[CBmp] /\ Going(a.s)
      BY <1>1, AlocateGoes
    <2>2. Sends(w.s, a.s, A, F)
      BY <1>1, AlocateSends
    <2> HIDE DEF a, A
    <2>3. QED  BY <1>1, <2>1, <2>2 DEF Held
  <1>4. e \in Extent /\ Cells(e) \subseteq ClusterNumbers \ O
    BY <1>1, HeldInside DEF ExtentLists, InVolume, Held
  <1>5. x.s \in {w.s, a.s, WriteData(a.s, a.e.start, a.e.many, stamp, w.parts),
                 WriteData(w.s, e.start, e.many, stamp, w.parts)}
    BY <1>2 DEF SlotDoes
  <1>6. Sends(w.s, w.s, A, F)
    BY <1>1, GoingLogged, NothingSent DEF Logged
  <1> HIDE DEF a, e, x, A
  <1>7. Sends(a.s, WriteData(a.s, a.e.start, a.e.many, stamp, w.parts), A, F)
    BY <1>3, OwnSent DEF A
  <1>8. Sends(w.s, WriteData(w.s, e.start, e.many, stamp, w.parts), A, F)
    BY <1>1, <1>4, OwnSent DEF A
  <1>9. Sends(w.s, WriteData(a.s, a.e.start, a.e.many, stamp, w.parts), A, F)
    BY <1>3, <1>7, SendsOn
  <1>10. Sends(w.s, x.s, A, F)
    BY <1>3, <1>5, <1>6, <1>8, <1>9
  <1>11. QED  BY <1>10 DEF x, A

LEMMA ResizeSends ==
  ASSUME NEW s, Going(s), NEW O, NEW n, NEW ext, NEW stamp, NEW run,
         GrowsBy(s, O, n, ext, stamp, run), NEW f, NEW F, UnitsIn(stamp, F)
  PROVE  Sends(s, run[Extents].s, Area(O, f), F)
  <1> DEFINE A == Area(O, f)
             T == {i \in 0..Extents : Sends(s, run[i].s, A, F)}
  <1>1. Extents \in Nat
    BY AtufsAssumption
  <1>2. 0 \in T
    <2>1. run[0].s = s
      BY DEF GrowsBy
    <2>2. Sends(s, s, A, F)
      BY GoingLogged, NothingSent DEF Logged
    <2>3. QED  BY <1>1, <2>1, <2>2
  <1>3. ASSUME NEW i \in 0..(Extents - 1), i \in T PROVE i + 1 \in T
    <2> DEFINE w == run[i]
               k == i + 1
    <2>1. k \in 1..Extents /\ k - 1 = i /\ k \in 0..Extents /\ i \in 0..Extents
      BY <1>1
    <2>2. run[k] = Slot(w, k, stamp)
      BY <2>1 DEF GrowsBy
    <2>3. Growing(s, O, n, w, k - 1)
      BY <2>1 DEF GrowsBy
    <2>4. Sends(s, w.s, A, F)
      BY <1>3
    <2> HIDE DEF w, k, A
    <2>5. Sends(w.s, run[k].s, A, F)
      BY <2>1, <2>2, <2>3, SlotSends DEF A
    <2>6. QED  BY <2>1, <2>4, <2>5, SendsOn DEF k
  <1>4. Extents \in T
    <2>1. Climbs(T, 0, Extents)
      BY <1>2, <1>3 DEF Climbs
    <2> HIDE DEF T
    <2>2. QED  BY <1>1, <2>1, UpTo
  <1>5. QED  BY <1>4

LEMMA RewriteSends ==
  ASSUME NEW s, Going(s), NEW O, NEW ext \in ExtentLists, Held(s.disk[CBmp], ext, O),
         NEW stamp, NEW f, NEW F, UnitsIn(stamp, F)
  PROVE  Sends(s, Rewrite(s, ext, stamp), Area(O, f), F)
  <1> DEFINE last == Leading(ext)
             A == Area(O, f)
  <1>1. last \in 0..Extents /\ Extents \in Nat /\ last \in Nat
    BY LeadingSlots, AtufsAssumption
  <1>2. PICK run : /\ run[0] = s
                   /\ \A i \in 1..last :
                        run[i] = WriteData(run[i - 1], ext[i].start, ext[i].many, stamp, 0)
                   /\ Rewrite(s, ext, stamp) = run[last]
    BY ONLY <1>1, RewriteRuns
  <1>3. ASSUME NEW j \in 1..last
        PROVE  ext[j] \in Extent /\ Cells(ext[j]) \subseteq ClusterNumbers \ O
    <2>1. j \in 1..Extents
      BY <1>1
    <2>2. QED  BY <2>1, HeldInside DEF ExtentLists, InVolume, Held
  <1> HIDE DEF last, A
  <1> DEFINE T == {i \in 0..last : Going(run[i]) /\ Sends(s, run[i], A, F)}
  <1>4. 0 \in T
    <2>1. Sends(s, s, A, F)
      BY GoingLogged, NothingSent DEF Logged
    <2>2. QED  BY <1>1, <1>2, <2>1
  <1>5. ASSUME NEW i \in 0..(last - 1), i \in T PROVE i + 1 \in T
    <2> DEFINE e == ext[i + 1]
               r == run[i]
               t == WriteData(r, e.start, e.many, stamp, 0)
    <2>1. i + 1 \in 1..last /\ (i + 1) - 1 = i /\ i + 1 \in 0..last
      BY <1>1
    <2>2. run[i + 1] = t
      BY <1>2, <2>1
    <2>3. e \in Extent /\ Cells(e) \subseteq ClusterNumbers \ O
      BY <1>3, <2>1
    <2>4. Going(r) /\ Sends(s, r, A, F)
      BY <1>5
    <2> HIDE DEF e, r
    <2>5. Sends(r, t, A, F)
      BY <2>3, <2>4, OwnSent DEF A
    <2>6. Going(t)
      <3>1. e.start \in Nat /\ e.many \in Nat /\ Run(e.start, e.many) \subseteq ClusterNumbers
        BY <2>3 DEF Extent, Cells
      <3>2. QED  BY <2>4, <3>1, DataGoes
    <2> HIDE DEF t
    <2>7. QED  BY <2>1, <2>2, <2>4, <2>5, <2>6, SendsOn
  <1>6. last \in T
    <2>1. Climbs(T, 0, last)
      BY <1>4, <1>5 DEF Climbs
    <2>2. last \in Int /\ last \in 0..last
      BY <1>1
    <2> HIDE DEF T
    <2>3. QED  BY <2>1, <2>2, UpTo
  <1>7. QED  BY <1>2, <1>6 DEF A

(* write_file, for a file that grows, or that stays as long as it is.      *)
LEMMA WriteFileSends ==
  ASSUME NEW s, Going(s), NEW f \in FileNumbers, NEW inode, Sized(inode),
         NEW O, O = Others(s.disk, f), Held(s.disk[CBmp], inode.ext, O),
         NEW size \in Nat, inode.size <= size, NEW stamp, NEW F, UnitsIn(stamp, F)
  PROVE  Sends(s, write_file(s, f, inode, size, stamp).s, Area(O, f), F)
  <1> DEFINE ext == IF inode.large THEN inode.ext ELSE NoExtents
             own == inode.ext
             large(e) == [large |-> TRUE, size |-> size, ext |-> e, inline |-> <<>>]
             small == [large |-> FALSE, size |-> size, ext |-> NoExtents, inline |-> stamp]
             r == write_file(s, f, inode, size, stamp)
             A == Area(O, f)
             at == Inode(f)
  <1>1. /\ ext = own /\ own \in ExtentLists /\ Compact(own) /\ InVolume(own)
        /\ inode.size \in Nat /\ (inode.size <= InlineMax => own = NoExtents)
        /\ Cardinality(CellsFrom(own, 1, Extents)) <= Need(inode.size)
    BY DEF Sized
  <1>2. InlineMax \in Nat /\ Extents \in Nat
    BY AtufsAssumption
  <1>3. Need(size) \in Nat /\ Cardinality(CellsFrom(own, 1, Extents)) <= Need(size)
    <2>1. 1 \in 1..(Extents + 1) /\ Extents \in 0..Extents
      BY <1>2
    <2>2. Cardinality(CellsFrom(own, 1, Extents)) \in Nat
      BY <1>1, <2>1, CellsFinite
    <2>3. Need(inode.size) \in Nat /\ Need(size) \in Nat /\ Need(inode.size) <= Need(size)
      BY <1>1, NeedGrows
    <2>4. QED  BY <1>1, <2>2, <2>3
  <1>4. at \in A \cap Addresses
    BY AddressesApart DEF Area
  <1>5. \A e : Holds(at, large(e), F)
    <2> SUFFICES ASSUME NEW e PROVE Holds(at, large(e), F)
      OBVIOUS
    <2>1. large(e).inline = <<>> /\ UnitsIn(<<>>, F)
      BY DEF UnitsIn
    <2> HIDE DEF large
    <2>2. QED  BY <2>1, AddressesApart DEF Holds
  <1>6. Holds(at, small, F)
    <2>1. small.inline = stamp
      OBVIOUS
    <2> HIDE DEF small
    <2>2. QED  BY <2>1, AddressesApart DEF Holds
  <1>7. Held(s.disk[CBmp], own, O) /\ Logged(s)
    BY GoingLogged
  <1> HIDE DEF ext, own, large, small, A, at
  <1>8. CASE size <= InlineMax
    <2>1. own = NoExtents
      BY <1>1, <1>2, <1>8
    <2>2. r.s = Write(s, at, small)
      <3>1. ~SameNeed(inode, size)
        BY <1>2, <1>8 DEF SameNeed
      <3>2. ClearSlots(s, ext, 1, Extents) = s
        BY <1>1, <2>1, NothingCleared
      <3>3. QED  BY <1>8, <3>1, <3>2 DEF write_file, ext, small, at
    <2> HIDE DEF r
    <2>3. OneSent(s, Write(s, at, small), at, small, A, F)
      BY <1>4, <1>6, <1>7, WriteSends
    <2>4. QED  BY <2>2, <2>3 DEF OneSent, r, A
  <1>9. CASE SameNeed(inode, size)
    <2> DEFINE t == Rewrite(s, own, stamp)
               n == large(own)
    <2>1. size > InlineMax /\ ~(size <= InlineMax)
      BY <1>2, <1>9 DEF SameNeed
    <2>2. r.s = Write(t, at, n)
      BY <1>1, <1>9, <2>1 DEF write_file, ext, large, at
    <2>3. Going(t) /\ Sends(s, t, A, F)
      BY <1>1, <1>7, RewriteGoes, RewriteSends DEF A
    <2> HIDE DEF t, r
    <2>4. Sends(t, Write(t, at, n), A, F)
      <3>1. Logged(t)
        BY <2>3, GoingLogged
      <3>2. Holds(at, n, F)
        BY <1>5
      <3> HIDE DEF n
      <3>3. OneSent(t, Write(t, at, n), at, n, A, F)
        BY <1>4, <3>1, <3>2, WriteSends
      <3>4. QED  BY <3>3 DEF OneSent
    <2>5. QED  BY <2>2, <2>3, <2>4, SendsOn DEF r, A
  <1>10. CASE size > InlineMax /\ ~SameNeed(inode, size)
    <2> DEFINE m == Need(size)
               w == Resize(s, own, m, stamp)
               n == large(w.ext)
    <2>1. ~(size <= InlineMax)
      BY <1>2, <1>10
    <2>2. r.s = IF w.loop = "full" THEN w.s ELSE Write(w.s, at, n)
      BY <1>1, <1>10, <2>1 DEF write_file, ext, large, at
    <2>3. m \in Nat /\ Cardinality(CellsFrom(own, 1, Extents)) <= m
      BY <1>3
    <2> HIDE DEF m
    <2>4. PICK run : GrowsBy(s, O, m, own, stamp, run)
      BY <1>1, <1>7, <2>3, ResizeSlots
    <2>5. Going(w.s) /\ Sends(s, w.s, A, F)
      <3>1. Extents \in 0..Extents
        BY <1>2
      <3>2. w = run[Extents] /\ Going(run[Extents].s)
        BY <2>4, <3>1 DEF GrowsBy, Growing
      <3> HIDE DEF w
      <3>3. Sends(s, run[Extents].s, A, F)
        BY <2>4, ResizeSends DEF A
      <3>4. QED  BY <3>2, <3>3
    <2>6. Sends(w.s, Write(w.s, at, n), A, F)
      <3>1. Logged(w.s)
        BY <2>5, GoingLogged
      <3>2. Holds(at, n, F)
        BY <1>5
      <3> HIDE DEF w, n
      <3>3. OneSent(w.s, Write(w.s, at, n), at, n, A, F)
        BY <1>4, <3>1, <3>2, WriteSends
      <3>4. QED  BY <3>3 DEF OneSent
    <2> HIDE DEF w, n, r
    <2>7. QED  BY <2>2, <2>5, <2>6, SendsOn DEF r, A
  <1>11. QED  BY <1>2, <1>8, <1>9, <1>10

-----------------------------------------------------------------------------
(* The bitmap of files is written first, the information sector after it.  *)
FilesSet(s, t, bits) ==
    /\ Len(t.log) = Len(s.log) + 2
    /\ t.log[Len(s.log) + 1].at = FBmp /\ t.log[Len(s.log) + 2].at = Info
    /\ t.disk[FBmp] = bits
    /\ \A a \in Addresses \ {FBmp, Info} : t.disk[a] = s.disk[a]

LEMMA SetFilesSends ==
  ASSUME NEW s, Going(s), NEW n, NEW bits, NEW F
  PROVE  LET t == SetFiles(s, n, bits)
         IN  FilesSet(s, t, bits) /\ Sends(s, t, {FBmp, Info}, F)
  <1> DEFINE t == [s EXCEPT !.info.files = n]
             u == Write(t, FBmp, bits)
             v == Write(u, Info, u.info)
             A == {FBmp, Info}
  <1>1. t.disk = s.disk /\ t.log = s.log
    BY DEF Going, Passes
  <1>2. /\ Logged(s) /\ Len(s.log) \in Nat /\ Info \in A \cap Addresses /\ FBmp \in A \cap Addresses
        /\ Info # FBmp
    BY GoingLogged, AddressesApart
  <1> HIDE DEF t
  <1>3. Sends(s, t, A, F) /\ Logged(t)
    BY <1>1, <1>2, NothingSent DEF Logged
  <1> HIDE DEF A
  <1>4. OneSent(t, u, FBmp, bits, A, F)
    BY <1>2, <1>3, WriteSends, LabelsHold
  <1> HIDE DEF u
  <1>5. OneSent(u, v, Info, u.info, A, F)
    <2>1. Logged(u)
      BY <1>4 DEF OneSent
    <2>2. QED  BY <1>2, <2>1, WriteSends, LabelsHold
  <1> HIDE DEF v
  <1>6. Sends(s, v, A, F)
    BY <1>3, <1>4, <1>5, SendsOn DEF OneSent
  <1>7. v.log[Len(s.log) + 1] = u.log[Len(s.log) + 1]
    <2>1. Len(s.log) + 1 \in 1..Len(u.log)
      BY <1>1, <1>2, <1>4 DEF OneSent
    <2>2. QED  BY <1>5, <2>1 DEF OneSent, Sends
  <1>8. FilesSet(s, v, bits)
    <2>1. Len(u.log) = Len(s.log) + 1 /\ Len(v.log) = Len(s.log) + 2
      BY <1>1, <1>2, <1>4, <1>5 DEF OneSent
    <2>2. v.disk[FBmp] = bits
      BY <1>2, <1>4, <1>5 DEF OneSent
    <2>3. \A a \in Addresses \ {FBmp, Info} : v.disk[a] = s.disk[a]
      BY <1>1, <1>4, <1>5 DEF OneSent
    <2>4. QED  BY <1>4, <1>5, <1>7, <2>1, <2>2, <2>3 DEF OneSent, FilesSet
  <1>9. v = SetFiles(s, n, bits)
    BY DEF SetFiles, v, u, t
  <1>10. QED  BY <1>6, <1>8, <1>9 DEF A

(* The file whose clusters an inode has reads as what was written to a     *)
(* file of no size, with n for its inode.                                  *)
LEMMA NewReads ==
  ASSUME NEW s, Going(s), NEW O, Held(s.disk[CBmp], NoExtents, O),
         NEW f \in FileNumbers, NEW size \in Nat, size > InlineMax, NEW stamp,
         NEW w, w = Resize(s, NoExtents, Need(size), stamp), w.left = 0,
         NEW n, n.ext = w.ext, n.large, n.size = size
  PROVE  ContentsOn(Write(w.s, Inode(f), n).disk, n) = Intended(size, stamp)
  <1> DEFINE m == Need(size)
             d == Write(w.s, Inode(f), n).disk
  <1>1. m \in Nat \ {0} /\ ~(size <= InlineMax) /\ Extents \in Nat
    BY NeedSome, AtufsAssumption
  <1>2. /\ NoExtents \in ExtentLists /\ Compact(NoExtents)
        /\ Cardinality(CellsFrom(NoExtents, 1, Extents)) = 0
    BY NothingHeld, FS_EmptySet DEF Compact
  <1> HIDE DEF m
  <1>3. PICK run : GrowsBy(s, O, m, NoExtents, stamp, run)
    <2>1. Cardinality(CellsFrom(NoExtents, 1, Extents)) <= m
      BY <1>1, <1>2
    <2>2. \E run : GrowsBy(s, O, m, NoExtents, stamp, run)
      BY ONLY Going(s), Held(s.disk[CBmp], NoExtents, O), <1>1, <1>2, <2>1, ResizeSlots
    <2>3. QED  BY <2>2
  <1>4. w = run[Extents]
    BY <1>3 DEF GrowsBy, m
  <1>5. \A i \in 0..Extents : Working(run[i])
    BY <1>3, GrowingWorks DEF GrowsBy
  <1>6. PICK k \in 0..Extents : \E off : Fills(run[Extents], Extents, k, off, m, stamp)
    <2>1. /\ run[0] = [s |-> s, ext |-> NoExtents, left |-> m, parts |-> 0, loop |-> "on"]
          /\ \A i \in 1..Extents : run[i] = Slot(run[i - 1], i, stamp)
      BY <1>3 DEF GrowsBy
    <2>2. \E k \in 0..Extents : \E off : Fills(run[Extents], Extents, k, off, m, stamp)
      BY ONLY <1>1, <1>5, <2>1, RunFills
    <2>3. QED  BY <2>2
  <1>7. PICK off : Fills(run[Extents], Extents, k, off, m, stamp)
    BY <1>6
  <1>8. Filled(w.s.disk, n.ext, k, off, stamp) /\ off[k] = m
    BY <1>4, <1>7 DEF Fills
  <1>9. /\ Compact(n.ext) /\ n.ext \in ExtentLists /\ Formed(w.s) /\ InVolume(n.ext)
    <2>1. Extents \in 0..Extents
      BY <1>1
    <2>2. Working(w) /\ Growing(s, O, m, w, Extents) /\ Shaped(w, Extents)
      BY <1>3, <1>4, <1>5, <2>1 DEF GrowsBy
    <2>3. Compact(w.ext)
      BY <1>1, <2>2 DEF Shaped, Compact, CompactFrom
    <2>4. QED  BY <2>2, <2>3 DEF Working
  <1>10. \A c \in ClusterNumbers : d[Data(c)] = w.s.disk[Data(c)]
    <2>1. Inode(f) \in Labels
      BY DEF Labels
    <2>2. QED  BY <1>9, <2>1, WritePlain DEF Plain
  <1> HIDE DEF d
  <1>11. Filled(d, n.ext, k, off, stamp)
    <2>1. \A j \in 1..k : Cells(n.ext[j]) \subseteq ClusterNumbers
      BY <1>1, <1>9 DEF InVolume
    <2>2. QED  BY <1>8, <1>10, <2>1 DEF Filled
  <1>12. ContentsOn(d, n) = PartsOf(Need(n.size), stamp)
    BY <1>1, <1>8, <1>9, <1>11, ReadFilled DEF m
  <1>13. Intended(size, stamp) = PartsOf(Need(size), stamp)
    BY <1>1 DEF Intended, PartsOf
  <1>14. QED  BY <1>12, <1>13 DEF d

LEMMA InodeLast ==
  ASSUME NEW s, Logged(s), NEW f \in FileNumbers, NEW n
  PROVE  LET t == Write(s, Inode(f), n)
         IN  /\ Len(t.log) \in Nat /\ Len(t.log) > Len(s.log) /\ t.log[Len(t.log)].at = Inode(f)
             /\ t.disk[Inode(f)] = n
  <1> DEFINE t == Write(s, Inode(f), n)
             r == [at |-> Inode(f), is |-> n]
             log == s.log
             more == Append(log, r)
             u == [s.disk EXCEPT ![Inode(f)] = n]
  <1>1. PICK S : log \in Seq(S)
    BY DEF Logged, IsLog
  <1>2. r.at = Inode(f)
    OBVIOUS
  <1>3. t.log = more /\ t.disk = u
    BY DEF Write
  <1>4. u[Inode(f)] = n
    <2>1. Inode(f) \in Addresses
      BY AddressesApart
    <2>2. DOMAIN s.disk = Addresses
      BY DEF Logged, IsDisk
    <2>3. QED  BY <2>1, <2>2
  <1> HIDE DEF r, t, u
  <1>5. log \in Seq(S \cup {r})
    BY <1>1
  <1>6. /\ more \in Seq(S \cup {r}) /\ Len(log) \in Nat /\ Len(more) = Len(log) + 1
        /\ more[Len(log) + 1] = r
    BY <1>5
  <1> HIDE DEF more
  <1>7. QED  BY <1>2, <1>3, <1>4, <1>6 DEF t

(* The file f is whole when its inode, which is written last, is.          *)
FileWritten(t, f, size, stamp) ==
    /\ Len(t.log) \in Nat \ {0} /\ t.log[Len(t.log)].at = Inode(f)
    /\ ContentsOn(t.disk, t.disk[Inode(f)]) = Intended(size, stamp)

(* write_file, for a file of no size.                                      *)
LEMMA FreshReads ==
  ASSUME NEW s, Going(s), NEW O, Held(s.disk[CBmp], NoExtents, O), NEW f \in FileNumbers,
         NEW fresh, fresh.size = 0, fresh.ext = NoExtents, NEW size \in Nat, NEW stamp
  PROVE  LET r == write_file(s, f, fresh, size, stamp)
         IN  ~r.short => FileWritten(r.s, f, size, stamp)
  <1> DEFINE ext == IF fresh.large THEN fresh.ext ELSE NoExtents
             large(e) == [large |-> TRUE, size |-> size, ext |-> e, inline |-> <<>>]
             small == [large |-> FALSE, size |-> size, ext |-> NoExtents, inline |-> stamp]
             r == write_file(s, f, fresh, size, stamp)
             at == Inode(f)
  <1> SUFFICES ASSUME ~r.short PROVE FileWritten(r.s, f, size, stamp)
    OBVIOUS
  <1>1. ext = NoExtents /\ InlineMax \in Nat
    BY AtufsAssumption
  <1>2. Logged(s) /\ Len(s.log) \in Nat
    BY GoingLogged
  <1>3. ~SameNeed(fresh, size)
    <2>1. ClusterBytes \in Nat \ {0}
      BY AtufsAssumption
    <2>2. (0 + ClusterBytes - 1) \div ClusterBytes = 0
      BY <2>1
    <2>3. Need(0) = 0
      BY <2>2 DEF Need
    <2>4. QED  BY <2>3, NeedSome DEF SameNeed
  <1>4. CASE size <= InlineMax
    <2> DEFINE t == Write(s, at, small)
    <2>1. ClearSlots(s, ext, 1, Extents) = s
      BY <1>1, NothingCleared
    <2>2. r.s = t
      BY <1>3, <1>4, <2>1 DEF write_file, ext, small, at
    <2>3. small.large = FALSE /\ small.inline = stamp
      OBVIOUS
    <2> HIDE DEF small, r
    <2>4. /\ Len(t.log) \in Nat /\ Len(t.log) > Len(s.log) /\ t.log[Len(t.log)].at = at
          /\ t.disk[at] = small
      BY <1>2, InodeLast
    <2> HIDE DEF t
    <2>5. ContentsOn(t.disk, small) = << <<stamp, 0>> >>
      BY <2>3 DEF ContentsOn
    <2>6. Intended(size, stamp) = << <<stamp, 0>> >>
      BY <1>4 DEF Intended
    <2>7. QED  BY <1>2, <2>2, <2>4, <2>5, <2>6 DEF FileWritten, at, r
  <1>5. CASE size > InlineMax
    <2> DEFINE m == Need(size)
               w == Resize(s, NoExtents, m, stamp)
               n == large(w.ext)
               t == Write(w.s, at, n)
    <2>1. ~(size <= InlineMax)
      BY <1>1, <1>5
    <2>2. r.s = (IF w.loop = "full" THEN w.s ELSE t) /\ r.short = (w.left > 0)
      BY <1>1, <1>3, <2>1 DEF write_file, ext, large, at
    <2>3. n.ext = w.ext /\ n.large /\ n.size = size
      OBVIOUS
    <2> HIDE DEF n, r
    <2>4. m \in Nat
      BY NeedSome
    <2>5. NoExtents \in ExtentLists /\ Compact(NoExtents)
          /\ Cardinality(CellsFrom(NoExtents, 1, Extents)) <= m
      BY <2>4, NothingHeld, FS_EmptySet
    <2> HIDE DEF m
    <2>6. PICK run : GrowsBy(s, O, m, NoExtents, stamp, run)
      <3>1. \E run : GrowsBy(s, O, m, NoExtents, stamp, run)
        BY ONLY Going(s), Held(s.disk[CBmp], NoExtents, O), <2>4, <2>5, ResizeSlots
      <3>2. QED  BY <3>1
    <2>7. w = run[Extents]
      BY <2>6 DEF GrowsBy
    <2> HIDE DEF w
    <2>8. Growing(s, O, m, w, Extents) /\ Shaped(w, Extents)
      <3>1. Extents \in 0..Extents
        BY AtufsAssumption
      <3>2. QED  BY <2>6, <2>7, <3>1 DEF GrowsBy
    <2>9. w.left \in Nat /\ Going(w.s)
      BY <2>8 DEF Growing
    <2>10. w.left = 0 /\ w.loop # "full"
      <3>1. ~(w.left > 0)
        BY <2>2, Zenon
      <3>2. QED  BY <2>8, <2>9, <3>1 DEF Shaped
    <2>11. r.s = t
      BY <2>2, <2>10
    <2>12. /\ Len(t.log) \in Nat /\ Len(t.log) > Len(w.s.log) /\ t.log[Len(t.log)].at = at
           /\ t.disk[at] = n
      BY <2>9, GoingLogged, InodeLast
    <2>13. ContentsOn(t.disk, n) = Intended(size, stamp)
      <3>1. w = Resize(s, NoExtents, Need(size), stamp)
        BY DEF w, m
      <3>2. QED  BY <1>5, <2>3, <2>10, <3>1, NewReads
    <2> HIDE DEF t
    <2>14. Len(w.s.log) \in Nat
      BY <2>9, GoingLogged
    <2>15. QED  BY <2>11, <2>12, <2>13, <2>14 DEF FileWritten, at, r
  <1>6. QED  BY <1>1, <1>4, <1>5

(* create_file: the bit of the file is written first, its inode last.      *)
Created(s, c, size, stamp, F) ==
    /\ c.file \in FileNumbers /\ BitOf(c.file) \notin s.disk[FBmp]
    /\ Going(c.s) /\ Len(s.log) \in Nat
    /\ Sends(s, c.s, {FBmp} \cup Area(Others(s.disk, c.file), c.file), F)
    /\ \A k \in (Len(s.log) + 2)..Len(c.s.log) : c.s.log[k].at # FBmp
    /\ c.s.disk[FBmp] = s.disk[FBmp] \cup {BitOf(c.file)}
    /\ ~c.short => FileWritten(c.s, c.file, size, stamp)

LEMMA CreateSends ==
  ASSUME NEW s, Going(s), FreeFiles(s) # {}, NEW size \in Nat, NEW stamp, NEW F,
         UnitsIn(stamp, F)
  PROVE  Created(s, create(s, size, stamp), size, stamp, F)
  <1> DEFINE c == create(s, size, stamp)
             fresh == [NoInode EXCEPT !.large = size > InlineMax]
             f == Min(FreeFiles(s))
             count == s.info.files + 1
             bits == s.disk[FBmp] \cup {BitOf(f)}
             t == SetFiles(s, count, bits)
             w == write_file(t, f, fresh, size, stamp)
             O == Others(t.disk, f)
             A == {FBmp} \cup Area(O, f)
  <1>1. f \in FileNumbers /\ BitOf(f) \notin s.disk[FBmp]
    <2>1. FreeFiles(s) \in SUBSET Nat
      BY AtufsAssumption DEF FreeFiles
    <2>2. f \in FreeFiles(s)
      BY <2>1, Smallest
    <2>3. QED  BY <2>2 DEF FreeFiles, FileNumbers
  <1>2. c.s = w.s /\ c.file = f /\ c.short = w.short
    BY DEF create, alocate_file
  <1>3. fresh.size = 0 /\ fresh.ext = NoExtents
    BY DEF NoInode
  <1>4. count \in Nat
    BY PassesAt DEF Going, Restartable, Counts
  <1>5. bits = s.disk[FBmp] \cup {BitOf(f)}
    OBVIOUS
  <1> HIDE DEF c, fresh, f, count, bits
  <1>6. Going(t) /\ SameInodes(s, t) /\ FilesSet(s, t, bits) /\ Sends(s, t, {FBmp, Info}, F)
    BY <1>4, SetFilesGoes, SetFilesSends
  <1> HIDE DEF t
  <1>7. /\ Held(t.disk[CBmp], fresh.ext, O \cup Lost) /\ Sized(fresh)
        /\ Held(t.disk[CBmp], NoExtents, O) /\ Held(t.disk[CBmp], fresh.ext, O)
    <2>1. Held(t.disk[CBmp], NoExtents, O \cup Lost)
      BY <1>1, <1>6, OthersMarked, NoneHeld
    <2> HIDE DEF O
    <2>2. QED  BY <1>3, <2>1, HeldLess, NoneSized
  <1>8. fresh.size \in Nat /\ fresh.size <= size
    BY <1>3
  <1>9. Going(w.s)
    BY <1>1, <1>6, <1>7, <1>8, WriteFileGoes
  <1>10. Sends(t, w.s, Area(O, f), F)
    BY <1>1, <1>6, <1>7, <1>8, WriteFileSends
  <1>11. ~w.short => FileWritten(w.s, f, size, stamp)
    BY <1>1, <1>3, <1>6, <1>7, FreshReads
  <1>12. O = Others(s.disk, f)
    BY <1>1, <1>6, OthersSame
  <1> HIDE DEF w, O
  <1>13. Sends(s, w.s, A, F)
    <2>1. {FBmp, Info} \subseteq A /\ Area(O, f) \subseteq A
      BY DEF Area
    <2>2. Sends(s, t, A, F) /\ Sends(t, w.s, A, F)
      BY <1>6, <1>10, <2>1, SendsMore
    <2>3. QED  BY <2>2, SendsOn
  <1>14. FBmp \in Addresses /\ FBmp # Info /\ FBmp \notin Area(O, f)
    BY <1>1, AddressesApart DEF Area
  <1>15. Len(s.log) \in Nat /\ Len(t.log) = Len(s.log) + 2
    BY <1>6, GoingLogged DEF FilesSet
  <1>16. ASSUME NEW k \in (Len(s.log) + 2)..Len(w.s.log) PROVE w.s.log[k].at # FBmp
    <2>1. CASE k = Len(s.log) + 2
      <3>1. k \in 1..Len(t.log)
        BY <1>15, <2>1
      <3>2. w.s.log[k] = t.log[k] /\ t.log[k].at = Info
        BY <1>6, <1>10, <2>1, <3>1 DEF Sends, FilesSet
      <3>3. QED  BY <1>14, <3>2
    <2>2. CASE k # Len(s.log) + 2
      <3>1. Len(w.s.log) \in Nat
        BY <1>10 DEF Sends
      <3>2. k \in (Len(t.log) + 1)..Len(w.s.log)
        BY <1>15, <2>2, <3>1
      <3>3. w.s.log[k].at \in Area(O, f)
        BY <1>10, <3>2 DEF Sends
      <3>4. QED  BY <1>14, <3>3
    <2>3. QED  BY <2>1, <2>2
  <1>17. w.s.disk[FBmp] = bits
    BY <1>6, <1>10, <1>14 DEF Sends, FilesSet
  <1>18. Created(s, c, size, stamp, F)
    BY <1>1, <1>2, <1>5, <1>9, <1>11, <1>12, <1>13, <1>15, <1>16, <1>17 DEF Created
  <1>19. QED  BY <1>18 DEF c

-----------------------------------------------------------------------------
LEMMA FlattenTypes ==
  ASSUME NEW S, NEW last \in Nat, NEW seqs \in [1..last -> Seq(S)]
  PROVE  FlattenSeq(seqs) \in Seq(S)
  <1>1. last = Len(seqs) /\ \A j \in 1..last : seqs[j] \in Seq(S)
    OBVIOUS
  <1>2. CASE last = 0
    <2>1. seqs = <<>>
      BY <1>2
    <2>2. FlattenSeq(seqs) = seqs
      BY <1>1, <1>2 DEF FlattenSeq
    <2>3. <<>> \in Seq(S)
      OBVIOUS
    <2> HIDE DEF FlattenSeq
    <2>4. QED  BY ONLY <2>1, <2>2, <2>3, Zenon
  <1>3. CASE last # 0
    <2>1. last \in Nat \ {0}
      BY <1>3
    <2>2. PICK run : /\ run[1] = seqs[1]
                     /\ \A i \in 2..last : run[i] = run[i - 1] \o seqs[i]
                     /\ FlattenSeq(seqs) = run[last]
      BY <1>1, <2>1, FlattenRuns
    <2> DEFINE T == {i \in 1..last : run[i] \in Seq(S)}
    <2>3. 1 \in T
      BY <1>1, <2>1, <2>2
    <2>4. ASSUME NEW i \in 1..(last - 1), i \in T PROVE i + 1 \in T
      <3>1. i + 1 \in 2..last /\ (i + 1) - 1 = i /\ i + 1 \in 1..last
        OBVIOUS
      <3>2. run[i + 1] = run[i] \o seqs[i + 1]
        BY <2>2, <3>1
      <3>3. run[i] \in Seq(S) /\ seqs[i + 1] \in Seq(S)
        BY <1>1, <2>4, <3>1
      <3>4. run[i + 1] \in Seq(S)
        BY <3>2, <3>3
      <3>5. QED  BY <3>1, <3>4
    <2>5. last \in T
      <3>1. Climbs(T, 1, last)
        BY <2>3, <2>4 DEF Climbs
      <3>2. last \in 1..last
        BY <2>1
      <3> HIDE DEF T
      <3>3. QED  BY <3>1, <3>2, UpTo
    <2>6. QED  BY <2>2, <2>5
  <1>4. QED  BY <1>2, <1>3

LEMMA FirstOfTypes ==
  ASSUME NEW S, NEW list \in Seq(S), NEW n \in Nat
  PROVE  FirstOf(list, n) \in Seq(S)
  <1> DEFINE m == Min({n, Len(list)})
  <1>1. m \in Nat /\ m <= Len(list)
    <2>1. {n, Len(list)} \in SUBSET Nat /\ {n, Len(list)} # {}
      OBVIOUS
    <2>2. QED  BY <2>1, Smallest
  <1> HIDE DEF m
  <1>2. SubSeq(list, 1, m) \in Seq(S)
    BY <1>1
  <1>3. QED  BY <1>2 DEF FirstOf, m

(* The lists of parts that are read from the extents of an inode.          *)
CellLists(d, ext) == [i \in 1..Leading(ext) |->
                         [k \in 1..ext[i].many |-> d[Data(ext[i].start + k - 1)]]]
OnDisk(d) == {d[Data(c)] : c \in ClusterNumbers}

LEMMA CellsRead ==
  ASSUME NEW d, NEW ext \in ExtentLists, InVolume(ext)
  PROVE  /\ CellLists(d, ext) \in [1..Leading(ext) -> Seq(OnDisk(d))]
         /\ Leading(ext) \in 0..Extents
         /\ \A i \in 1..Leading(ext) : \A k \in 1..ext[i].many :
               ext[i].start + k - 1 \in Cells(ext[i])
  <1> DEFINE S == OnDisk(d)
             last == Leading(ext)
             part(i, k) == d[Data(ext[i].start + k - 1)]
             cells(i) == [k \in 1..ext[i].many |-> part(i, k)]
  <1>1. last \in 0..Extents /\ Extents \in Nat
    BY LeadingSlots, AtufsAssumption
  <1> HIDE DEF last
  <1>2. ASSUME NEW i \in 1..last
        PROVE  /\ cells(i) \in Seq(S)
               /\ \A k \in 1..ext[i].many : ext[i].start + k - 1 \in Cells(ext[i])
    <2>1. i \in 1..Extents
      BY <1>1
    <2>2. ext[i].start \in Nat /\ ext[i].many \in Nat /\ Cells(ext[i]) \subseteq ClusterNumbers
      BY <2>1 DEF ExtentLists, Extent, InVolume
    <2>3. \A k \in 1..ext[i].many : ext[i].start + k - 1 \in Cells(ext[i])
      <3>1. \A k \in 1..ext[i].many :
               ext[i].start + k - 1 \in ext[i].start..(ext[i].start + ext[i].many - 1)
        BY <2>2
      <3>2. QED  BY <3>1 DEF Cells, Run
    <2>4. \A k \in 1..ext[i].many : part(i, k) \in S
      BY <2>2, <2>3 DEF OnDisk
    <2> HIDE DEF part, S
    <2>5. cells(i) \in Seq(S)
      BY <2>2, <2>4
    <2>6. QED  BY <2>3, <2>5
  <1> HIDE DEF S
  <1>3. CellLists(d, ext) = [i \in 1..last |-> cells(i)]
    BY DEF CellLists, last
  <1> HIDE DEF cells
  <1>4. QED  BY <1>1, <1>2, <1>3 DEF S, last

LEMMA ContentsListed ==
  ASSUME NEW d, NEW n, n.large
  PROVE  ContentsOn(d, n) = FirstOf(FlattenSeq(CellLists(d, n.ext)), Need(n.size))
  BY DEF ContentsOn, FirstOf, CellLists

(* What a file is read from are parts of its clusters.                     *)
LEMMA ContentsFrom ==
  ASSUME NEW d, NEW n, Sized(n), n.large
  PROVE  ContentsOn(d, n) \in Seq(OnDisk(d))
  <1> DEFINE lists == CellLists(d, n.ext)
             S == OnDisk(d)
  <1>1. n.ext \in ExtentLists /\ InVolume(n.ext) /\ Need(n.size) \in Nat
    BY NeedSome DEF Sized
  <1>2. lists \in [1..Leading(n.ext) -> Seq(S)] /\ Leading(n.ext) \in Nat
    BY <1>1, CellsRead, AtufsAssumption
  <1> HIDE DEF lists, S
  <1>3. FlattenSeq(lists) \in Seq(S)
    BY <1>2, FlattenTypes
  <1>4. FirstOf(FlattenSeq(lists), Need(n.size)) \in Seq(S)
    BY <1>1, <1>3, FirstOfTypes
  <1>5. QED  BY <1>4, ContentsListed DEF lists, S

(* The sectors of a file: its inode and the clusters that it names.        *)
Home(d, f) == {Inode(f)} \cup {Data(c) : c \in CellsHeld(d, f)}

(* A file reads the same on disks that agree on its sectors.               *)
LEMMA ReadsHome ==
  ASSUME NEW d, NEW e, NEW f \in FileNumbers, Sized(d[Inode(f)]),
         \A a \in Home(d, f) : e[a] = d[a]
  PROVE  /\ e[Inode(f)] = d[Inode(f)]
         /\ ContentsOn(e, e[Inode(f)]) = ContentsOn(d, d[Inode(f)])
  <1> DEFINE n == d[Inode(f)]
             ext == n.ext
  <1>1. e[Inode(f)] = n
    BY DEF Home
  <1>2. \A c \in CellsFrom(ext, 1, Extents) : e[Data(c)] = d[Data(c)]
    BY DEF Home, CellsHeld
  <1>3. ext \in ExtentLists /\ InVolume(ext)
    BY DEF Sized
  <1> HIDE DEF n
  <1>4. CASE n.large
    <2>1. /\ Leading(ext) \in 0..Extents /\ Extents \in Nat
          /\ \A i \in 1..Leading(ext) : \A k \in 1..ext[i].many :
                ext[i].start + k - 1 \in Cells(ext[i])
      BY <1>3, CellsRead, AtufsAssumption
    <2>2. ASSUME NEW i \in 1..Leading(ext), NEW k \in 1..ext[i].many
          PROVE  e[Data(ext[i].start + k - 1)] = d[Data(ext[i].start + k - 1)]
      <3>1. i \in 1..Extents
        BY <2>1
      <3>2. ext[i].start + k - 1 \in CellsFrom(ext, 1, Extents)
        BY <2>1, <3>1 DEF CellsFrom
      <3>3. QED  BY <1>2, <3>2
    <2>3. CellLists(e, ext) = CellLists(d, ext)
      BY <2>2 DEF CellLists
    <2>4. QED  BY <1>1, <1>4, <2>3, ContentsListed DEF n
  <1>5. CASE ~n.large
    BY <1>1, <1>5 DEF ContentsOn, n
  <1>6. QED  BY <1>4, <1>5

-----------------------------------------------------------------------------
(* The numbers of files that units of directories may hold.                *)
Numbers(F) == F \subseteq Nat /\ Root \in F

LEMMA AtUnits ==
  ASSUME NEW F, Numbers(F), NEW b, UnitsIn(b, F), NEW i
  PROVE  At(b, i) \in Unit(F) /\ Zero \in Unit(F)
  <1>1. Zero \in Unit(F)
    BY DEF Zero, Unit, Numbers, Root
  <1>2. QED  BY <1>1 DEF At, UnitsIn

LEMMA LetterUnit ==
  ASSUME NEW F, Numbers(F), NEW c \in Nat
  PROVE  Letter(c) \in Unit(F)
  BY DEF Letter, Zero, Unit, Numbers, Root

LEMMA PartIndex ==
  ASSUME NEW n \in Nat, NEW i \in 1..n
  PROVE  1 + (i - 1) \div ClusterBytes \in Nat \ {0}
  <1>1. ClusterBytes \in Nat \ {0} /\ i - 1 \in Nat
    BY AtufsAssumption
  <1>2. (i - 1) \div ClusterBytes \in Nat
    BY <1>1
  <1>3. QED  BY <1>2

(* A directory is read.                                                    *)
LEMMA BufferUnits ==
  ASSUME NEW d, Restartable(d), NEW F, Numbers(F), NamesIn(d, F), NEW dir \in FileNumbers,
         NEW n \in Nat
  PROVE  UnitsIn(Buffer(d, d[Inode(dir)], n), F)
  <1> DEFINE inode == d[Inode(dir)]
             parts == ContentsOn(d, inode)
             cell(p, i) == At(p[1], (p[2] - 1) * ClusterBytes + (1 + ((i - 1) % ClusterBytes)))
             part(i) == 1 + (i - 1) \div ClusterBytes
             large == [i \in 1..n |-> IF part(i) > Len(parts) THEN Zero ELSE cell(parts[part(i)], i)]
             small == [i \in 1..n |-> IF i > inode.size THEN Zero ELSE At(inode.inline, i)]
  <1>1. Buffer(d, inode, n) = IF inode.large THEN large ELSE small
    BY DEF Buffer
  <1>2. Sized(inode)
    BY DEF Restartable
  <1>3. \A b, i : UnitsIn(b, F) => At(b, i) \in Unit(F)
    BY AtUnits
  <1>4. Zero \in Unit(F)
    <2>1. UnitsIn(<<>>, F)
      BY DEF UnitsIn
    <2>2. QED  BY <2>1, AtUnits
  <1>5. UnitsIn(inode.inline, F)
    <2>1. Inode(dir) \in Addresses
      BY AddressesApart
    <2>2. QED  BY <2>1 DEF NamesIn, Holds
  <1>6. \A c \in ClusterNumbers : UnitsIn(d[Data(c)][1], F)
    <2>1. \A c \in ClusterNumbers : Data(c) \in Addresses
      BY AddressesApart
    <2>2. QED  BY <2>1 DEF NamesIn, Holds
  <1> HIDE DEF inode
  <1>7. CASE inode.large
    <2>1. parts \in Seq(OnDisk(d))
      BY <1>2, <1>7, ContentsFrom
    <2> HIDE DEF parts
    <2>2. ASSUME NEW i \in 1..n, ~(part(i) > Len(parts)) PROVE cell(parts[part(i)], i) \in Unit(F)
      <3> DEFINE k == part(i)
      <3>1. k \in Nat \ {0}
        BY PartIndex
      <3> HIDE DEF k
      <3>2. k \in 1..Len(parts)
        BY <2>1, <2>2, <3>1 DEF k
      <3>3. parts[k] \in OnDisk(d)
        BY <2>1, <3>2
      <3>4. UnitsIn(parts[k][1], F)
        BY <1>6, <3>3 DEF OnDisk
      <3>5. QED  BY <1>3, <3>4 DEF k
    <2> HIDE DEF cell, part
    <2>3. \A i \in 1..n : large[i] \in Unit(F)
      BY <1>4, <2>2
    <2>4. DOMAIN large = 1..n
      OBVIOUS
    <2> HIDE DEF large
    <2>5. UnitsIn(large, F)
      BY <2>3, <2>4 DEF UnitsIn
    <2>6. QED  BY <1>1, <1>7, <2>5 DEF inode
  <1>8. CASE ~inode.large
    <2>1. \A i \in 1..n : small[i] \in Unit(F)
      BY <1>3, <1>4, <1>5
    <2>2. DOMAIN small = 1..n
      OBVIOUS
    <2> HIDE DEF small
    <2>3. UnitsIn(small, F)
      BY <2>1, <2>2 DEF UnitsIn
    <2>4. QED  BY <1>1, <1>8, <2>3 DEF inode
  <1>9. QED  BY <1>7, <1>8

(* An entry is put into a buffer.                                          *)
LEMMA PutUnits ==
  ASSUME NEW F, Numbers(F), NEW b, UnitsIn(b, F), NEW o, NEW file \in F,
         NEW used \in BOOLEAN, NEW name \in Seq(Nat \ {0})
  PROVE  UnitsIn(Put(b, o, file, used, name), F)
  <1> DEFINE header == Header(file, used, Len(name))
             p == Put(b, o, file, used, name)
  <1>1. DOMAIN p = DOMAIN b
    BY DEF Put
  <1>2. header \in Unit(F)
    <2>1. Len(name) \in Nat /\ 1 + Len(name) \in Nat
      OBVIOUS
    <2>2. QED  BY <2>1 DEF Header, Unit
  <1> HIDE DEF header
  <1>3. ASSUME NEW old \in Unit(F) PROVE Reused(old, header) \in Unit(F)
    <2>1. old.size \in Nat
      BY DEF Unit
    <2>2. QED  BY <1>2, <2>1 DEF Reused, Unit
  <1>4. ASSUME NEW i \in DOMAIN b PROVE p[i] \in Unit(F)
    <2> DEFINE r == Reused(b[i], header)
    <2>1. \/ p[i] = r
          \/ i - o - 1 \in 1..Len(name) /\ p[i] = Letter(name[i - o - 1])
          \/ p[i] = b[i]
      <3>1. r = Reused(b[i], Header(file, used, Len(name)))
        BY DEF header
      <3> HIDE DEF r
      <3>2. QED  BY <3>1 DEF Put
    <2>2. b[i] \in Unit(F)
      BY DEF UnitsIn
    <2>3. r \in Unit(F)
      BY <1>3, <2>2
    <2>4. CASE i - o - 1 \in 1..Len(name) /\ p[i] = Letter(name[i - o - 1])
      <3>1. name[i - o - 1] \in Nat
        BY <2>4
      <3>2. QED  BY <2>4, <3>1, LetterUnit
    <2> HIDE DEF p, r
    <2>5. QED  BY <2>1, <2>2, <2>3, <2>4
  <1>5. QED  BY <1>1, <1>4 DEF UnitsIn

-----------------------------------------------------------------------------
LEMMA NamesStay ==
  ASSUME NEW s, NEW t, NEW A, NEW F, Sends(s, t, A, F), NamesIn(s.disk, F)
  PROVE  NamesIn(t.disk, F)
  BY DEF NamesIn, Sends

(* The other files keep their clusters, and the bits of files their sector.*)
LEMMA AreaApart ==
  ASSUME NEW O, NEW f \in FileNumbers
  PROVE  /\ FBmp \notin Area(O, f) /\ \A g \in FileNumbers \ {f} : Inode(g) \notin Area(O, f)
         /\ \A c \in O \cap ClusterNumbers : Data(c) \notin Area(O, f)
  BY AddressesApart DEF Area

LEMMA OthersKept ==
  ASSUME NEW s, NEW t, NEW O, NEW f \in FileNumbers, NEW F, Sends(s, t, Area(O, f), F)
  PROVE  Others(t.disk, f) = Others(s.disk, f) /\ t.disk[FBmp] = s.disk[FBmp]
  <1>1. \A g \in FileNumbers \ {f} : t.disk[Inode(g)] = s.disk[Inode(g)]
    BY AreaApart, AddressesApart DEF Sends
  <1>2. t.disk[FBmp] = s.disk[FBmp]
    BY AreaApart, AddressesApart DEF Sends
  <1>3. QED  BY <1>1, <1>2 DEF Others, CellsHeld

(* A directory is written.                                                 *)
LEMMA WrittenSends ==
  ASSUME NEW s, Going(s), NEW dir \in FileNumbers, NEW size \in Nat,
         s.disk[Inode(dir)].size <= size, NEW F, NEW b, UnitsIn(b, F)
  PROVE  Sends(s, Written(s, dir, s.disk[Inode(dir)], size, b).s, Area(Others(s.disk, dir), dir), F)
  <1> DEFINE inode == s.disk[Inode(dir)]
             O == Others(s.disk, dir)
             w == write_file(s, dir, inode, size, b)
  <1>1. Sized(inode) /\ Held(s.disk[CBmp], inode.ext, O)
    BY OthersMarked, HeldLess
  <1>2. inode.size <= size /\ O = Others(s.disk, dir)
    OBVIOUS
  <1>3. Written(s, dir, inode, size, b).s = w.s
    BY DEF Written
  <1> HIDE DEF inode, O
  <1>4. Sends(s, w.s, Area(O, dir), F)
    BY <1>1, <1>2, WriteFileSends
  <1>5. QED  BY <1>3, <1>4 DEF inode, O

(* A directory is changed: what it names then are files in F.              *)
Enters(s, t, dir, F) == Going(t) /\ Sends(s, t, Area(Others(s.disk, dir), dir), F)

LEMMA CreateEntrySends ==
  ASSUME NEW s, Going(s), NEW F, Numbers(F), NamesIn(s.disk, F), NEW file \in F,
         NEW used \in BOOLEAN, NEW dir \in FileNumbers, NEW name \in Seq(Nat \ {0})
  PROVE  Enters(s, create_entry(s, file, used, dir, name).s, dir, F)
  <1> DEFINE inode == s.disk[Inode(dir)]
             n == ClusterBytes * Need(inode.size + 1 + Len(name))
             b == Buffer(s.disk, inode, n)
             o == Place(b, n, Len(name))
             size == inode.size + IF b[o + 1].size = 0 THEN 1 + Len(name) ELSE 0
             p == Put(b, o, file, used, name)
             w == Written(s, dir, inode, size, p)
             r == create_entry(s, file, used, dir, name)
             A == Area(Others(s.disk, dir), dir)
  <1>1. r.s = s \/ r.s = w.s
    BY DEF create_entry, EnterAt, Unwritten, Written
  <1>2. inode.size \in Nat /\ Len(name) \in Nat
    BY PassesAt DEF Going, Restartable, Sized
  <1>3. size \in Nat /\ s.disk[Inode(dir)].size <= size
    <2> HIDE DEF b, o
    <2>1. QED  BY <1>2
  <1>4. n \in Nat
    <2>1. inode.size + 1 + Len(name) \in Nat
      BY <1>2
    <2>2. Need(inode.size + 1 + Len(name)) \in Nat
      BY <2>1, NeedSome
    <2>3. ClusterBytes \in Nat
      BY AtufsAssumption
    <2>4. QED  BY <2>2, <2>3
  <1> HIDE DEF n
  <1>5. UnitsIn(b, F)
    <2>1. Restartable(s.disk)
      BY PassesAt DEF Going
    <2>2. QED  BY <1>4, <2>1, BufferUnits
  <1> HIDE DEF b, o
  <1>6. UnitsIn(p, F)
    BY <1>5, PutUnits
  <1> HIDE DEF size, p, r
  <1>7. Sends(s, w.s, A, F)
    BY <1>3, <1>6, WrittenSends
  <1>8. Going(r.s)
    BY <1>2, CreateEntryGoes DEF r
  <1>9. Sends(s, s, A, F)
    BY GoingLogged, NothingSent DEF Logged
  <1> HIDE DEF w
  <1>10. Sends(s, r.s, A, F)
    BY <1>1, <1>7, <1>9
  <1>11. QED  BY <1>8, <1>10 DEF Enters, r

LEMMA WholeUnits ==
  ASSUME NEW s, Going(s), NEW F, Numbers(F), NamesIn(s.disk, F), NEW dir \in FileNumbers
  PROVE  UnitsIn(Buffer(s.disk, s.disk[Inode(dir)], Whole(s.disk[Inode(dir)])), F)
  <1> DEFINE inode == s.disk[Inode(dir)]
             n == Whole(inode)
  <1>1. Restartable(s.disk)
    BY PassesAt DEF Going
  <1>2. n \in Nat
    <2>1. inode.size \in Nat /\ ClusterBytes \in Nat \ {0}
      BY <1>1, AtufsAssumption DEF Restartable, Sized
    <2> HIDE DEF inode
    <2>2. inode.size \div ClusterBytes + 1 \in Nat
      BY <2>1
    <2>3. QED  BY <2>1, <2>2 DEF Whole
  <1> HIDE DEF n
  <1>3. UnitsIn(Buffer(s.disk, inode, n), F)
    BY <1>1, <1>2, BufferUnits
  <1>4. QED  BY <1>3 DEF n

(* The directory is written as long as it was, or not at all.              *)
LEMMA SameSends ==
  ASSUME NEW s, Going(s), NEW dir \in FileNumbers, NEW F, NEW t,
         \/ t = s
         \/ \E b : /\ UnitsIn(b, F)
                   /\ t = Written(s, dir, s.disk[Inode(dir)], s.disk[Inode(dir)].size, b).s
  PROVE  Enters(s, t, dir, F)
  <1> DEFINE size == s.disk[Inode(dir)].size
             A == Area(Others(s.disk, dir), dir)
  <1>1. size \in Nat /\ s.disk[Inode(dir)].size <= size
    BY PassesAt DEF Going, Restartable, Sized
  <1>2. CASE t = s
    <2>1. Sends(s, s, A, F)
      BY GoingLogged, NothingSent DEF Logged
    <2>2. QED  BY <1>2, <2>1 DEF Enters
  <1>3. ASSUME NEW b, UnitsIn(b, F), t = Written(s, dir, s.disk[Inode(dir)], size, b).s
        PROVE  Enters(s, t, dir, F)
    <2> HIDE DEF size, A
    <2> DEFINE u == Written(s, dir, s.disk[Inode(dir)], size, b).s
    <2>1. Going(u)
      BY <1>1, WrittenGoes
    <2>2. Sends(s, u, Area(Others(s.disk, dir), dir), F)
      BY <1>1, <1>3, WrittenSends
    <2> HIDE DEF u
    <2>3. QED  BY <1>3, <2>1, <2>2 DEF Enters, u
  <1>4. QED  BY <1>2, <1>3

LEMMA DeleteEntrySends ==
  ASSUME NEW s, Going(s), NEW F, Numbers(F), NamesIn(s.disk, F), NEW dir \in FileNumbers,
         NEW name, NEW r \in delete_entry(s, dir, name)
  PROVE  Enters(s, r.s, dir, F)
  <1> DEFINE inode == s.disk[Inode(dir)]
             b == Buffer(s.disk, inode, Whole(inode))
             hits == SelectSeq(Offsets(b, Len(b)), LAMBDA o : Matches(b, o, name, Len(name)))
             o == Head(hits)
             cleared == [i \in DOMAIN b |->
                           CASE i = o + 1 -> [b[i] EXCEPT !.used = FALSE]
                             [] i - o - 1 \in 1..b[o + 1].len -> Zero
                             [] OTHER -> b[i]]
             dull == Written(s, dir, inode, inode.size, b)
             good == Written(s, dir, inode, inode.size, cleared)
  <1>1. delete_entry(s, dir, name) = IF hits # <<>> THEN {good} ELSE {Unwritten(s, TRUE), dull}
    BY DEF delete_entry
  <1>2. UnitsIn(b, F)
    BY WholeUnits
  <1> HIDE DEF hits, b
  <1>3. UnitsIn(cleared, F)
    <2>1. Zero \in Unit(F)
      BY <1>2, AtUnits
    <2>2. ASSUME NEW i \in DOMAIN b PROVE cleared[i] \in Unit(F)
      <3>1. b[i] \in Unit(F)
        BY <1>2 DEF UnitsIn
      <3>2. [b[i] EXCEPT !.used = FALSE] \in Unit(F)
        BY <3>1 DEF Unit
      <3>3. cleared[i] \in {[b[i] EXCEPT !.used = FALSE], Zero, b[i]}
        OBVIOUS
      <3> HIDE DEF cleared
      <3>4. QED  BY <2>1, <3>1, <3>2, <3>3
    <2>3. DOMAIN cleared = DOMAIN b
      OBVIOUS
    <2> HIDE DEF cleared
    <2>4. QED  BY <2>2, <2>3 DEF UnitsIn
  <1> HIDE DEF cleared
  <1>4. r = good \/ r = dull \/ r = Unwritten(s, TRUE)
    BY <1>1
  <1>5. \/ r.s = s
        \/ \E x : UnitsIn(x, F) /\ r.s = Written(s, dir, inode, inode.size, x).s
    BY <1>2, <1>3, <1>4 DEF Unwritten
  <1>6. QED  BY <1>5, SameSends

LEMMA RenameEntrySends ==
  ASSUME NEW s, Going(s), NEW F, Numbers(F), NamesIn(s.disk, F), NEW dir \in FileNumbers,
         NEW old, NEW new \in Seq(Nat \ {0})
  PROVE  Enters(s, rename_entry(s, dir, old, new).s, dir, F)
  <1> DEFINE inode == s.disk[Inode(dir)]
             b == Buffer(s.disk, inode, Whole(inode))
             all == Offsets(b, inode.size)
             end == IF all = <<>> THEN 0 ELSE Last(all) + b[Last(all) + 1].size
             compared == IF end < inode.size THEN Append(all, end) ELSE all
             hits == SelectSeq(compared, LAMBDA p : Matches(b, p, old, At(b, p + 1).len))
             o == Head(hits)
             u == At(b, o + 1)
             renamed == [i \in DOMAIN b |->
                           CASE i = o + 1 -> [b[i] EXCEPT !.len = Len(new)]
                             [] i - o - 1 \in 1..Len(new) -> Letter(new[i - o - 1])
                             [] OTHER -> b[i]]
             whole == Written(s, dir, inode, inode.size, renamed)
             short == [whole EXCEPT !.bad = @ \/ u.len > Len(new)]
             same == Written(s, dir, inode, inode.size, b)
             file == u.file
             used == u.used
             more == create_entry(same.s, file, used, dir, new)
             r == rename_entry(s, dir, old, new)
  <1>1. r = CASE hits = <<>> -> Unwritten(s, end < inode.size)
              [] hits # <<>> /\ u.len >= Len(new) -> short
              [] OTHER -> [more EXCEPT !.bad = @ \/ same.bad]
    BY DEF rename_entry
  <1>2. UnitsIn(b, F) /\ file \in F /\ used \in BOOLEAN
    <2>1. UnitsIn(b, F)
      BY WholeUnits
    <2> HIDE DEF b, o
    <2>2. u \in Unit(F)
      BY <2>1, AtUnits
    <2>3. QED  BY <2>1, <2>2 DEF Unit
  <1> HIDE DEF r, hits, compared, all, end, b, file, used, u
  <1>3. UnitsIn(renamed, F)
    <2>1. ASSUME NEW i \in DOMAIN b PROVE renamed[i] \in Unit(F)
      <3>1. b[i] \in Unit(F) /\ Len(new) \in Nat
        BY <1>2 DEF UnitsIn
      <3>2. [b[i] EXCEPT !.len = Len(new)] \in Unit(F)
        BY <3>1 DEF Unit
      <3>3. \/ renamed[i] = [b[i] EXCEPT !.len = Len(new)]
            \/ i - o - 1 \in 1..Len(new) /\ renamed[i] = Letter(new[i - o - 1])
            \/ renamed[i] = b[i]
        OBVIOUS
      <3> HIDE DEF renamed
      <3>4. CASE i - o - 1 \in 1..Len(new) /\ renamed[i] = Letter(new[i - o - 1])
        <4>1. new[i - o - 1] \in Nat
          BY <3>4
        <4>2. QED  BY <3>4, <4>1, LetterUnit
      <3>5. QED  BY <3>1, <3>2, <3>3, <3>4
    <2>2. DOMAIN renamed = DOMAIN b
      OBVIOUS
    <2> HIDE DEF renamed
    <2>3. QED  BY <2>1, <2>2 DEF UnitsIn
  <1> HIDE DEF renamed, more
  <1>4. r.s = s \/ r = short \/ r = [more EXCEPT !.bad = @ \/ same.bad]
    BY <1>1 DEF Unwritten
  <1>5. CASE r.s = s
    BY <1>5, SameSends DEF r
  <1>6. CASE r = short
    <2>1. short.s = whole.s
      <3> HIDE DEF inode
      <3>1. QED  BY DEF Written
    <2> HIDE DEF short
    <2>2. r.s = Written(s, dir, s.disk[Inode(dir)], s.disk[Inode(dir)].size, renamed).s
      BY <1>6, <2>1
    <2>3. QED  BY <1>3, <2>2, SameSends DEF r
  <1>7. CASE r = [more EXCEPT !.bad = @ \/ same.bad]
    <2>1. Enters(s, same.s, dir, F)
      <3>1. \E x : UnitsIn(x, F) /\ same.s = Written(s, dir, inode, inode.size, x).s
        BY <1>2
      <3> HIDE DEF same
      <3>2. QED  BY <3>1, SameSends
    <2> HIDE DEF same
    <2>2. Going(same.s) /\ NamesIn(same.s.disk, F) /\ Others(same.s.disk, dir) = Others(s.disk, dir)
      BY <2>1, NamesStay, OthersKept DEF Enters
    <2>3. Enters(same.s, more.s, dir, F)
      BY <1>2, <2>2, CreateEntrySends DEF more
    <2>4. Enters(s, more.s, dir, F)
      BY <2>1, <2>2, <2>3, SendsOn DEF Enters
    <2>5. r.s = more.s
      BY <1>7 DEF more, create_entry, EnterAt, Unwritten, Written
    <2>6. QED  BY <2>4, <2>5 DEF r
  <1>8. QED  BY <1>4, <1>5, <1>6, <1>7

-----------------------------------------------------------------------------
(* A sector that is not written stays as it is.                            *)
LEMMA ReachesUntouched ==
  ASSUME NEW d, NEW log, NEW e, IsLog(log), Reaches(d, log, e), NEW a \in Addresses,
         \A k \in 1..Len(log) : log[k].at # a
  PROVE  e[a] = d[a]
  <1>1. PICK D : D[0] = d /\ D[Len(log)] = e /\ Way(D, log)
    BY DEF Reaches
  <1> DEFINE n == Len(log)
             T == {k \in 0..n : D[k][a] = d[a]}
  <1>2. n \in Nat
    BY DEF IsLog
  <1>3. ASSUME NEW k \in 0..(n - 1), k \in T PROVE k + 1 \in T
    <2>1. k + 1 \in 1..n /\ (k + 1) - 1 = k /\ k + 1 \in 0..n
      BY <1>2
    <2>2. D[k + 1] = [D[k] EXCEPT ![log[k + 1].at] = log[k + 1].is]
      BY <1>1, <2>1 DEF Way
    <2>3. a \in DOMAIN D[k]
      <3>1. k \in 0..n
        BY <1>2
      <3>2. IsDisk(D[k])
        BY <1>1, <3>1 DEF Way, Restartable
      <3>3. QED  BY <3>2 DEF IsDisk
    <2>4. D[k + 1][a] = D[k][a]
      BY <2>1, <2>2, <2>3
    <2>5. QED  BY <1>3, <2>1, <2>4
  <1>4. n \in T
    <2>1. 0 \in T
      BY <1>1, <1>2
    <2>2. Climbs(T, 0, n)
      BY <1>3, <2>1 DEF Climbs
    <2>3. n \in 0..n
      BY <1>2
    <2> HIDE DEF T
    <2>4. QED  BY <1>2, <2>2, <2>3, UpTo
  <1>5. QED  BY <1>1, <1>4

(* The sectors of another file are not those that an operation on f writes.*)
LEMMA HomeApart ==
  ASSUME NEW d, Restartable(d), NEW f \in FileNumbers, NEW g \in FileNumbers, f # g
  PROVE  \A a \in Home(d, g) : a \in Addresses /\ a \notin {FBmp} \cup Area(Others(d, f), f)
  <1> DEFINE O == Others(d, f)
  <1>1. CellsHeld(d, g) \subseteq O
    BY DEF Others
  <1>2. O \subseteq ClusterNumbers
    BY DEF Restartable, Owned, Held
  <1> HIDE DEF O
  <1>3. Inode(g) \in Addresses /\ Inode(g) \notin Area(O, f) /\ Inode(g) # FBmp
    BY AddressesApart, AreaApart
  <1>4. \A c \in CellsHeld(d, g) : Data(c) \in Addresses /\ Data(c) \notin Area(O, f) /\ Data(c) # FBmp
    BY <1>1, <1>2, AddressesApart, AreaApart
  <1>5. QED  BY <1>3, <1>4 DEF Home, O

(* On it the other file is the same.                                       *)
LEMMA HomeSame ==
  ASSUME NEW d, NEW e, NEW g, e[Inode(g)] = d[Inode(g)]
  PROVE  Home(e, g) = Home(d, g)
  BY DEF Home, CellsHeld

LEMMA HomeStays ==
  ASSUME NEW s, Going(s), NEW t, NEW A, NEW F, Sends(s, t, A, F), NEW g \in FileNumbers,
         \A a \in Home(s.disk, g) : a \in Addresses /\ a \notin A
  PROVE  /\ Home(t.disk, g) = Home(s.disk, g)
         /\ \A k \in (Len(s.log) + 1)..Len(t.log) : t.log[k].at \notin Home(t.disk, g)
         /\ ContentsOn(t.disk, t.disk[Inode(g)]) = ContentsOn(s.disk, s.disk[Inode(g)])
  <1>1. \A a \in Home(s.disk, g) : t.disk[a] = s.disk[a]
    BY DEF Sends
  <1>2. Sized(s.disk[Inode(g)])
    BY PassesAt DEF Going, Restartable
  <1>3. /\ t.disk[Inode(g)] = s.disk[Inode(g)]
        /\ ContentsOn(t.disk, t.disk[Inode(g)]) = ContentsOn(s.disk, s.disk[Inode(g)])
    BY <1>1, <1>2, ReadsHome
  <1>4. Home(t.disk, g) = Home(s.disk, g)
    BY <1>3, HomeSame
  <1>5. \A k \in (Len(s.log) + 1)..Len(t.log) : t.log[k].at \notin Home(s.disk, g)
    BY DEF Sends
  <1>6. QED  BY <1>3, <1>4, <1>5

-----------------------------------------------------------------------------
(* From the disk d, through the sectors log that are still to be written,  *)
(* to e. The files whose bits are set, where there are such files.         *)
Taken(d) == {f \in Nat : f \in FileNumbers => BitOf(f) \in d[FBmp]}

(* The file of a copy is whole.                                            *)
Complete(d, c) == ContentsOn(d, d[Inode(c.file)]) = Intended(c.size, c.stamp)

(* While sectors of a copied file are still to be written, among them its  *)
(* inode, the copy is the one that runs, the n-th, and nothing names the   *)
(* file before they are.                                                   *)
FileFirst(d, log, e, n, c) == \A j \in 1..Len(log) :
    log[j].at \in Home(e, c.file) =>
        /\ c.stamp = Stamp(n - 1)
        /\ \E k \in j..Len(log) : log[k].at = Inode(c.file)
        /\ NamesIn(d, Nat \ {c.file})
        /\ \A i \in 1..j : Holds(log[i].at, log[i].is, Nat \ {c.file})

(* The bits of files are written before anything else.                     *)
BitsFirst(d, log, e) ==
    /\ d[FBmp] \subseteq e[FBmp]
    /\ \A k \in 2..Len(log) : log[k].at # FBmp

HasBit(d, log, e, n, c) ==
    /\ BitOf(c.file) \in e[FBmp]
    /\ \/ BitOf(c.file) \in d[FBmp]
       \/ c.stamp = Stamp(n - 1) /\ \E k \in 1..Len(log) : log[k].at = Inode(c.file)

(* What directories name are files whose bits are set.                     *)
OnlyTaken(d, log, e) ==
    /\ NamesIn(d, Taken(d)) /\ Root \in Taken(d)
    /\ \A k \in 1..Len(log) : Holds(log[k].at, log[k].is, Taken(e))

CopyStays(d, log, e, n, c) ==
    /\ c.file \in FileNumbers
    /\ HasBit(d, log, e, n, c)
    /\ c.size > 0 => Complete(e, c) /\ FileFirst(d, log, e, n, c) /\ c.file # Root

(* The directory of an entry is no file with contents.                     *)
DirStays(d, cs, t) ==
    /\ t.dir \in FileNumbers /\ BitOf(t.dir) \in d[FBmp]
    /\ \A c \in cs : c.size > 0 => c.file # t.dir

Stays(d, log, e, n, cs, ts) ==
    /\ n \in Nat
    /\ IsLog(log) /\ Reaches(d, log, e)
    /\ BitsFirst(d, log, e) /\ OnlyTaken(d, log, e)
    /\ \A c \in cs : CopyStays(d, log, e, n, c)
    /\ \A t \in ts : DirStays(d, cs, t)
    /\ \A c, x \in cs : c.file = x.file => c = x

(* The inductive invariant, with CrashInv.                                 *)
FilesInv == \E e : Stays(disk, todo, e, ops, copied, named \cup pending)

(* Between operations there is nothing on the way.                         *)
LEMMA IdleStays ==
  ASSUME FilesInv, Idle
  PROVE  Stays(disk, <<>>, disk, ops, copied, named \cup pending)
  <1>1. PICK e : Stays(disk, todo, e, ops, copied, named \cup pending)
    BY DEF FilesInv
  <1>2. todo = <<>>
    BY DEF Idle
  <1>3. e = disk
    BY <1>1, <1>2, ReachesEnds DEF Stays
  <1>4. QED  BY <1>1, <1>2, <1>3

LEMMA NumbersTaken ==
  ASSUME NEW d, Root \in Taken(d)
  PROVE  Numbers(Taken(d))
  BY DEF Numbers, Taken

LEMMA TakenGrows ==
  ASSUME NEW d, NEW e, d[FBmp] \subseteq e[FBmp]
  PROVE  Taken(d) \subseteq Taken(e)
  BY DEF Taken

LEMMA NamesMore ==
  ASSUME NEW d, NEW F, NEW G, F \subseteq G, NamesIn(d, F)
  PROVE  NamesIn(d, G)
  BY UnitsMore DEF NamesIn

LEMMA HomeKnown ==
  ASSUME NEW d, Restartable(d), NEW f \in FileNumbers
  PROVE  \A a \in Home(d, f) : a \in Addresses
  <1>1. Inode(f) \in Addresses
    BY AddressesApart
  <1>2. CellsHeld(d, f) \subseteq ClusterNumbers
    BY DEF Restartable, Owned, Held, CellsHeld, CellsFrom
  <1>3. \A x \in CellsHeld(d, f) : Data(x) \in Addresses
    BY <1>2, AddressesApart
  <1>4. QED  BY <1>1, <1>3 DEF Home

(* What an entry that can be found names is complete.                      *)
LEMMA VisibleComplete ==
  ASSUME FilesInv
  PROVE  FilesComplete
  <1>1. PICK e : Stays(disk, todo, e, ops, copied, named \cup pending)
    BY DEF FilesInv
  <1>2. Restartable(disk) /\ Restartable(e) /\ IsLog(todo) /\ Reaches(disk, todo, e)
    BY <1>1, ReachesEnds DEF Stays
  <1>3. Directories \subseteq FileNumbers
    BY <1>1, RootIsFile DEF Directories, Stays, DirStays
  <1>4. SUFFICES ASSUME NEW dir \in Directories, NEW t \in Visible(dir),
                        NEW c \in copied, c.file = t.file, c.size > 0
                 PROVE  Reads(c.file) = Intended(c.size, c.stamp)
    BY DEF FilesComplete
  <1> DEFINE f == c.file
             inode == disk[Inode(dir)]
             b == Buffer(disk, inode, inode.size)
             G == Nat \ {f}
  <1>5. /\ f \in FileNumbers /\ Complete(e, c) /\ FileFirst(disk, todo, e, ops, c) /\ f # Root
    BY <1>1, <1>4 DEF Stays, CopyStays
  <1>6. PICK o : t.file = At(b, o + 1).file
    BY DEF Visible
  <1>7. ~NamesIn(disk, G)
    <2> SUFFICES ASSUME NamesIn(disk, G) PROVE FALSE
      OBVIOUS
    <2>1. Numbers(G)
      BY <1>5 DEF Numbers, Root
    <2>2. inode.size \in Nat /\ dir \in FileNumbers
      BY <1>2, <1>3 DEF Restartable, Sized
    <2> HIDE DEF G
    <2>3. UnitsIn(b, G)
      BY <1>2, <2>1, <2>2, BufferUnits
    <2> HIDE DEF b
    <2>4. At(b, o + 1) \in Unit(G)
      BY <2>1, <2>3, AtUnits
    <2>5. At(b, o + 1).file \in G
      BY <2>4 DEF Unit
    <2>6. QED  BY <1>4, <1>6, <2>5 DEF G
  <1>8. \A j \in 1..Len(todo) : todo[j].at \notin Home(e, f)
    BY <1>5, <1>7 DEF FileFirst
  <1>9. \A a \in Home(e, f) : a \in Addresses
    BY <1>2, <1>5, HomeKnown
  <1>10. \A a \in Home(e, f) : disk[a] = e[a]
    BY <1>2, <1>8, <1>9, ReachesUntouched
  <1>11. ContentsOn(disk, disk[Inode(f)]) = ContentsOn(e, e[Inode(f)])
    BY <1>2, <1>5, <1>10, ReadsHome DEF Restartable
  <1>12. QED  BY <1>5, <1>11 DEF Reads, Complete

(* A step that is not of an operation.                                     *)
LEMMA FlushStays ==
  ASSUME FilesInv, Flush
  PROVE  FilesInv'
  <1>1. PICK e : Stays(disk, todo, e, ops, copied, named \cup pending)
    BY DEF FilesInv
  <1>2. /\ todo # <<>> /\ todo' = Tail(todo) /\ copied' = copied /\ ops' = ops
        /\ disk' = [disk EXCEPT ![Head(todo).at] = Head(todo).is]
        /\ named' \cup pending' \subseteq named \cup pending
    BY DEF Flush, FlushSector, Idle
  <1> DEFINE d == disk'
             log == todo'
             at == Head(todo).at
             is == Head(todo).is
  <1>3. IsLog(todo) /\ IsLog(log) /\ Reaches(d, log, e) /\ IsDisk(disk)
    BY <1>1, <1>2, ReachesFlush, ReachesEnds DEF Stays, Restartable
  <1>4. /\ Len(todo) \in Nat \ {0} /\ Len(log) = Len(todo) - 1
        /\ \A k \in 1..Len(log) : log[k] = todo[k + 1]
        /\ at = todo[1].at /\ is = todo[1].is
    BY <1>2, <1>3 DEF IsLog
  <1>5. \A a \in Addresses : d[a] = IF a = at THEN is ELSE disk[a]
    BY <1>2, <1>3 DEF IsDisk
  <1> HIDE DEF d, log, at, is
  <1>6. d[FBmp] = e[FBmp]
    <2>1. \A k \in 1..Len(log) : log[k].at # FBmp
      <3>1. \A k \in 1..Len(log) : k + 1 \in 2..Len(todo)
        BY <1>4
      <3>2. QED  BY <1>1, <1>4, <3>1 DEF Stays, BitsFirst
    <2>2. QED  BY <1>3, <2>1, ReachesUntouched, AddressesApart
  <1>7. BitsFirst(d, log, e)
    <2>1. \A k \in 2..Len(log) : k + 1 \in 2..Len(todo) /\ k \in 1..Len(log)
      BY <1>4
    <2>2. QED  BY <1>1, <1>4, <1>6, <2>1 DEF Stays, BitsFirst
  <1>8. \A F : NamesIn(disk, F) /\ Holds(at, is, F) => NamesIn(d, F)
    BY <1>5 DEF NamesIn
  <1>9. disk[FBmp] \subseteq d[FBmp] /\ Taken(d) = Taken(e)
    BY <1>1, <1>6 DEF Stays, BitsFirst, Taken
  <1>10. OnlyTaken(d, log, e)
    <2>1. Taken(disk) \subseteq Taken(d)
      BY <1>9, TakenGrows
    <2>2. NamesIn(disk, Taken(d)) /\ Root \in Taken(d)
      BY <1>1, <2>1, NamesMore DEF Stays, OnlyTaken
    <2>3. Holds(at, is, Taken(d))
      BY <1>1, <1>4, <1>9 DEF Stays, OnlyTaken
    <2>4. \A k \in 1..Len(log) : Holds(log[k].at, log[k].is, Taken(e))
      <3>1. \A k \in 1..Len(log) : k + 1 \in 1..Len(todo)
        BY <1>4
      <3>2. QED  BY <1>1, <1>4, <3>1 DEF Stays, OnlyTaken
    <2>5. QED  BY <1>8, <2>2, <2>3, <2>4 DEF OnlyTaken
  <1>11. ASSUME NEW c \in copied PROVE CopyStays(d, log, e, ops, c)
    <2>1. CopyStays(disk, todo, e, ops, c)
      BY <1>1 DEF Stays
    <2>2. HasBit(d, log, e, ops, c)
      BY <1>6, <2>1 DEF CopyStays, HasBit
    <2>3. ASSUME FileFirst(disk, todo, e, ops, c) PROVE FileFirst(d, log, e, ops, c)
      <3> SUFFICES ASSUME NEW j \in 1..Len(log), log[j].at \in Home(e, c.file)
                   PROVE  /\ c.stamp = Stamp(ops - 1)
                          /\ \E k \in j..Len(log) : log[k].at = Inode(c.file)
                          /\ NamesIn(d, Nat \ {c.file})
                          /\ \A i \in 1..j : Holds(log[i].at, log[i].is, Nat \ {c.file})
        BY DEF FileFirst
      <3> DEFINE m == j + 1
                 F == Nat \ {c.file}
      <3>1. m \in 1..Len(todo) /\ todo[m].at \in Home(e, c.file)
        BY <1>4
      <3>2. /\ c.stamp = Stamp(ops - 1)
            /\ \E k \in m..Len(todo) : todo[k].at = Inode(c.file)
            /\ NamesIn(disk, F)
            /\ \A i \in 1..m : Holds(todo[i].at, todo[i].is, F)
        BY <2>3, <3>1 DEF FileFirst
      <3>3. \E k \in j..Len(log) : log[k].at = Inode(c.file)
        <4>1. PICK k \in m..Len(todo) : todo[k].at = Inode(c.file)
          BY <3>2
        <4>2. k - 1 \in j..Len(log) /\ k - 1 \in 1..Len(log) /\ (k - 1) + 1 = k
          BY <1>4
        <4>3. log[k - 1].at = Inode(c.file)
          BY <1>4, <4>1, <4>2
        <4>4. QED  BY <4>2, <4>3
      <3> HIDE DEF F
      <3>4. NamesIn(d, F)
        <4>1. 1 \in 1..m
          BY <3>1
        <4>2. QED  BY <1>4, <1>8, <3>2, <4>1
      <3>5. ASSUME NEW i \in 1..j PROVE Holds(log[i].at, log[i].is, F)
        <4>1. i + 1 \in 1..m /\ i \in 1..Len(log)
          BY <1>4
        <4>2. QED  BY <1>4, <3>2, <4>1
      <3>6. QED  BY <3>2, <3>3, <3>4, <3>5 DEF F
    <2>4. QED  BY <2>1, <2>2, <2>3 DEF CopyStays
  <1>12. \A t \in named \cup pending : DirStays(d, copied, t)
    BY <1>1, <1>9 DEF Stays, DirStays
  <1>13. Stays(d, log, e, ops, copied, named' \cup pending')
    BY <1>1, <1>2, <1>3, <1>7, <1>10, <1>11, <1>12 DEF Stays
  <1>14. Stays(disk', todo', e, ops', copied', named' \cup pending')
    BY <1>2, <1>13 DEF d, log
  <1>15. QED  BY <1>14 DEF FilesInv

LEMMA CrashStays ==
  ASSUME FilesInv, Crash
  PROVE  FilesInv'
  <1>1. PICK e : Stays(disk, todo, e, ops, copied, named \cup pending)
    BY DEF FilesInv
  <1>2. /\ todo' = <<>> /\ disk' = disk /\ ops' = ops /\ named' = named /\ pending' = {}
        /\ copied' = {c \in copied : c.stamp # Stamp(ops - 1) \/ Inode(c.file) \notin Unflushed}
    BY DEF Crash
  <1>3. Restartable(disk) /\ Restartable(e) /\ IsLog(todo) /\ Reaches(disk, todo, e)
    BY <1>1, ReachesEnds DEF Stays
  <1>4. Reaches(disk, <<>>, disk) /\ IsLog(<<>>)
    BY <1>3, ReachesNowhere
  <1>5. Len(<<>>) = 0
    OBVIOUS
  <1>6. BitsFirst(disk, <<>>, disk)
    BY <1>5 DEF BitsFirst
  <1>7. OnlyTaken(disk, <<>>, disk)
    BY <1>1, <1>5 DEF Stays, OnlyTaken
  <1>8. ASSUME NEW c \in copied' PROVE CopyStays(disk, <<>>, disk, ops, c)
    <2>1. /\ c \in copied /\ CopyStays(disk, todo, e, ops, c)
          /\ ~(c.stamp = Stamp(ops - 1) /\ \E k \in 1..Len(todo) : todo[k].at = Inode(c.file))
      <3>1. c \in copied /\ (c.stamp # Stamp(ops - 1) \/ Inode(c.file) \notin Unflushed)
        BY <1>2
      <3>2. DOMAIN todo = 1..Len(todo)
        BY <1>3 DEF IsLog
      <3>3. QED  BY <1>1, <3>1, <3>2 DEF Stays, Unflushed
    <2>2. c.file \in FileNumbers /\ HasBit(disk, <<>>, disk, ops, c)
      BY <2>1 DEF CopyStays, HasBit
    <2>3. ASSUME Complete(e, c), FileFirst(disk, todo, e, ops, c)
          PROVE  Complete(disk, c)
      <3> DEFINE f == c.file
      <3>1. \A j \in 1..Len(todo) : todo[j].at \notin Home(e, f)
        <4> SUFFICES ASSUME NEW j \in 1..Len(todo), todo[j].at \in Home(e, f) PROVE FALSE
          OBVIOUS
        <4>1. c.stamp = Stamp(ops - 1) /\ \E k \in j..Len(todo) : todo[k].at = Inode(f)
          BY <2>3 DEF FileFirst
        <4>2. j..Len(todo) \subseteq 1..Len(todo)
          BY <1>3 DEF IsLog
        <4>3. QED  BY <2>1, <4>1, <4>2
      <3>2. \A a \in Home(e, f) : a \in Addresses
        BY <1>3, <2>2, HomeKnown
      <3>3. \A a \in Home(e, f) : disk[a] = e[a]
        BY <1>3, <3>1, <3>2, ReachesUntouched
      <3>4. ContentsOn(disk, disk[Inode(f)]) = ContentsOn(e, e[Inode(f)])
        BY <1>3, <2>2, <3>3, ReadsHome DEF Restartable
      <3>5. QED  BY <2>3, <3>4 DEF Complete
    <2>4. FileFirst(disk, <<>>, disk, ops, c)
      BY <1>5 DEF FileFirst
    <2>5. QED  BY <2>1, <2>2, <2>3, <2>4 DEF CopyStays
  <1>9. copied' \subseteq copied
    BY <1>2
  <1>10. \A t \in named' \cup pending' : DirStays(disk, copied', t)
    BY <1>1, <1>2, <1>9 DEF Stays, DirStays
  <1>11. \A c, x \in copied' : c.file = x.file => c = x
    BY <1>1, <1>9 DEF Stays
  <1>12. Stays(disk, <<>>, disk, ops, copied', named' \cup pending')
    BY <1>1, <1>4, <1>6, <1>7, <1>8, <1>10, <1>11 DEF Stays
  <1>13. Stays(disk', todo', disk', ops', copied', named' \cup pending')
    BY <1>2, <1>12
  <1>14. QED  BY <1>13 DEF FilesInv

-----------------------------------------------------------------------------
(* An operation is begun that writes no sector of an old copy.             *)
Spares(t) ==
    /\ Going(t) /\ disk[FBmp] \subseteq t.disk[FBmp]
    /\ \A k \in 2..Len(t.log) : t.log[k].at # FBmp
    /\ \E A : /\ Sends(Now, t, A, Taken(t.disk))
              /\ \A c \in copied : c.size > 0 =>
                    \A a \in Home(disk, c.file) : a \in Addresses /\ a \notin A

LEMMA OldStay ==
  ASSUME CrashInv, FilesInv, Idle, NEW t, Spares(t), NEW n
  PROVE  /\ IsLog(t.log) /\ Reaches(disk, t.log, t.disk)
         /\ BitsFirst(disk, t.log, t.disk) /\ OnlyTaken(disk, t.log, t.disk)
         /\ \A c \in copied : CopyStays(disk, t.log, t.disk, n, c)
  <1> DEFINE s == Now
  <1>1. Stays(disk, <<>>, disk, ops, copied, named \cup pending)
    BY IdleStays
  <1>2. s.disk = disk /\ s.log = <<>> /\ Len(<<>>) = 0
    BY DEF Now
  <1>3. Going(s) /\ Going(t)
    BY NowGoes DEF Spares
  <1> HIDE DEF s
  <1>4. PICK A : /\ Sends(s, t, A, Taken(t.disk))
                 /\ \A c \in copied : c.size > 0 =>
                       \A a \in Home(disk, c.file) : a \in Addresses /\ a \notin A
    BY DEF Spares, s
  <1>5. IsLog(t.log) /\ Reaches(disk, t.log, t.disk)
    BY <1>3 DEF Going, Passes
  <1>6. BitsFirst(disk, t.log, t.disk)
    BY DEF Spares, BitsFirst
  <1>7. \A k \in 1..Len(t.log) : k \in (Len(s.log) + 1)..Len(t.log)
    BY <1>2
  <1>8. OnlyTaken(disk, t.log, t.disk)
    <2>1. NamesIn(disk, Taken(disk)) /\ Root \in Taken(disk)
      BY <1>1 DEF Stays, OnlyTaken
    <2>2. \A k \in 1..Len(t.log) : Holds(t.log[k].at, t.log[k].is, Taken(t.disk))
      BY <1>4, <1>7 DEF Sends
    <2>3. QED  BY <2>1, <2>2 DEF OnlyTaken
  <1>9. ASSUME NEW c \in copied PROVE CopyStays(disk, t.log, t.disk, n, c)
    <2>1. CopyStays(disk, <<>>, disk, ops, c)
      BY <1>1 DEF Stays
    <2>2. c.file \in FileNumbers /\ HasBit(disk, t.log, t.disk, n, c)
      BY <1>6, <2>1 DEF CopyStays, HasBit, BitsFirst
    <2>3. ASSUME c.size > 0 PROVE Complete(t.disk, c) /\ FileFirst(disk, t.log, t.disk, n, c)
      <3>1. \A a \in Home(s.disk, c.file) : a \in Addresses /\ a \notin A
        BY <1>2, <1>4, <2>3
      <3>2. /\ \A k \in (Len(s.log) + 1)..Len(t.log) : t.log[k].at \notin Home(t.disk, c.file)
            /\ ContentsOn(t.disk, t.disk[Inode(c.file)]) = ContentsOn(s.disk, s.disk[Inode(c.file)])
        BY <1>3, <1>4, <2>2, <3>1, HomeStays
      <3>3. Complete(t.disk, c)
        BY <1>2, <2>1, <2>3, <3>2 DEF CopyStays, Complete
      <3>4. FileFirst(disk, t.log, t.disk, n, c)
        BY <1>7, <3>2 DEF FileFirst
      <3>5. QED  BY <3>3, <3>4
    <2>4. QED  BY <2>1, <2>2, <2>3 DEF CopyStays
  <1>10. QED  BY <1>5, <1>6, <1>8, <1>9

(* An entry is removed or renamed.                                         *)
LEMMA EntryStays ==
  ASSUME CrashInv, FilesInv, Idle, NEW dir \in FileNumbers,
         \A c \in copied : c.size > 0 => c.file # dir,
         NEW t, Enters(Now, t, dir, Taken(disk)), Begin(t), ops' = ops + 1,
         copied' = copied, named' \subseteq named,
         \A x \in pending' : x \in pending \/ DirStays(disk, copied, x)
  PROVE  FilesInv'
  <1> DEFINE s == Now
             A == Area(Others(disk, dir), dir)
             m == ops + 1
  <1>1. Stays(disk, <<>>, disk, ops, copied, named \cup pending)
    BY IdleStays
  <1>2. s.disk = disk /\ s.log = <<>> /\ Len(<<>>) = 0 /\ m \in Nat
    BY <1>1 DEF Now, Stays
  <1>3. Going(s) /\ Restartable(disk)
    BY <1>2, NowGoes, PassesAt DEF Going
  <1>4. \A x \in named' \cup pending' : DirStays(disk, copied, x)
    BY <1>1 DEF Stays
  <1>5. \A c \in copied : c.size > 0 => c.file # dir /\ c.file \in FileNumbers
    BY <1>1 DEF Stays, CopyStays
  <1> HIDE DEF s, m
  <1>6. Going(t) /\ Sends(s, t, A, Taken(disk))
    BY <1>2 DEF Enters, s
  <1>7. t.disk[FBmp] = disk[FBmp]
    BY <1>2, <1>6, OthersKept
  <1>8. Spares(t)
    <2>1. \A c \in copied : c.size > 0 =>
             \A a \in Home(disk, c.file) : a \in Addresses /\ a \notin A
      BY <1>3, <1>5, HomeApart
    <2>2. Taken(t.disk) = Taken(disk)
      BY <1>7 DEF Taken
    <2>3. FBmp \notin A
      BY AreaApart
    <2> HIDE DEF A
    <2>4. Sends(s, t, A, Taken(t.disk))
      BY <1>6, <2>2
    <2>5. \A k \in 2..Len(t.log) : t.log[k].at # FBmp
      <3>1. \A k \in 2..Len(t.log) : k \in (Len(s.log) + 1)..Len(t.log)
        BY <1>2
      <3>2. QED  BY <2>3, <2>4, <3>1 DEF Sends
    <2>6. QED  BY <1>6, <1>7, <2>1, <2>4, <2>5 DEF Spares, s
  <1>9. /\ IsLog(t.log) /\ Reaches(disk, t.log, t.disk)
        /\ BitsFirst(disk, t.log, t.disk) /\ OnlyTaken(disk, t.log, t.disk)
        /\ \A c \in copied : CopyStays(disk, t.log, t.disk, m, c)
    BY <1>8, OldStay
  <1>10. Stays(disk, t.log, t.disk, m, copied, named' \cup pending')
    BY <1>1, <1>2, <1>4, <1>9 DEF Stays
  <1>11. disk' = disk /\ todo' = t.log /\ ops' = m /\ copied' = copied
    BY DEF Begin, m
  <1>12. Stays(disk', todo', t.disk, ops', copied', named' \cup pending')
    BY <1>10, <1>11
  <1>13. QED  BY <1>12 DEF FilesInv

LEMMA DirectoriesHold ==
  ASSUME FilesInv, Idle, NEW dir \in Directories
  PROVE  dir \in FileNumbers /\ \A c \in copied : c.size > 0 => c.file # dir
  <1>1. Stays(disk, <<>>, disk, ops, copied, named \cup pending)
    BY IdleStays
  <1>2. QED  BY <1>1, RootIsFile DEF Directories, Stays, CopyStays, DirStays

LEMMA NowNames ==
  ASSUME CrashInv, FilesInv, Idle
  PROVE  /\ Going(Now) /\ Numbers(Taken(disk)) /\ NamesIn(Now.disk, Taken(disk))
         /\ Now.disk = disk /\ Now.log = <<>>
  <1>1. Now.disk = disk /\ Now.log = <<>>
    BY DEF Now
  <1>2. NamesIn(disk, Taken(disk)) /\ Root \in Taken(disk)
    BY IdleStays DEF Stays, OnlyTaken
  <1>3. QED  BY <1>1, <1>2, NowGoes, NumbersTaken

LEMMA DeleteEntryStays ==
  ASSUME CrashInv, FilesInv, NEW dir \in Directories, NEW name \in Names, DeleteEntry(dir, name)
  PROVE  FilesInv'
  <1>1. PICK r \in delete_entry(Now, dir, name) : Start(r, dir)
    BY DEF DeleteEntry
  <1>2. Idle /\ named' \subseteq named /\ UNCHANGED <<copied, pending>>
    BY DEF DeleteEntry
  <1>3. Enters(Now, r.s, dir, Taken(disk))
    BY <1>2, NowNames, DirectoriesHold, DeleteEntrySends
  <1>4. QED  BY <1>1, <1>2, <1>3, EntryStays, DirectoriesHold DEF Start

LEMMA NameTypes ==
  ASSUME NEW name \in Names
  PROVE  name \in Seq(Nat \ {0})
  <1>1. PICK p \in Paths : name = Last(p)
    BY DEF Names
  <1>2. p \in Seq(Seq(Nat \ {0})) /\ p # <<>>
    BY DirAssumption
  <1>3. Last(p) \in Seq(Nat \ {0})
    BY <1>2 DEF Last
  <1>4. QED  BY <1>1, <1>3

LEMMA RenameEntryStays ==
  ASSUME CrashInv, FilesInv, NEW dir \in Directories, NEW old \in Names, NEW new \in Names,
         RenameEntry(dir, old, new)
  PROVE  FilesInv'
  <1> DEFINE r == rename_entry(Now, dir, old, new)
  <1>1. Idle /\ Start(r, dir) /\ named' \subseteq named /\ UNCHANGED <<copied, pending>>
    BY DEF RenameEntry
  <1>2. Enters(Now, r.s, dir, Taken(disk))
    BY <1>1, NowNames, NameTypes, DirectoriesHold, RenameEntrySends
  <1> HIDE DEF r
  <1>3. QED  BY <1>1, <1>2, EntryStays, DirectoriesHold DEF Start

-----------------------------------------------------------------------------
(* A file that a path goes to holds nothing but entries.                   *)
LEMMA EmptyStays ==
  ASSUME FilesInv, Idle, NEW t, t.dir \in Empty
  PROVE  DirStays(disk, copied, t)
  <1>1. Stays(disk, <<>>, disk, ops, copied, named \cup pending)
    BY IdleStays
  <1>2. CASE t.dir = Root
    <2>1. BitOf(Root) \in disk[FBmp]
      BY <1>1, RootIsFile DEF Stays, OnlyTaken, Taken
    <2>2. \A c \in copied : c.size > 0 => c.file # Root
      BY <1>1 DEF Stays, CopyStays
    <2>3. QED  BY <1>2, <2>1, <2>2, RootIsFile DEF DirStays
  <1>3. ASSUME NEW x \in copied, x.size = 0, t.dir = x.file PROVE DirStays(disk, copied, t)
    <2>1. x.file \in FileNumbers /\ BitOf(x.file) \in disk[FBmp]
      BY <1>1, <1>3 DEF Stays, CopyStays, HasBit
    <2>2. \A c \in copied : c.size > 0 => c.file # x.file
      BY <1>1, <1>3 DEF Stays
    <2>3. QED  BY <1>3, <2>1, <2>2 DEF DirStays
  <1>4. QED  BY <1>2, <1>3 DEF Empty

(* The file of the running copy is new: no other copy is in it, and no     *)
(* directory.                                                              *)
LEMMA NewFile ==
  ASSUME FilesInv, Idle, NEW f \in FileNumbers, BitOf(f) \notin disk[FBmp]
  PROVE  /\ f # Root /\ f \notin Taken(disk)
         /\ \A c \in copied : c.file # f
         /\ \A t : DirStays(disk, copied, t) => t.dir # f
  <1>1. Stays(disk, <<>>, disk, ops, copied, named \cup pending)
    BY IdleStays
  <1>2. f \notin Taken(disk)
    BY DEF Taken
  <1>3. f # Root
    BY <1>1, <1>2 DEF Stays, OnlyTaken
  <1>4. \A c \in copied : c.file # f
    BY <1>1 DEF Stays, CopyStays, HasBit
  <1>5. QED  BY <1>2, <1>3, <1>4 DEF DirStays

(* A copy, of which c is the file and u what is left when its entry is     *)
(* made as well.                                                           *)
Copies(c, u, dir, size, stamp) ==
    /\ Created(Now, c, size, stamp, {Root})
    /\ Enters(c.s, u, dir, Taken(c.s.disk))

LEMMA CopySpares ==
  ASSUME CrashInv, FilesInv, Idle, NEW c, NEW u, NEW dir, NEW size, NEW stamp,
         Copies(c, u, dir, size, stamp), NEW t, t.dir = dir, DirStays(disk, copied, t)
  PROVE  Spares(u) /\ u.disk[FBmp] = disk[FBmp] \cup {BitOf(c.file)}
  <1> DEFINE f == c.file
             A == {FBmp} \cup Area(Others(disk, f), f)
             B == Area(Others(c.s.disk, dir), dir)
             G == Taken(u.disk)
  <1>1. /\ f \in FileNumbers /\ BitOf(f) \notin disk[FBmp]
        /\ Going(c.s) /\ Sends(Now, c.s, A, {Root})
        /\ \A k \in 2..Len(c.s.log) : c.s.log[k].at # FBmp
        /\ c.s.disk[FBmp] = disk[FBmp] \cup {BitOf(f)}
    <2>1. Now.disk = disk /\ Now.log = <<>> /\ Len(Now.log) + 2 = 2
      BY DEF Now
    <2>2. QED  BY <2>1 DEF Copies, Created
  <1>2. Going(u) /\ Sends(c.s, u, B, Taken(c.s.disk))
    BY DEF Copies, Enters
  <1>3. dir \in FileNumbers /\ \A x \in copied : x.size > 0 => x.file # dir
    BY DEF DirStays
  <1>4. u.disk[FBmp] = c.s.disk[FBmp]
    BY <1>2, <1>3, OthersKept
  <1>5. Going(Now) /\ Restartable(disk) /\ Restartable(c.s.disk) /\ Now.disk = disk /\ Now.log = <<>>
    BY <1>1, NowNames, PassesAt DEF Going
  <1>6. ASSUME NEW x \in copied, x.size > 0
        PROVE  \A a \in Home(disk, x.file) : a \in Addresses /\ a \notin A \cup B
    <2>1. x.file \in FileNumbers /\ x.file # f /\ x.file # dir
      BY <1>1, <1>3, <1>6, NewFile DEF CrashInv
    <2>2. \A a \in Home(disk, x.file) : a \in Addresses /\ a \notin A
      BY <1>1, <1>5, <2>1, HomeApart
    <2> HIDE DEF A
    <2>3. Home(c.s.disk, x.file) = Home(disk, x.file)
      BY <1>1, <1>5, <2>1, <2>2, HomeStays
    <2>4. \A a \in Home(c.s.disk, x.file) : a \notin B
      BY <1>3, <1>5, <2>1, HomeApart
    <2>5. QED  BY <2>2, <2>3, <2>4
  <1>7. Sends(Now, u, A \cup B, G)
    <2>1. G = Taken(c.s.disk)
      BY <1>4 DEF Taken
    <2>2. {Root} \subseteq G
      <3>1. Root \in Taken(disk)
        BY IdleStays DEF Stays, OnlyTaken
      <3>2. Taken(disk) \subseteq G
        BY <1>1, <2>1, TakenGrows
      <3>3. QED  BY <3>1, <3>2
    <2> HIDE DEF A, B, G
    <2>3. Sends(Now, c.s, A \cup B, G)
      BY <1>1, <2>2, SendsMore
    <2>4. Sends(c.s, u, A \cup B, G)
      BY <1>2, <2>1, SendsMore
    <2>5. QED  BY <2>3, <2>4, SendsOn
  <1>8. \A k \in 2..Len(u.log) : u.log[k].at # FBmp
    <2> SUFFICES ASSUME NEW k \in 2..Len(u.log) PROVE u.log[k].at # FBmp
      OBVIOUS
    <2>1. FBmp \notin B
      BY <1>3, AreaApart
    <2>2. Len(c.s.log) \in Nat /\ Len(u.log) \in Nat
      BY <1>2 DEF Sends
    <2> HIDE DEF A, B, G
    <2>3. CASE k <= Len(c.s.log)
      <3>1. k \in 2..Len(c.s.log) /\ k \in 1..Len(c.s.log)
        BY <2>2, <2>3
      <3>2. QED  BY <1>1, <1>2, <3>1 DEF Sends
    <2>4. CASE ~(k <= Len(c.s.log))
      <3>1. k \in (Len(c.s.log) + 1)..Len(u.log)
        BY <2>2, <2>4
      <3>2. QED  BY <1>2, <2>1, <3>1 DEF Sends
    <2>5. QED  BY <2>3, <2>4
  <1>9. disk[FBmp] \subseteq u.disk[FBmp]
    BY <1>1, <1>4
  <1> HIDE DEF A, B, G
  <1>10. QED  BY <1>1, <1>2, <1>4, <1>6, <1>7, <1>8, <1>9 DEF Spares, G

(* The copy itself.                                                        *)
LEMMA NewStays ==
  ASSUME CrashInv, FilesInv, Idle, NEW c, NEW u, NEW dir, NEW size \in Nat,
         Copies(c, u, dir, size, Stamp(ops)), NEW t, t.dir = dir, DirStays(disk, copied, t),
         ~c.short, NEW m, m - 1 = ops
  PROVE  CopyStays(disk, u.log, u.disk, m, [file |-> c.file, size |-> size, stamp |-> Stamp(ops)])
  <1> DEFINE f == c.file
             stamp == Stamp(ops)
             x == [file |-> f, size |-> size, stamp |-> stamp]
             B == Area(Others(c.s.disk, dir), dir)
             p == Len(c.s.log)
             F == Nat \ {f}
  <1>1. x.file = f /\ x.size = size /\ x.stamp = stamp
    OBVIOUS
  <1>2. /\ f \in FileNumbers /\ BitOf(f) \notin disk[FBmp] /\ Going(c.s)
        /\ Sends(Now, c.s, {FBmp} \cup Area(Others(disk, f), f), {Root})
        /\ FileWritten(c.s, f, size, stamp) /\ Now.log = <<>>
    <2>1. Now.disk = disk /\ Now.log = <<>>
      BY DEF Now
    <2>2. QED  BY <2>1 DEF Copies, Created
  <1>3. Going(u) /\ Sends(c.s, u, B, Taken(c.s.disk))
    BY DEF Copies, Enters
  <1>4. f # Root /\ f \notin Taken(disk) /\ f # dir /\ dir \in FileNumbers
    BY <1>2, NewFile DEF DirStays
  <1>5. p \in Nat \ {0} /\ Len(u.log) \in Nat /\ p <= Len(u.log)
        /\ \A k \in 1..p : u.log[k] = c.s.log[k]
    BY <1>2, <1>3 DEF FileWritten, Sends
  <1>6. u.log[p].at = Inode(f) /\ p \in 1..Len(u.log)
    BY <1>2, <1>5 DEF FileWritten
  <1>7. /\ \A k \in (p + 1)..Len(u.log) : u.log[k].at \notin Home(u.disk, f)
        /\ ContentsOn(u.disk, u.disk[Inode(f)]) = ContentsOn(c.s.disk, c.s.disk[Inode(f)])
    <2>1. Restartable(c.s.disk)
      BY <1>2, PassesAt DEF Going
    <2>2. \A a \in Home(c.s.disk, f) : a \in Addresses /\ a \notin B
      BY <1>2, <1>4, <2>1, HomeApart
    <2> HIDE DEF B
    <2>3. QED  BY <1>2, <1>3, <2>2, HomeStays
  <1> HIDE DEF x, stamp
  <1>8. HasBit(disk, u.log, u.disk, m, x)
    <2>1. u.disk[FBmp] = disk[FBmp] \cup {BitOf(f)}
      BY CopySpares DEF stamp
    <2>2. x.stamp = Stamp(m - 1)
      BY <1>1 DEF stamp
    <2>3. QED  BY <1>1, <1>6, <2>1, <2>2 DEF HasBit
  <1>9. Complete(u.disk, x)
    BY <1>1, <1>2, <1>7 DEF Complete, FileWritten
  <1>10. FileFirst(disk, u.log, u.disk, m, x)
    <2> SUFFICES ASSUME NEW j \in 1..Len(u.log), u.log[j].at \in Home(u.disk, f)
                 PROVE  /\ x.stamp = Stamp(m - 1)
                        /\ \E k \in j..Len(u.log) : u.log[k].at = Inode(f)
                        /\ NamesIn(disk, F)
                        /\ \A i \in 1..j : Holds(u.log[i].at, u.log[i].is, F)
      BY <1>1 DEF FileFirst
    <2>1. j \in 1..p
      BY <1>5, <1>7
    <2>2. p \in j..Len(u.log)
      BY <1>5, <2>1
    <2>3. NamesIn(disk, F)
      <3>1. NamesIn(disk, Taken(disk))
        BY IdleStays DEF Stays, OnlyTaken
      <3>2. Taken(disk) \subseteq F
        BY <1>4 DEF Taken
      <3> HIDE DEF F
      <3>3. QED  BY <3>1, <3>2, NamesMore
    <2>4. ASSUME NEW i \in 1..j PROVE Holds(u.log[i].at, u.log[i].is, F)
      <3>1. i \in 1..p /\ i \in (Len(Now.log) + 1)..Len(c.s.log)
        BY <1>2, <1>5, <2>1
      <3>2. Holds(c.s.log[i].at, c.s.log[i].is, {Root})
        BY <1>2, <3>1 DEF Sends
      <3>3. {Root} \subseteq F
        BY <1>4 DEF Root
      <3> HIDE DEF F
      <3>4. Holds(c.s.log[i].at, c.s.log[i].is, F)
        BY <3>2, <3>3, UnitsMore
      <3>5. QED  BY <1>5, <3>1, <3>4
    <2>5. x.stamp = Stamp(m - 1)
      BY <1>1 DEF stamp
    <2>6. QED  BY <1>6, <2>2, <2>3, <2>4, <2>5
  <1>11. CopyStays(disk, u.log, u.disk, m, x)
    BY <1>1, <1>2, <1>4, <1>8, <1>9, <1>10 DEF CopyStays
  <1>12. QED  BY <1>11 DEF x, stamp

-----------------------------------------------------------------------------
(* A copy for which there is a file.                                       *)
LEMMA MadeStays ==
  ASSUME CrashInv, FilesInv, Idle, NEW c, NEW u, NEW dir, NEW size \in Nat,
         Copies(c, u, dir, size, Stamp(ops)), NEW entry, entry.dir = dir,
         DirStays(disk, copied, entry), Begin(u), ops' = ops + 1, named' = named,
         pending' \subseteq {entry},
         copied' = Replaced([file |-> c.file, size |-> size, stamp |-> Stamp(ops)], c.short)
  PROVE  FilesInv'
  <1> DEFINE x == [file |-> c.file, size |-> size, stamp |-> Stamp(ops)]
             m == ops + 1
  <1>1. Stays(disk, <<>>, disk, ops, copied, named \cup pending)
    BY IdleStays
  <1>2. m \in Nat /\ m - 1 = ops
    BY <1>1 DEF Stays
  <1>3. x.file = c.file
    OBVIOUS
  <1>4. c.file \in FileNumbers /\ BitOf(c.file) \notin disk[FBmp]
    <2>1. Now.disk = disk
      BY DEF Now
    <2>2. QED  BY <2>1 DEF Copies, Created
  <1>5. /\ \A y \in copied : y.file # c.file
        /\ \A t : DirStays(disk, copied, t) => t.dir # c.file
    BY <1>4, NewFile
  <1>6. ~c.short => CopyStays(disk, u.log, u.disk, m, x)
    BY <1>2, NewStays
  <1> HIDE DEF x, m
  <1>7. Spares(u)
    BY CopySpares
  <1>8. /\ IsLog(u.log) /\ Reaches(disk, u.log, u.disk)
        /\ BitsFirst(disk, u.log, u.disk) /\ OnlyTaken(disk, u.log, u.disk)
        /\ \A y \in copied : CopyStays(disk, u.log, u.disk, m, y)
    BY <1>7, OldStay
  <1>9. copied' \subseteq copied \cup {x} /\ (c.short => copied' \subseteq copied)
    BY DEF Replaced, x
  <1>10. \A y \in copied' : CopyStays(disk, u.log, u.disk, m, y)
    BY <1>6, <1>8, <1>9
  <1>11. \A t \in named' \cup pending' : DirStays(disk, copied', t)
    <2>1. \A t \in named' \cup pending' : DirStays(disk, copied, t)
      BY <1>1 DEF Stays
    <2>2. QED  BY <1>3, <1>5, <1>9, <2>1 DEF DirStays
  <1>12. \A y, z \in copied' : y.file = z.file => y = z
    BY <1>1, <1>3, <1>5, <1>9 DEF Stays
  <1>13. Stays(disk, u.log, u.disk, m, copied', named' \cup pending')
    BY <1>2, <1>8, <1>10, <1>11, <1>12 DEF Stays
  <1>14. disk' = disk /\ todo' = u.log /\ ops' = m
    BY DEF Begin, m
  <1>15. Stays(disk', todo', u.disk, ops', copied', named' \cup pending')
    BY <1>13, <1>14
  <1>16. QED  BY <1>15 DEF FilesInv

LEMMA StampUnits ==
  ASSUME NEW n \in Nat
  PROVE  UnitsIn(Stamp(n), {Root})
  <1>1. Numbers({Root})
    BY DEF Numbers, Root
  <1>2. Letter(n) \in Unit({Root})
    BY <1>1, LetterUnit
  <1>3. QED  BY <1>2 DEF Stamp, UnitsIn

(* The entry of a file that was made.                                      *)
LEMMA MadeEnters ==
  ASSUME CrashInv, FilesInv, Idle, FreeFiles(Now) # {}, NEW size \in Nat,
         NEW dir \in FileNumbers, NEW name \in Seq(Nat \ {0}),
         NEW c, c = create(Now, size, Stamp(ops))
  PROVE  Copies(c, create_entry(c.s, c.file, TRUE, dir, name).s, dir, size, Stamp(ops))
  <1> DEFINE A == {FBmp} \cup Area(Others(disk, c.file), c.file)
             F == Taken(c.s.disk)
  <1>1. /\ Going(Now) /\ NamesIn(disk, Taken(disk)) /\ Now.disk = disk /\ Now.log = <<>>
        /\ Root \in Taken(disk)
    BY NowNames, IdleStays DEF Stays, OnlyTaken
  <1>2. UnitsIn(Stamp(ops), {Root})
    BY IdleStays, StampUnits DEF Stays
  <1>3. Created(Now, c, size, Stamp(ops), {Root})
    BY <1>1, <1>2, CreateSends
  <1>4. /\ c.file \in FileNumbers /\ Going(c.s) /\ Sends(Now, c.s, A, {Root})
        /\ c.s.disk[FBmp] = disk[FBmp] \cup {BitOf(c.file)}
    BY <1>1, <1>3 DEF Created
  <1>5. Taken(disk) \subseteq F /\ c.file \in F
    <2>1. Taken(disk) \subseteq F
      BY <1>4, TakenGrows
    <2>2. c.file \in Nat
      BY <1>4 DEF FileNumbers
    <2>3. QED  BY <1>4, <2>1, <2>2 DEF Taken
  <1>6. Numbers(F)
    BY <1>1, <1>5, NumbersTaken
  <1> HIDE DEF A, F
  <1>7. NamesIn(c.s.disk, F)
    <2>1. Sends(Now, c.s, A, F)
      BY <1>1, <1>4, <1>5, SendsMore
    <2>2. NamesIn(Now.disk, F)
      BY <1>1, <1>5, NamesMore
    <2>3. QED  BY <2>1, <2>2, NamesStay
  <1>8. Enters(c.s, create_entry(c.s, c.file, TRUE, dir, name).s, dir, F)
    BY <1>4, <1>5, <1>6, <1>7, CreateEntrySends
  <1>9. QED  BY <1>3, <1>8 DEF Copies, F

LEMMA CopyFilesStay ==
  ASSUME CrashInv, FilesInv, NEW path \in Paths, NEW size \in Lengths, Copy(path, size)
  PROVE  FilesInv'
  <1> DEFINE stamp == Stamp(ops)
             c == create(Now, size, stamp)
             s == [c.s EXCEPT !.info = c.s.disk[Info]]
             dir == Resolve(s.disk, path).dir
             name == Last(path)
             entry == [dir |-> dir, name |-> name, file |-> c.file]
             contents == [file |-> c.file, size |-> size, stamp |-> stamp]
             e == create_entry(s, c.file, TRUE, dir, name)
  <1>1. /\ Idle /\ dir \in Empty /\ Start(e, dir)
        /\ pending' = IF e.s = s THEN {} ELSE {entry}
        /\ copied' = IF c.made THEN Replaced(contents, c.short) ELSE copied
        /\ named' = named
    BY DEF Copy
  <1>2. size \in Nat /\ name \in Seq(Nat \ {0})
    <2>1. name \in Names
      BY DEF Names
    <2>2. QED  BY <2>1, NameTypes, DirAssumption
  <1>3. Going(c.s)
    BY <1>1, <1>2, NowGoes, CreateGoes
  <1>4. /\ c.made = (FreeFiles(Now) # {})
        /\ ~c.made => c.s = Now /\ c.file = 1
    BY DEF create
  <1>5. entry.dir = dir
    OBVIOUS
  <1>6. pending' \subseteq {entry}
    BY <1>1
  <1>7. contents = [file |-> c.file, size |-> size, stamp |-> Stamp(ops)]
    OBVIOUS
  <1>8. c = create(Now, size, Stamp(ops))
    OBVIOUS
  <1> HIDE DEF c, name, dir, entry, contents
  <1>9. s = c.s
    BY <1>3 DEF Going, Passes
  <1>10. DirStays(disk, copied, entry)
    BY <1>1, <1>5, EmptyStays
  <1>11. dir \in FileNumbers /\ \A y \in copied : y.size > 0 => y.file # dir
    BY <1>5, <1>10 DEF DirStays
  <1>12. e = create_entry(c.s, c.file, TRUE, dir, name)
    BY <1>9
  <1> HIDE DEF s, e
  <1>13. Begin(e.s) /\ ops' = ops + 1
    BY <1>1 DEF Start
  <1>14. CASE c.made
    <2>1. Copies(c, e.s, dir, size, Stamp(ops))
      BY <1>1, <1>2, <1>4, <1>8, <1>11, <1>12, <1>14, MadeEnters
    <2>2. copied' = Replaced([file |-> c.file, size |-> size, stamp |-> Stamp(ops)], c.short)
      BY <1>1, <1>7, <1>14
    <2>3. QED  BY <1>1, <1>2, <1>5, <1>6, <1>10, <1>13, <2>1, <2>2, MadeStays
  <1>15. CASE ~c.made
    <2>1. 1 \in Taken(disk)
      <3>1. FreeFiles(Now) = {} /\ Now.disk = disk
        BY <1>4, <1>15 DEF Now
      <3>2. QED  BY <3>1 DEF FreeFiles, FileNumbers, Taken
    <2>2. Enters(Now, e.s, dir, Taken(disk))
      BY <1>1, <1>2, <1>4, <1>11, <1>12, <1>15, <2>1, NowNames, CreateEntrySends
    <2>3. QED  BY <1>1, <1>6, <1>10, <1>11, <1>13, <1>15, <2>2, EntryStays
  <1>16. QED  BY <1>14, <1>15

(* The volume that mkatufs makes names no file.                            *)
LEMMA InitFilesInv == ASSUME DirInit PROVE FilesInv
  <1> DEFINE d == NewVolume
  <1>1. /\ disk = d /\ todo = <<>> /\ ops = 0
        /\ named = {} /\ pending = {} /\ copied = {}
    BY DEF DirInit, DiskInit
  <1>2. Reaches(d, <<>>, d) /\ IsLog(<<>>) /\ Len(<<>>) = 0
    BY NewIsRestartable, ReachesNowhere
  <1>3. /\ d[FBmp] = {Root}
        /\ \A f \in FileNumbers : d[Inode(f)] = NoInode
        /\ \A c \in ClusterNumbers : d[Data(c)] = <<(<<>>), 0>>
    <2>1. /\ Info[1] # "inode" /\ FBmp[1] # "inode" /\ CBmp[1] # "inode"
          /\ \A f \in FileNumbers : Inode(f)[1] = "inode"
          /\ \A c \in ClusterNumbers : Data(c)[1] # "inode"
      BY DEF Info, FBmp, CBmp, Inode, Data
    <2>2. QED  BY <2>1, AddressesApart DEF NewVolume
  <1>4. Root \in Taken(d)
    <2>1. BitOf(0) = 0
      <3>1. 0 \div ByteBits = 0 /\ 0 % ByteBits = 0
        BY AtufsAssumption
      <3>2. QED  BY <3>1, AtufsAssumption DEF BitOf
    <2> HIDE DEF d
    <2>2. QED  BY <1>3, <2>1 DEF Taken, Root
  <1>5. NamesIn(d, Taken(d))
    <2> DEFINE F == Taken(d)
    <2>1. UnitsIn(<<>>, F)
      BY DEF UnitsIn
    <2>2. NoInode.inline = <<>>
      BY DEF NoInode
    <2> HIDE DEF F, d
    <2>3. ASSUME NEW a \in Addresses PROVE Holds(a, d[a], F)
      BY <1>3, <2>1, <2>2 DEF Holds
    <2>4. QED  BY <2>3 DEF NamesIn, F
  <1> HIDE DEF d
  <1>6. OnlyTaken(d, <<>>, d) /\ BitsFirst(d, <<>>, d)
    BY <1>2, <1>4, <1>5 DEF OnlyTaken, BitsFirst
  <1>7. Stays(d, <<>>, d, 0, {}, {})
    BY <1>2, <1>6 DEF Stays
  <1>8. Stays(disk, todo, d, ops, copied, named \cup pending)
    BY <1>1, <1>7
  <1>9. QED  BY <1>8 DEF FilesInv

(* At any moment, through crashes between any two sectors: the sectors     *)
(* that are still to be written end on a disk where every copy is whole,   *)
(* those of a file are of the running copy, and nothing names the file     *)
(* before they are written; and directories name only files whose bits are *)
(* set, so that no copy gets a file that something names already.          *)
THEOREM FilesStay == DirSpec => []FilesInv
  <1>1. DirInit => FilesInv
    BY InitFilesInv
  <1>2. CrashInv /\ FilesInv /\ [DirNext]_dirVars => FilesInv'
    <2> SUFFICES ASSUME CrashInv, FilesInv, [DirNext]_dirVars PROVE FilesInv'
      OBVIOUS
    <2>1. ASSUME NEW path \in Paths, NEW size \in Lengths, Copy(path, size) PROVE FilesInv'
      BY <2>1, CopyFilesStay
    <2>2. ASSUME NEW dir \in Directories, NEW name \in Names, DeleteEntry(dir, name)
          PROVE  FilesInv'
      BY <2>2, DeleteEntryStays
    <2>3. ASSUME NEW dir \in Directories, NEW old \in Names, NEW new \in Names,
                 RenameEntry(dir, old, new)
          PROVE  FilesInv'
      BY <2>3, RenameEntryStays
    <2>4. CASE Flush
      BY <2>4, FlushStays
    <2>5. CASE Crash
      BY <2>5, CrashStays
    <2>6. CASE UNCHANGED dirVars
      <3>1. UNCHANGED <<disk, todo, ops, copied, named, pending>>
        BY <2>6 DEF dirVars, diskVars, dirHistory
      <3>2. QED  BY <3>1 DEF FilesInv
    <2>7. QED  BY <2>1, <2>2, <2>3, <2>4, <2>5, <2>6 DEF DirNext
  <1>3. QED  BY <1>1, <1>2, EveryDiskRestarts, PTL DEF DirSpec

(* What an entry that can be found names is complete, at every moment.     *)
THEOREM FilesAreComplete == DirSpec => []FilesComplete
  <1>1. FilesInv => FilesComplete
    BY VisibleComplete
  <1>2. QED  BY <1>1, FilesStay, PTL
=============================================================================
