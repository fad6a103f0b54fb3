------------------------------ MODULE AtufsDisk -------------------------------
(***************************************************************************)
(* The ATUFS file system (src/lib/atufs.c; src/tools/cpatufs.c carries the *)
(* same functions for the host): the information sector, the bitmaps of    *)
(* files and clusters, one inode sector per file, and the clusters.        *)
(*                                                                         *)
(* An operation reads the disk, changes atufsinfo in memory and writes     *)
(* sectors one after the other. It is computed whole by the operators      *)
(* below, from a state s = [disk, info, log]; log is the list of sectors   *)
(* it writes, and Flush brings them to the disk one by one, so that a      *)
(* crash may come between any two.                                         *)
(*                                                                         *)
(* The bitmap of the clusters has as many sectors as it takes, kept as one *)
(* set of bits: a write of one of its sectors changes the bits of that     *)
(* sector. The bitmap of the files is taken to fit into one sector. The    *)
(* stamp of a write is the buffer, as a sequence; a cluster holds          *)
(* <<stamp, k>>, the k-th part of it. Times and user ids are left out.     *)
(***************************************************************************)
EXTENDS Bitmap, FiniteSets, SequencesExt

CONSTANTS
    Files,          \* files the volume has inodes for
    Clusters,       \* clusters the volume has
    Extents,        \* 61: extents an inode has room for
    ClusterBytes,   \* 512
    SectorBits,     \* 4096: clusters whose bits are in one sector of the bitmap
    InlineMax,      \* 488: the longest contents an inode holds itself
    ByteBits        \* 8: bits of a byte, and the half of a word that is used

ASSUME AtufsAssumption ==
    /\ Files \in Nat \ {0} /\ Clusters \in Nat \ {0} /\ Extents \in Nat \ {0}
    /\ ByteBits \in Nat \ {0} /\ ClusterBytes \in Nat \ {0}
    /\ SectorBits \in Nat \ {0} /\ InlineMax \in 0..ClusterBytes

VARIABLES
    disk,           \* address -> contents of a sector
    info,           \* atufsinfo in memory: files and clusters allocated
    todo            \* sectors the running operation has still to write

diskVars == <<disk, info, todo>>

(* Addresses of sectors. *)
Info == <<"info">>
FBmp == <<"fbmp">>
CBmp == <<"cbmp">>
Inode(f) == <<"inode", f>>
Data(c) == <<"data", c>>
Addresses == {Info, FBmp, CBmp} \cup {Inode(f) : f \in 0..(Files - 1)}
                               \cup {Data(c) : c \in 0..(Clusters - 1)}

NoExtent == [start |-> 0, many |-> 0]
NoExtents == [i \in 1..Extents |-> NoExtent]

(* large: attribute 0x80, which tells the extents from the inline contents *)
(* that share their place. inline: the stamp of the inline contents.       *)
NoInode == [large |-> FALSE, size |-> 0, ext |-> NoExtents, inline |-> <<>>]

Root == 0

(* The bit of file i for alocate_file, which indexes 16-bit words with the *)
(* number of a byte. delete_file looks at bit i.                           *)
BitOf(i) == 2 * ByteBits * (i \div ByteBits) + (i % ByteBits)

(* Clusters that a length fills: (size + 511) >> 9.                        *)
Need(size) == (size + ClusterBytes - 1) \div ClusterBytes

(* The clusters of an extent.                                              *)
Cells(e) == Run(e.start, e.many)

(* mkatufs: an empty root directory, whose bit is set but not counted.     *)
NewVolume == [a \in Addresses |->
    CASE a = Info -> [files |-> 0, clusters |-> 0]
      [] a = FBmp -> {Root}
      [] a = CBmp -> {}
      [] a[1] = "inode" -> NoInode
      [] OTHER -> <<(<<>>), 0>>]

DiskInit ==
    /\ disk = NewVolume
    /\ info = disk[Info]
    /\ todo = <<>>

-----------------------------------------------------------------------------
(* write_sector_part                                                       *)
Write(s, address, contents) ==
    [disk |-> [s.disk EXCEPT ![address] = contents],
     info |-> s.info,
     log  |-> Append(s.log, [at |-> address, is |-> contents])]

(* Some bits of the bitmap have changed; the sectors before the k-th have  *)
(* been written.                                                           *)
SectorOf(c) == c \div SectorBits
Through(old, bits, k) == {c \in bits : SectorOf(c) < k} \cup {c \in old : SectorOf(c) >= k}

(* The loops over the bits write a sector when they come to the next one.  *)
MarkEarly(s, bits, first, last) ==
    LET mark[k \in first..last] ==
            IF k = first THEN s
            ELSE Write(mark[k - 1], CBmp, Through(s.disk[CBmp], bits, k))
    IN  mark[last]

(* Mutant of SetClusters: atufsinfo is not written.                        *)
SetClustersUncounted(s, count, bits, first, last) ==
    Write(MarkEarly([s EXCEPT !.info.clusters = count], bits, first, last), CBmp, bits)

(* Both bitmap operations write atufsinfo before the last sector of the    *)
(* bitmap they come to, and after those they have passed.                  *)
SetClusters(s, count, bits, first, last) ==
    LET t == MarkEarly([s EXCEPT !.info.clusters = count], bits, first, last)
    IN  Write(Write(t, Info, t.info), CBmp, bits)

(* Mutant of clear_clusters: the count stays.                              *)
clear_clustersUncounted(s, e) ==
    IF e.many = 0 \/ s.info.clusters < e.many THEN s
    ELSE SetClusters(s, s.info.clusters, mark_false(s.disk[CBmp], e.start, e.many),
                     SectorOf(e.start), SectorOf(e.start + e.many - 1))

clear_clusters(s, e) ==
    IF e.many = 0 \/ s.info.clusters < e.many THEN s
    ELSE SetClusters(s, s.info.clusters - e.many,
                     mark_false(s.disk[CBmp], e.start, e.many),
                     SectorOf(e.start), SectorOf(e.start + e.many - 1))

(* The slots of an extent list from one to another, in order.              *)
ClearSlots(s, ext, from, to) ==
    LET clear[i \in (from - 1)..to] ==
            IF i < from THEN s ELSE clear_clusters(clear[i - 1], ext[i])
    IN  clear[to]

(* Mutant of FreeRun: the volume has one cluster too many.                 *)
FreeRunPastEnd(s, amount) ==
    LET free == (0..Clusters) \ s.disk[CBmp]
        first == IF free = {} THEN 0 ELSE Min(free)
    IN  [start |-> first,
         many  |-> Max({n \in 0..amount : Run(first, n) \subseteq free})]

(* The first run of free clusters, up to amount of them.                   *)
FreeRun(s, amount) ==
    LET free == (0..(Clusters - 1)) \ s.disk[CBmp]
        first == IF free = {} THEN 0 ELSE Min(free)
    IN  [start |-> first,
         many  |-> Max({n \in 0..amount : Run(first, n) \subseteq free})]

(* The last sector looked at: that of the end of the volume, of the end of *)
(* a whole run, or of the used cluster that ends a shorter one.            *)
LastLooked(e, amount) ==
    SectorOf(IF e.many = 0 \/ e.start + e.many = Clusters THEN Clusters - 1
             ELSE IF e.many = amount THEN e.start + e.many - 1
             ELSE e.start + e.many)

(* Mutant of alocate_clusters: the bitmap is not written back.             *)
alocate_clustersForgets(s, amount) ==
    LET take(e) == [s |-> SetClusters(s, s.info.clusters + e.many, s.disk[CBmp],
                                      0, LastLooked(e, amount)),
                    e |-> e]
    IN  take(FreeRun(s, amount))

(* For an amount of one at least.                                          *)
alocate_clusters(s, amount) ==
    LET take(e) == [s |-> SetClusters(s, s.info.clusters + e.many,
                                      mark_true(s.disk[CBmp], e.start, e.many),
                                      0, LastLooked(e, amount)),
                    e |-> e]
    IN  take(FreeRun(s, amount))

(* lwrite_sector_part: n clusters from first on, from the buffer, of which *)
(* parts have been written before.                                         *)
WriteData(s, first, n, stamp, parts) ==
    LET part(c) == <<stamp, parts + c - first + 1>>
    IN  [disk |-> [a \in DOMAIN s.disk |->
                      IF a[1] = "data" /\ a[2] \in Run(first, n) THEN part(a[2]) ELSE s.disk[a]],
         info |-> s.info,
         log  |-> s.log \o [k \in 1..n |->
                      [at |-> Data(first + k - 1), is |-> part(first + k - 1)]]]

-----------------------------------------------------------------------------
(* Mutant of Store: the buffer is not advanced.                            *)
StoreSameParts(w, s, i, e, n, stamp) ==
    [w EXCEPT !.s = WriteData(s, e.start, n, stamp, w.parts),
              !.ext[i] = [start |-> e.start, many |-> n],
              !.left = @ - n]

(* One slot of the extent list in write_file, when the number of clusters  *)
(* changes. w: the state, the extents, the clusters left, the parts of the *)
(* buffer written, and whether the loop goes on, broke or ran out.         *)
Store(w, s, i, e, n, stamp) ==
    [w EXCEPT !.s = WriteData(s, e.start, n, stamp, w.parts),
              !.ext[i] = [start |-> e.start, many |-> n],
              !.left = @ - n, !.parts = @ + n]

StoreNew(w, i, stamp) ==
    LET store(a) == IF a.e.many = 0 THEN [w EXCEPT !.s = a.s, !.loop = "full"]
                                    ELSE Store(w, a.s, i, a.e, a.e.many, stamp)
    IN  store(alocate_clusters(w.s, w.left))

(* The slot has more clusters than are left: its tail and all later slots  *)
(* are cleared before the rest is written.                                 *)
StoreLast(w, i, stamp) ==
    LET e == w.ext[i]
        tail == [start |-> e.start + w.left, many |-> e.many - w.left]
        s == ClearSlots(clear_clusters(w.s, tail), w.ext, i + 1, Extents)
        cut == [w EXCEPT !.ext = [j \in 1..Extents |-> IF j > i THEN NoExtent ELSE @[j]]]
    IN  [Store(cut, s, i, e, w.left, stamp) EXCEPT !.loop = "break"]

Slot(w, i, stamp) ==
    LET e == w.ext[i]
        again == Store(w, w.s, i, e, e.many, stamp)
    IN  IF w.loop # "on" THEN w
        ELSE CASE w.left = 0 /\ e.many = 0 -> [w EXCEPT !.loop = "break"]
               [] w.left = 0 /\ e.many > 0 -> [w EXCEPT !.s = clear_clusters(w.s, e),
                                                       !.ext[i] = NoExtent]
               [] w.left > 0 /\ e.many = 0 -> StoreNew(w, i, stamp)
               [] 0 < e.many /\ e.many < w.left -> again
               [] 0 < e.many /\ e.many = w.left -> [again EXCEPT !.loop = "break"]
               [] 0 < w.left /\ w.left < e.many -> StoreLast(w, i, stamp)

Resize(s, ext, clusters, stamp) ==
    LET start == [s |-> s, ext |-> ext, left |-> clusters, parts |-> 0, loop |-> "on"]
        work[i \in 0..Extents] == IF i = 0 THEN start ELSE Slot(work[i - 1], i, stamp)
    IN  work[Extents]

(* The number of extents before the first empty slot.                      *)
Leading(ext) == Max({n \in 0..Extents : \A i \in 1..n : ext[i].many > 0})

(* The number of clusters stays: every extent is written from the start of *)
(* the buffer.                                                             *)
Rewrite(s, ext, stamp) ==
    LET write[i \in 0..Leading(ext)] ==
            IF i = 0 THEN s ELSE WriteData(write[i - 1], ext[i].start, ext[i].many, stamp, 0)
    IN  write[Leading(ext)]

SameNeed(inode, size) == size > InlineMax /\ Need(size) = Need(inode.size)

(* short: the loop ended with clusters left. When it ran out of them, the  *)
(* inode is not written.                                                   *)
write_file(s, f, inode, size, stamp) ==
    LET ext == IF inode.large THEN inode.ext ELSE NoExtents
        large(e) == [large |-> TRUE, size |-> size, ext |-> e, inline |-> <<>>]
        small == [large |-> FALSE, size |-> size, ext |-> NoExtents, inline |-> stamp]
        resized(w) ==
            [s |-> IF w.loop = "full" THEN w.s ELSE Write(w.s, Inode(f), large(w.ext)),
             short |-> w.left > 0]
    IN  CASE size <= InlineMax ->
               [s |-> Write(ClearSlots(s, ext, 1, Extents), Inode(f), small), short |-> FALSE]
          [] SameNeed(inode, size) ->
               [s |-> Write(Rewrite(s, ext, stamp), Inode(f), large(ext)), short |-> FALSE]
          [] OTHER -> resized(Resize(s, ext, Need(size), stamp))

(* Both file bitmap operations write the bitmap first, atufsinfo after it. *)
SetFiles(s, count, bits) ==
    LET t == Write([s EXCEPT !.info.files = count], FBmp, bits)
    IN  Write(t, Info, t.info)

FreeFiles(s) == {i \in 0..(Files - 1) : BitOf(i) \notin s.disk[FBmp]}

(* Mutant of alocate_file: the bitmap is not written back.                 *)
alocate_fileForgets(s) ==
    LET i == Min(FreeFiles(s))
    IN  [s |-> SetFiles(s, s.info.files + 1, s.disk[FBmp]), file |-> i]

(* For a volume with a free file.                                          *)
alocate_file(s) ==
    LET i == Min(FreeFiles(s))
    IN  [s |-> SetFiles(s, s.info.files + 1, s.disk[FBmp] \cup {BitOf(i)}), file |-> i]

(* Mutant of delete_file: the extents are not looked at.                   *)
delete_fileLeaks(s, f) ==
    Write(SetFiles(s, s.info.files - 1, s.disk[FBmp] \ {f}), Inode(f), NoInode)

(* The inode is zeroed last. Its size tells whether it has extents.        *)
delete_file(s, f) ==
    LET t == SetFiles(s, s.info.files - 1, s.disk[FBmp] \ {f})
        inode == t.disk[Inode(f)]
        u == IF inode.size > InlineMax THEN ClearSlots(t, inode.ext, 1, Leading(inode.ext)) ELSE t
    IN  Write(u, Inode(f), NoInode)

(* create_file: writes to an inode of no size, whose attribute has been    *)
(* set. Without a free file it returns 1 and writes nothing.               *)
create(s, size, stamp) ==
    LET fresh == [NoInode EXCEPT !.large = size > InlineMax]
        made(w, f) == [s |-> w.s, file |-> f, made |-> TRUE, short |-> w.short]
        write(a) == made(write_file(a.s, a.file, fresh, size, stamp), a.file)
    IN  IF FreeFiles(s) = {} THEN [s |-> s, file |-> 1, made |-> FALSE, short |-> FALSE]
        ELSE write(alocate_file(s))

-----------------------------------------------------------------------------
Idle == todo = <<>>
Now == [disk |-> disk, info |-> info, log |-> <<>>]

(* An operation has been computed; its sectors are still to be written.    *)
Begin(s) ==
    /\ info' = s.info
    /\ todo' = s.log
    /\ UNCHANGED disk

(* The next sector reaches the disk.                                       *)
FlushSector ==
    /\ ~Idle
    /\ disk' = [disk EXCEPT ![Head(todo).at] = Head(todo).is]
    /\ todo' = Tail(todo)
    /\ UNCHANGED info

-----------------------------------------------------------------------------
(* What read_filedata reads: a list of parts.                              *)
ContentsOn(d, inode) ==
    IF inode.large
    THEN LET all == FlattenSeq([i \in 1..Leading(inode.ext) |->
                        [k \in 1..inode.ext[i].many |-> d[Data(inode.ext[i].start + k - 1)]]])
         IN  SubSeq(all, 1, Min({Need(inode.size), Len(all)}))
    ELSE << <<inode.inline, 0>> >>
Reads(f) == ContentsOn(disk, disk[Inode(f)])

(* What was written.                                                       *)
Intended(size, stamp) ==
    IF size <= InlineMax THEN << <<stamp, 0>> >> ELSE [k \in 1..Need(size) |-> <<stamp, k>>]

Slotted == (0..(Files - 1)) \X (1..Extents)
CellsOf(x) == Cells(disk[Inode(x[1])].ext[x[2]])
Referenced == UNION {CellsOf(x) : x \in Slotted}

(* No cluster is in two extents, of one file or of two.                    *)
NoneShared == \A x, y \in Slotted : x # y => CellsOf(x) \cap CellsOf(y) = {}

(* A cluster in an extent is marked, so that no one else is given it.      *)
AllMarked == Referenced \subseteq disk[CBmp]
=============================================================================
