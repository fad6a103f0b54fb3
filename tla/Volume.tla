-------------------------------- MODULE Volume --------------------------------
(***************************************************************************)
(* A disk from the tools to the kernel: mkmbr makes a partition, mkatufs   *)
(* divides it and makes an empty volume (src/tools/mkmbr.c, mkatufs.c),    *)
(* and the driver of module Transfer moves clusters of it.                 *)
(*                                                                         *)
(* Sizes are counted in sectors of 512 bytes. Where the code counts bytes  *)
(* in 32 bits, sectors wrap at ByteWord; counts of 32 bits wrap at Word.   *)
(***************************************************************************)
EXTENDS Transfer

CONSTANTS
    Disks,          \* sizes of the disk
    Boot2Sizes,     \* lengths of the second boot loader
    Asked,          \* lengths asked for a partition, 0 for the rest of the disk
    Media,          \* what the sectors hold before: <<"zero">>, <<"old">>
    FirstLba,       \* 2048: where mkmbr puts a partition
    Boot2Room, Skipped, Journal,    \* 128, 2, 2: areas of a fixed length
    Bits,           \* 4096: bits of a sector
    PerFile,        \* 32: sectors of the volume for each file (16384 bytes)
    ByteWord,       \* 2^23: sectors whose bytes 32 bits can count
    Word,           \* 2^32
    MaxMove,        \* bound: clusters moved by one call
    MaxCalls        \* bound: calls of the driver

ASSUME VolumeAssumption ==
    /\ {Boot2Room, Skipped, Journal, MaxMove, MaxCalls} \subseteq Nat
    /\ {FirstLba, Bits, PerFile, ByteWord, Word} \subseteq Nat \ {0}
    /\ ByteWord + Bits <= Word
    /\ Disks \subseteq Nat \ {0} /\ Boot2Sizes \subseteq Nat /\ Asked \subseteq Nat

(* The bitmaps of the longest disk end before bytes of 32 bits wrap.       *)
ASSUME RoomAssumption ==
    2 + Boot2Room + Skipped + Journal + (ByteWord + Bits) \div Bits + Word \div Bits
        < ByteWord

VARIABLES
    stage,          \* "mkmbr", "mkatufs", "fix", "boot", "mounted"
    secamount,      \* length of the partition
    total,          \* totalbase of fixclusters
    atufsinfo,      \* of the tool, then of the kernel
    boot2size,
    calls,
    medium          \* history: what the whole disk held before

volumeVars == <<stage, secamount, total, atufsinfo, boot2size, calls, medium>>
vars == <<driverVars, volumeVars>>

-----------------------------------------------------------------------------
Sub(a, b) == (a - b) % Word

(* (n + 4095) / 4096                                                       *)
BitmapSectors(n) == ((n + Bits - 1) % Word) \div Bits

(* The length of the partition as mkatufs sees it.                         *)
hdsize == secamount % ByteWord

files == Sub(hdsize \div PerFile, 1)
startbmpfile == 2 + Boot2Room + Skipped
startbmpcluster == startbmpfile + BitmapSectors(files)
Taken == startbmpcluster + Journal + files

(* What is left for the clusters, first less a bitmap for all of it.       *)
Left == LET rest == Sub(hdsize, Taken) IN Sub(rest, BitmapSectors(rest))

(* Mutant of Areas: the bitmap of the clusters is not counted.             *)
AreasNoBitmap(clusters, bitmap) ==
    LET file0 == startbmpcluster + Journal
    IN  [clusters |-> clusters, files |-> files, startbmpfile |-> startbmpfile,
         startbmpcluster |-> startbmpcluster, file0 |-> file0, cluster0 |-> file0 + files]

(* generate_0info, once fixclusters has returned.                          *)
Areas(clusters, bitmap) ==
    LET file0 == (startbmpcluster + bitmap + Journal) % Word
    IN  [clusters |-> clusters, files |-> files, startbmpfile |-> startbmpfile,
         startbmpcluster |-> startbmpcluster, file0 |-> file0,
         cluster0 |-> (file0 + files) % Word]

NoAreas == [clusters |-> 0, files |-> 0, startbmpfile |-> 0, startbmpcluster |-> 0,
            file0 |-> 0, cluster0 |-> 0]

Init ==
    /\ \E disk \in Disks, was \in Media : medium = [a \in 0..(disk - 1) |-> was]
    /\ platter = medium
    /\ buffer = <<>> /\ io = NoIo /\ missed = {} /\ before = NoCall
    /\ stage = "mkmbr"
    /\ secamount = 0 /\ total = 0 /\ atufsinfo = NoAreas
    /\ boot2size \in Boot2Sizes
    /\ calls = 0

-----------------------------------------------------------------------------
(* mkmbr part: the partition begins at FirstLba whatever else there is.    *)
DiskSectors == Cardinality(DOMAIN medium) % ByteWord
MakePartition(asked) ==
    /\ stage = "mkmbr"
    /\ asked = 0 \/ asked < DiskSectors - FirstLba
    /\ secamount' = IF asked = 0 THEN Sub(DiskSectors, FirstLba + 1) ELSE asked
    /\ platter' = [platter EXCEPT ![0] = <<"mbr">>]
    /\ stage' = "mkatufs"
    /\ UNCHANGED <<buffer, io, before, missed, total, atufsinfo, boot2size, calls, medium>>

(* mkatufs part, up to the call of fixclusters.                            *)
Mkatufs ==
    /\ stage = "mkatufs"
    /\ total' = Left
    /\ stage' = "fix"
    /\ UNCHANGED <<driverVars, secamount, atufsinfo, boot2size, calls, medium>>

ClustersOf(n) == Sub(n, BitmapSectors(n))
Fixed == (ClustersOf(total) + BitmapSectors(ClustersOf(total))) % Word = total

(* Mutant of Fix: the loop goes on with what it began with.                *)
FixStuck ==
    /\ stage = "fix" /\ ~Fixed
    /\ total' = ClustersOf(total) + BitmapSectors(total)
    /\ UNCHANGED <<driverVars, stage, secamount, atufsinfo, boot2size, calls, medium>>

(* One round of fixclusters.                                               *)
Fix ==
    /\ stage = "fix" /\ ~Fixed
    /\ total' = ClustersOf(total)
    /\ UNCHANGED <<driverVars, stage, secamount, atufsinfo, boot2size, calls, medium>>

(* A write behind the end of an image makes it longer, with zeros between. *)
Held(image, a) == IF a \in DOMAIN image THEN image[a] ELSE <<"zero">>
WriteAt(image, first, contents) ==
    LET last == first + Len(contents) - 1
    IN  [a \in DOMAIN image \cup 0..last |->
            IF a \in first..last THEN contents[a - first + 1] ELSE Held(image, a)]

(* fixclusters returns, and main writes: the information twice, the second *)
(* boot loader as long as it is, the bit of the root, its inode. The first *)
(* boot loader keeps the information's bytes. Positions are counted in     *)
(* bytes of 32 bits from the start of the partition.                       *)
Format ==
    /\ stage = "fix" /\ Fixed
    /\ LET info == Areas(ClustersOf(total), BitmapSectors(total))
           bit == FirstLba + (info.startbmpfile % ByteWord)
           root == FirstLba + (info.file0 % ByteWord)
           loaded == WriteAt(platter, FirstLba, <<<<"info", info>>, <<"info", info>>>>
                                    \o [p \in 1..boot2size |-> <<"boot2">>])
           marked == WriteAt(loaded, bit, <<<<"root bit", Held(loaded, bit)>>>>)
       IN  /\ atufsinfo' = info
           /\ platter' = WriteAt(marked, root, <<<<"root">>>>)
    /\ stage' = "boot"
    /\ UNCHANGED <<buffer, io, before, missed, secamount, total, boot2size, calls, medium>>

-----------------------------------------------------------------------------
(* The machine starts with this partition (set_partstart).                 *)
Ask(op, lba, contents) ==
    /\ calls < MaxCalls
    /\ calls' = calls + 1
    /\ Request(op, FirstLba + lba, contents)

Empty(n) == [p \in 1..n |-> <<"unset">>]

(* init_atufs asks for the information, ...                                *)
AskInfo ==
    /\ stage = "boot"
    /\ Ask("read", 0, Empty(1))
    /\ UNCHANGED <<stage, secamount, total, atufsinfo, boot2size, medium>>

(* ... and takes what it got: zeros, if the device failed.                 *)
init_atufs ==
    /\ stage = "boot" /\ Return
    /\ atufsinfo' = IF buffer[1] = <<"unset">> THEN NoAreas ELSE buffer[1][2]
    /\ stage' = "mounted"
    /\ UNCHANGED <<secamount, total, boot2size, calls, medium>>

(* Mutant of ClusterLba: the clusters are looked for behind the inodes'    *)
(* start.                                                                  *)
ClusterLbaFile(c) == atufsinfo.file0 + c

ClusterLba(c) == atufsinfo.cluster0 + c

(* The root inode, and clusters of one extent (write_file, read_filedata). *)
Access ==
    /\ stage = "mounted"
    /\ \/ Ask("read", atufsinfo.file0, Empty(1))
       \/ \E c \in 0..(atufsinfo.clusters - 1), n \in 1..MaxMove :
            /\ c + n <= atufsinfo.clusters
            /\ \/ Ask("read", ClusterLba(c), Empty(n))
               \/ Ask("write", ClusterLba(c), [p \in 1..n |-> <<"data", p>>])
    /\ UNCHANGED <<stage, secamount, total, atufsinfo, boot2size, medium>>

Driver ==
    /\ \/ Drive
       \/ stage = "mounted" /\ Return
    /\ UNCHANGED volumeVars

(* The bound on the calls is reached.                                      *)
Done == stage = "mounted" /\ Resting /\ calls = MaxCalls /\ UNCHANGED vars

Next ==
    \/ \E asked \in Asked : MakePartition(asked)
    \/ Mkatufs \/ Fix \/ Format
    \/ AskInfo \/ init_atufs \/ Access \/ Driver
    \/ Done

(* The loop of the tool goes on.                                           *)
Spec == Init /\ [][Next]_vars /\ WF_vars(Fix)

-----------------------------------------------------------------------------
(* The tools were given what they can divide: a disk longer than what      *)
(* mkmbr leaves out, and a partition that holds the areas of a fixed       *)
(* length and at least one file.                                           *)
Sound ==
    /\ DiskSectors > FirstLba
    /\ hdsize >= 2 * PerFile /\ Taken <= hdsize

(* The areas mkatufs computes follow each other inside the partition, the  *)
(* bitmaps have a bit for every file and every cluster, and the root's     *)
(* inode is there (generate_0info, fixclusters).                           *)
AreasApart ==
    stage = "boot" /\ Sound =>
        LET at == atufsinfo
        IN  /\ at.startbmpfile >= 2 + Boot2Room
            /\ at.startbmpfile * Bits + at.files <= at.startbmpcluster * Bits
            /\ (at.startbmpcluster + Journal) * Bits + at.clusters <= at.file0 * Bits
            /\ at.files >= 1 /\ at.file0 + at.files <= at.cluster0
            /\ at.cluster0 + at.clusters <= hdsize
            /\ FirstLba + hdsize <= Cardinality(DOMAIN medium)

(* A sector of a new volume behind the start of the partition.             *)
Expected(info, p) ==
    IF p \in 0..1 THEN <<"info", info>>
    ELSE IF p \in 2..(1 + boot2size) THEN <<"boot2">>
    ELSE IF p = info.startbmpfile THEN <<"root bit", <<"zero">> >>
    ELSE IF p = info.file0 THEN <<"root">> ELSE <<"zero">>

(* A new volume on a zeroed disk, with a second boot loader that fits: at  *)
(* every moment of the kernel's work on clusters, through errors of the    *)
(* device too, both copies of the information and the boot loader are      *)
(* intact, the bitmaps hold the root's bit and no other, the root's inode  *)
(* is there and nothing outside the partition but the first sector was     *)
(* written (mkatufs main, lwrite_sector_part).                             *)
NewVolume ==
    /\ stage \in {"boot", "mounted"} /\ Sound
    /\ boot2size <= Boot2Room + Skipped
    /\ medium[0] = <<"zero">>
    =>
       LET info == Areas(ClustersOf(total), BitmapSectors(total))
       IN  /\ DOMAIN platter = DOMAIN medium
           /\ platter[0] = <<"mbr">>
           /\ \A a \in DOMAIN platter \ {0} :
                LET p == a - FirstLba
                IN  p \in info.cluster0..(info.cluster0 + info.clusters - 1)
                    \/ platter[a] = IF p < 0 THEN <<"zero">> ELSE Expected(info, p)

(* fixclusters comes to an end (its loop has no bound).                    *)
FixEnds == stage = "fix" ~> Fixed
=============================================================================
