----------------------------- MODULE VolumeProofs -----------------------------
(***************************************************************************)
(* The areas of a new volume do not overlap and lie inside the partition,  *)
(* the driver moves every sector to its place, and so a new volume stays   *)
(* what it was made but for its clusters: for every disk, every length     *)
(* asked for and every size of the areas.                                  *)
(***************************************************************************)
EXTENDS Volume, FiniteSetTheorems, SequenceTheorems, TLAPS

(* A quotient that was rounded up, times its divisor, is not too short,    *)
(* and it is no longer than what was divided.                              *)
LEMMA RoundedUp ==
    ASSUME NEW n \in Nat, NEW d \in Nat \ {0}
    PROVE  /\ (n + d - 1) \div d \in 0..n
           /\ n <= ((n + d - 1) \div d) * d
<1> DEFINE q == (n + d - 1) \div d
           r == (n + d - 1) % d
<1>1. q \in Nat /\ r \in 0..(d - 1) /\ n + d - 1 = d * q + r
  OBVIOUS
<1>2. d * q = q * d /\ q * d \in Nat
  BY <1>1
<1>3. n <= q * d
  BY <1>1, <1>2
<1>4. q <= n
  <2>1. SUFFICES ASSUME q >= n + 1 PROVE FALSE
    BY <1>1
  <2>2. q * d >= (n + 1) * d
    BY <1>1, <2>1
  <2>3. (n + 1) * d = n * d + d /\ n * d >= n /\ n * d \in Nat
    OBVIOUS
  <2>4. QED  BY <1>1, <1>2, <2>2, <2>3
<1>5. QED  BY <1>1, <1>3, <1>4

LEMMA RoundedDown ==
    ASSUME NEW x \in Nat, NEW d \in Nat \ {0}
    PROVE  /\ x \div d \in 0..x
           /\ 2 * d <= x => x \div d >= 2
<1> DEFINE q == x \div d
           r == x % d
<1>1. q \in Nat /\ r \in 0..(d - 1) /\ x = d * q + r
  OBVIOUS
<1>2. d * q >= q /\ d * q \in Nat
  BY <1>1
<1>3. q \in 0..1 => d * q <= d
  OBVIOUS
<1>4. QED  BY <1>1, <1>2, <1>3

LEMMA NoWrap == ASSUME NEW x \in 0..(Word - 1) PROVE x % Word = x
  BY VolumeAssumption

(* Below ByteWord nothing wraps.                                           *)
LEMMA SmallSub ==
    ASSUME NEW a \in 0..(ByteWord - 1), NEW b \in 0..a
    PROVE  Sub(a, b) = a - b
  BY VolumeAssumption DEF Sub

LEMMA SmallBitmap ==
    ASSUME NEW n \in 0..(ByteWord - 1)
    PROVE  /\ BitmapSectors(n) \in 0..n
           /\ n <= BitmapSectors(n) * Bits
<1>1. (n + Bits - 1) % Word = n + Bits - 1
  BY VolumeAssumption
<1>2. BitmapSectors(n) = (n + Bits - 1) \div Bits
  BY <1>1 DEF BitmapSectors
<1>3. QED  BY <1>2, RoundedUp, VolumeAssumption

LEMMA SmallClusters ==
    ASSUME NEW n \in 0..(ByteWord - 1)
    PROVE  ClustersOf(n) = n - BitmapSectors(n) /\ ClustersOf(n) \in 0..n
  BY SmallSub, SmallBitmap, VolumeAssumption DEF ClustersOf

(* The lengths mkatufs works with.                                         *)
LEMMA Lengths ==
    ASSUME secamount \in Nat, Sound
    PROVE  /\ hdsize \in 0..(ByteWord - 1) /\ hdsize <= secamount
           /\ files \in 1..hdsize
           /\ startbmpfile \in Nat /\ startbmpfile = 2 + Boot2Room + Skipped
           /\ startbmpcluster = startbmpfile + BitmapSectors(files)
           /\ Taken = startbmpcluster + Journal + files
           /\ Taken \in 0..hdsize
           /\ Left \in 0..(hdsize - Taken)
<1>1. hdsize \in 0..(ByteWord - 1) /\ hdsize <= secamount
  BY VolumeAssumption DEF hdsize
<1>2. files \in 1..hdsize
  <2>1. hdsize \div PerFile \in 2..hdsize
    BY <1>1, RoundedDown, VolumeAssumption DEF Sound
  <2>2. files = hdsize \div PerFile - 1
    <3>1. 1 \in 0..(hdsize \div PerFile) /\ hdsize \div PerFile \in 0..(ByteWord - 1)
      BY <1>1, <2>1, VolumeAssumption
    <3>2. QED  BY <3>1, SmallSub DEF files
  <2>3. QED  BY <1>1, <2>1, <2>2, VolumeAssumption
<1>3. BitmapSectors(files) \in Nat
  <2>1. files \in 0..(ByteWord - 1)
    BY <1>1, <1>2, VolumeAssumption
  <2>2. QED  BY <2>1, SmallBitmap
<1>4. startbmpfile \in Nat /\ Taken \in Nat /\ Taken <= hdsize
  BY <1>1, <1>2, <1>3, VolumeAssumption DEF startbmpfile, startbmpcluster, Taken, Sound
<1>5. Left \in 0..(hdsize - Taken)
  <2>1. Sub(hdsize, Taken) = hdsize - Taken
    BY <1>1, <1>4, SmallSub
  <2>2. hdsize - Taken \in 0..(ByteWord - 1)
    BY <1>1, <1>4, VolumeAssumption
  <2>3. QED  BY <2>1, <2>2, SmallClusters DEF Left, ClustersOf
<1>6. QED  BY <1>1, <1>2, <1>4, <1>5 DEF startbmpfile, startbmpcluster, Taken

(* Whatever fixclusters comes down to from what is left, the areas fit.    *)
Fit(at) ==
    /\ at.startbmpfile >= 2 + Boot2Room
    /\ at.startbmpfile * Bits + at.files <= at.startbmpcluster * Bits
    /\ (at.startbmpcluster + Journal) * Bits + at.clusters <= at.file0 * Bits
    /\ at.files >= 1 /\ at.file0 + at.files <= at.cluster0
    /\ at.cluster0 + at.clusters <= hdsize

LEMMA AreasFit ==
    ASSUME secamount \in Nat, Sound, NEW n \in 0..Left
    PROVE  Fit(Areas(ClustersOf(n), BitmapSectors(n)))
<1> DEFINE at == Areas(ClustersOf(n), BitmapSectors(n))
           b == BitmapSectors(n)
           bf == BitmapSectors(files)
<1>1. /\ hdsize \in 0..(ByteWord - 1)
      /\ files \in 1..hdsize
      /\ startbmpfile \in Nat /\ startbmpfile = 2 + Boot2Room + Skipped
      /\ startbmpcluster = startbmpfile + bf
      /\ Taken = startbmpcluster + Journal + files
      /\ Taken \in 0..hdsize
      /\ Left \in 0..(hdsize - Taken)
  BY Lengths
<1>2. n \in 0..(ByteWord - 1) /\ files \in 0..(ByteWord - 1)
  BY <1>1, VolumeAssumption
<1>3. bf \in Nat /\ files <= bf * Bits
  BY <1>2, SmallBitmap
<1>4. b \in 0..n /\ n <= b * Bits /\ ClustersOf(n) = n - b
  BY <1>2, SmallBitmap, SmallClusters
<1>5. /\ at.file0 = startbmpcluster + b + Journal
      /\ at.cluster0 = startbmpcluster + b + Journal + files
  <2>1. startbmpcluster + b + Journal + files \in 0..hdsize /\ hdsize < Word
    BY <1>1, <1>3, <1>4, VolumeAssumption
  <2>2. /\ startbmpcluster + b + Journal \in 0..(Word - 1)
        /\ startbmpcluster + b + Journal + files \in 0..(Word - 1)
    BY <1>1, <1>3, <1>4, <2>1, VolumeAssumption
  <2>3. /\ (startbmpcluster + b + Journal) % Word = startbmpcluster + b + Journal
        /\ (startbmpcluster + b + Journal + files) % Word = startbmpcluster + b + Journal + files
    BY <2>2, NoWrap
  <2>4. QED  BY <2>3 DEF Areas
<1>6. /\ at.clusters = n - b /\ at.files = files
      /\ at.startbmpfile = startbmpfile /\ at.startbmpcluster = startbmpcluster
  BY <1>4 DEF Areas
<1>7. startbmpfile * Bits + files <= startbmpcluster * Bits
  <2>1. (startbmpfile + bf) * Bits = startbmpfile * Bits + bf * Bits
    BY <1>1, <1>3, VolumeAssumption
  <2>2. startbmpfile * Bits \in Nat /\ bf * Bits \in Nat
    BY <1>1, <1>3, VolumeAssumption
  <2>3. QED  BY <1>1, <1>3, <2>1, <2>2
<1>8. (startbmpcluster + Journal) * Bits + (n - b) <= at.file0 * Bits
  <2> DEFINE x == startbmpcluster + Journal
  <2>1. x \in Nat /\ at.file0 = x + b
    BY <1>1, <1>3, <1>4, <1>5, VolumeAssumption
  <2>2. (x + b) * Bits = x * Bits + b * Bits /\ x * Bits \in Nat /\ b * Bits \in Nat
    BY <1>4, <2>1, VolumeAssumption
  <2>3. QED  BY <1>4, <2>1, <2>2
<1>9. QED
  BY <1>1, <1>3, <1>4, <1>5, <1>6, <1>7, <1>8, VolumeAssumption DEF Fit

-----------------------------------------------------------------------------
(* The partition lies on the disk, and fixclusters only ever comes down    *)
(* from what is left.                                                      *)
VInv ==
    /\ secamount \in Nat
    /\ Cardinality(DOMAIN medium) \in Nat
    /\ stage # "mkmbr" /\ DiskSectors > FirstLba
            => FirstLba + secamount <= Cardinality(DOMAIN medium)
    /\ stage = "fix" /\ Sound => total \in 0..Left
    /\ AreasApart

LEMMA VInvInit == Init => VInv
<1> SUFFICES ASSUME Init PROVE VInv
  OBVIOUS
<1>1. PICK disk \in Disks, was \in Media : medium = [a \in 0..(disk - 1) |-> was]
  BY DEF Init
<1>2. disk \in Nat /\ DOMAIN medium = 0..(disk - 1)
  BY <1>1, VolumeAssumption
<1>3. Cardinality(DOMAIN medium) \in Nat
  BY <1>2, FS_Interval, FS_CardinalityType
<1>4. QED  BY <1>3 DEF Init, VInv, AreasApart

(* A step of the driver and of what runs on it.                            *)
LEMMA Kept ==
    ASSUME VInv, UNCHANGED <<secamount, total, medium>>,
           UNCHANGED <<stage, atufsinfo>> \/ stage' = "mounted",
           stage # "mkmbr" \/ stage' = stage
    PROVE  VInv'
<1>1. hdsize' = hdsize /\ DiskSectors' = DiskSectors /\ files' = files
  BY DEF hdsize, DiskSectors, files
<1>2. Taken' = Taken
  BY <1>1 DEF Taken, startbmpcluster
<1>3. Left' = Left /\ Sound' = Sound
  BY <1>1, <1>2 DEF Left, Sound
<1>4. QED  BY <1>1, <1>3 DEF VInv, AreasApart

LEMMA VInvStep == VInv /\ [Next]_vars => VInv'
<1> SUFFICES ASSUME VInv, [Next]_vars PROVE VInv'
  OBVIOUS
<1> USE DEF VInv
<1>1. ASSUME NEW asked \in Asked, MakePartition(asked) PROVE VInv'
  <2>1. /\ stage' = "mkatufs" /\ medium' = medium
        /\ asked = 0 \/ asked < DiskSectors - FirstLba
        /\ secamount' = IF asked = 0 THEN Sub(DiskSectors, FirstLba + 1) ELSE asked
    BY <1>1 DEF MakePartition
  <2>2. DiskSectors' = DiskSectors /\ DiskSectors \in 0..(ByteWord - 1)
        /\ DiskSectors <= Cardinality(DOMAIN medium)
    BY <2>1, VolumeAssumption DEF DiskSectors
  <2>3. secamount' \in Nat
    BY <2>1, <2>2, VolumeAssumption DEF Sub
  <2>4. DiskSectors > FirstLba => FirstLba + secamount' <= Cardinality(DOMAIN medium)
    <3>1. SUFFICES ASSUME DiskSectors > FirstLba PROVE FirstLba + secamount' <= DiskSectors
      BY <2>2, <2>3, VolumeAssumption
    <3>2. FirstLba + 1 \in 0..DiskSectors
      BY <2>2, <3>1, VolumeAssumption
    <3>3. CASE asked = 0
      BY <2>1, <2>2, <3>2, <3>3, SmallSub, VolumeAssumption
    <3>4. CASE asked # 0
      BY <2>1, <2>2, <3>4, VolumeAssumption
    <3>5. QED  BY <3>3, <3>4
  <2>5. QED  BY <2>1, <2>2, <2>3, <2>4 DEF AreasApart
<1>2. CASE Mkatufs
  <2>1. /\ stage = "mkatufs" /\ stage' = "fix" /\ total' = Left
        /\ secamount' = secamount /\ medium' = medium
    BY <1>2 DEF Mkatufs
  <2>2. Left' = Left /\ Sound' = Sound /\ DiskSectors' = DiskSectors
    BY <2>1 DEF Left, Sound, Taken, startbmpcluster, files, hdsize, DiskSectors
  <2>3. Sound => Left \in 0..Left
    BY Lengths
  <2>4. QED  BY <2>1, <2>2, <2>3 DEF AreasApart
<1>3. CASE Fix
  <2>1. /\ stage = "fix" /\ stage' = stage /\ total' = ClustersOf(total)
        /\ secamount' = secamount /\ medium' = medium
    BY <1>3 DEF Fix
  <2>2. Left' = Left /\ Sound' = Sound /\ DiskSectors' = DiskSectors
    BY <2>1 DEF Left, Sound, Taken, startbmpcluster, files, hdsize, DiskSectors
  <2>3. Sound => total' \in 0..Left
    <3>1. SUFFICES ASSUME Sound PROVE total' \in 0..Left
      OBVIOUS
    <3>2. total \in 0..Left /\ total \in 0..(ByteWord - 1) /\ Left \in Nat
      BY <2>1, <3>1, Lengths, VolumeAssumption
    <3>3. QED  BY <2>1, <3>2, SmallClusters
  <2>4. QED  BY <2>1, <2>2, <2>3 DEF AreasApart
<1>4. CASE Format
  <2>1. /\ stage = "fix" /\ stage' = "boot"
        /\ atufsinfo' = Areas(ClustersOf(total), BitmapSectors(total))
        /\ secamount' = secamount /\ medium' = medium
    BY <1>4 DEF Format
  <2>2. hdsize' = hdsize /\ Sound' = Sound /\ DiskSectors' = DiskSectors
    BY <2>1 DEF Sound, Taken, startbmpcluster, files, hdsize, DiskSectors
  <2>3. Sound => Fit(atufsinfo') /\ FirstLba + hdsize <= Cardinality(DOMAIN medium)
    <3>1. SUFFICES ASSUME Sound
                   PROVE  Fit(atufsinfo') /\ FirstLba + hdsize <= Cardinality(DOMAIN medium)
      OBVIOUS
    <3>2. Fit(atufsinfo')
      BY <2>1, <3>1, AreasFit
    <3>3. FirstLba + secamount <= Cardinality(DOMAIN medium) /\ hdsize <= secamount
      BY <2>1, <3>1, Lengths DEF Sound
    <3>4. hdsize \in Nat
      BY <3>1, Lengths
    <3>5. QED  BY <3>2, <3>3, <3>4, VolumeAssumption
  <2>4. QED  BY <2>1, <2>2, <2>3 DEF AreasApart, Fit
<1>5. CASE AskInfo \/ Access \/ Driver
  BY <1>5, Kept DEF AskInfo, Access, Driver, volumeVars
<1>6. CASE init_atufs
  BY <1>6, Kept DEF init_atufs
<1>7. CASE Done \/ UNCHANGED vars
  BY <1>7, Kept DEF Done, vars, volumeVars
<1>8. QED
  BY <1>1, <1>2, <1>3, <1>4, <1>5, <1>6, <1>7 DEF Next

(* On every partition that is long enough for the fixed areas and a file,  *)
(* the areas mkatufs computes (mkatufs.c 82-98, 112-128) follow each other *)
(* inside it, and the bitmaps have a bit for everything.                   *)
THEOREM AreasFollow == Spec => []AreasApart
<1>1. VInv => AreasApart
  BY DEF VInv
<1>2. QED  BY VInvInit, VInvStep, <1>1, PTL DEF Spec

-----------------------------------------------------------------------------
(* The driver. A call is typed, stays inside what was asked for, and has   *)
(* moved what Placed says; errors have skipped only what is behind.        *)
Io == [op : {"none", "read", "write"}, lba : Nat, sectors : Nat,
       pos : Nat, count : Nat, s : Nat]

InCall ==
    /\ Resting => io = NoIo
    /\ io.pos + io.count <= io.sectors
    /\ io.count > 0 => io.s < io.count
    /\ io.count = 0 => io.s = 0
    /\ missed \subseteq 0..(io.pos - 1)

DriverInv ==
    /\ platter = [a \in DOMAIN platter |-> platter[a]] /\ DOMAIN platter \subseteq Nat
    /\ io \in Io
    /\ InCall
    /\ io.op = "read" => platter = before.platter
    /\ io.op = "write" => buffer = before.buffer
    /\ Placed

LEMMA CountInside ==
    ASSUME NEW left \in Nat \ {0}
    PROVE  CommandCount(left) \in 1..left
<1>1. CASE left >= Chunk
  BY <1>1, TransferAssumption DEF CommandCount
<1>2. CASE left < Chunk
  <2>1. left % Chunk = left
    BY <1>2, TransferAssumption
  <2>2. QED  BY <1>2, <2>1, TransferAssumption DEF CommandCount
<1>3. QED  BY <1>1, <1>2, TransferAssumption

LEMMA AdvancedIo ==
    ASSUME io \in Io
    PROVE  /\ Advanced \in Io /\ Advanced.pos = io.pos + io.count
           /\ Advanced.count = 0 /\ Advanced.s = 0 /\ Advanced.op = io.op
           /\ Advanced.lba = io.lba /\ Advanced.sectors = io.sectors
<1>1. PICK p \in Nat : p = io.pos + io.count
  BY DEF Io
<1>2. Advanced = [io EXCEPT !.pos = p, !.count = 0, !.s = 0]
  BY <1>1 DEF Advanced
<1>3. QED  BY <1>1, <1>2 DEF Io

LEMMA CommandPlaces == DriverInv /\ Command => DriverInv'
<1> SUFFICES ASSUME DriverInv, Command PROVE DriverInv'
  OBVIOUS
<1> DEFINE c == CommandCount(io.sectors - io.pos)
<1>1. /\ io' = [io EXCEPT !.count = c, !.s = 0] /\ io.count = 0 /\ ~Resting
      /\ UNCHANGED <<platter, buffer, before, missed>> /\ io.pos < io.sectors
  BY DEF Command, Between
<1>2. c \in 1..(io.sectors - io.pos)
  <2>1. io.sectors - io.pos \in Nat \ {0}
    BY <1>1 DEF DriverInv, Io
  <2>2. QED  BY <2>1, CountInside
<1> HIDE DEF c
<1>3. io' \in Io
  <2>1. io \in Io /\ c \in Nat
    BY <1>1, <1>2 DEF DriverInv, Io
  <2>2. QED  BY <1>1, <2>1 DEF Io
<1>4. InCall'
  BY <1>1, <1>2 DEF DriverInv, InCall, Io, Resting
<1>5. /\ io'.op = io.op /\ io'.lba = io.lba /\ io'.sectors = io.sectors /\ io'.pos = io.pos
      /\ io'.s = io.s
  BY <1>1 DEF DriverInv, Io, InCall
<1>6. Placed'
  BY <1>1, <1>5 DEF DriverInv, Placed, Moved
<1>7. QED
  BY <1>1, <1>3, <1>4, <1>5, <1>6 DEF DriverInv

(* One sector passes: the one at pos + s.                                  *)
LEMMA SectorAdvances ==
    ASSUME DriverInv, Sector
    PROVE  /\ io' \in Io /\ InCall'
           /\ io'.op = io.op /\ io'.lba = io.lba /\ io'.sectors = io.sectors
           /\ io'.pos + io'.s = io.pos + io.s + 1
           /\ io.pos + io.s \in 0..(io.sectors - 1) /\ io.pos + io.s \notin missed
           /\ UNCHANGED <<before, missed>>
           /\ io.lba + io.pos + io.s \in DOMAIN platter /\ io.op # "none"
<1>1. /\ io.count > 0 /\ io.lba + io.pos + io.s \in DOMAIN platter
      /\ io' = IF io.s + 1 = io.count THEN Advanced ELSE [io EXCEPT !.s = @ + 1]
      /\ UNCHANGED <<before, missed>>
  BY DEF Sector
<1>2. /\ io \in Io /\ io.pos + io.count <= io.sectors /\ io.s < io.count
      /\ missed \subseteq 0..(io.pos - 1) /\ ~Resting
  BY <1>1 DEF DriverInv, InCall, NoIo
<1>3. CASE io.s + 1 = io.count
  <2>1. io' = Advanced
    BY <1>1, <1>3
  <2>2. io' \in Io /\ io'.pos = io.pos + io.count /\ io'.count = 0 /\ io'.s = 0
        /\ io'.op = io.op /\ io'.lba = io.lba /\ io'.sectors = io.sectors
    BY <1>2, <2>1, AdvancedIo
  <2>3. io.pos - 1 <= io'.pos - 1 /\ io'.pos + io'.count <= io.sectors
    BY <1>2, <2>2 DEF Io
  <2>4. missed \subseteq 0..(io'.pos - 1)
    BY <1>2, <2>2, <2>3 DEF Io
  <2>5. InCall'
    BY <1>1, <1>2, <2>2, <2>3, <2>4 DEF InCall, Resting
  <2>6. /\ io'.pos + io'.s = io.pos + io.s + 1
        /\ io.pos + io.s \in 0..(io.sectors - 1) /\ io.pos + io.s \notin missed
    BY <1>2, <1>3, <2>2 DEF Io
  <2>7. io.op # "none"
    BY <1>2 DEF Resting
  <2>8. QED  BY <1>1, <2>2, <2>5, <2>6, <2>7
<1>4. CASE io.s + 1 # io.count
  <2>1. io' = [io EXCEPT !.s = @ + 1]
    BY <1>1, <1>4
  <2>2. QED  BY <1>1, <1>2, <1>4, <2>1 DEF Io, InCall, Resting
<1>5. QED  BY <1>3, <1>4

LEMMA SectorPlaces == DriverInv /\ Sector => DriverInv'
<1> SUFFICES ASSUME DriverInv, Sector PROVE DriverInv'
  OBVIOUS
<1>1. /\ io' \in Io /\ InCall'
      /\ io'.op = io.op /\ io'.lba = io.lba /\ io'.sectors = io.sectors
      /\ io'.pos + io'.s = io.pos + io.s + 1
      /\ io.pos + io.s \in 0..(io.sectors - 1) /\ io.pos + io.s \notin missed
      /\ UNCHANGED <<before, missed>>
      /\ io.lba + io.pos + io.s \in DOMAIN platter /\ io.op # "none"
  BY SectorAdvances
<1> DEFINE n == io.pos + io.s
           Later(k) == k < io'.pos + io'.s /\ k \notin missed'
<1>2. \A k \in Int : Later(k) <=> Moved(k) \/ k = n
  BY <1>1 DEF Moved, DriverInv, Io
<1>3. io.op \in {"read", "write"} /\ io.lba \in Nat /\ n \in Nat /\ io.sectors \in Nat
  BY <1>1 DEF DriverInv, Io
<1>4. io.lba + io.pos + io.s = io.lba + n /\ io.pos + io.s + 1 = n + 1
  BY DEF DriverInv, Io
<1>5. CASE io.op = "write"
  <2>1. platter' = [platter EXCEPT ![io.lba + n] = buffer[n + 1]] /\ buffer' = buffer
    BY <1>4, <1>5 DEF Sector, MoveSector
  <2>2. platter = [a \in DOMAIN before.platter |->
            LET k == a - io.lba
            IN  IF k \in 0..(io.sectors - 1) /\ Moved(k) THEN before.buffer[k + 1]
                ELSE before.platter[a]]
    BY <1>5 DEF DriverInv, Placed
  <2>3. DOMAIN before.platter \subseteq Nat /\ DOMAIN platter = DOMAIN before.platter
    BY <2>2 DEF DriverInv
  <2>4. ASSUME NEW a \in DOMAIN before.platter
        PROVE  platter'[a] = LET k == a - io.lba
            IN  IF k \in 0..(io.sectors - 1) /\ Later(k) THEN before.buffer[k + 1]
                ELSE before.platter[a]
    <3>1. a \in Nat /\ a - io.lba \in Int
      BY <1>3, <2>3
    <3>2. CASE a - io.lba = n
      <4>1. a = io.lba + n /\ platter'[a] = buffer[n + 1]
        BY <1>3, <2>1, <2>3, <3>1, <3>2
      <4>2. n \in 0..(io.sectors - 1) /\ Later(n)
        BY <1>1, <1>2, <1>3
      <4>3. buffer = before.buffer
        BY <1>5 DEF DriverInv
      <4>4. QED  BY <3>2, <4>1, <4>2, <4>3
    <3>3. CASE a - io.lba # n
      <4>1. a # io.lba + n
        BY <1>3, <3>1, <3>3
      <4>2. platter'[a] = platter[a]
        BY <2>1, <2>3, <4>1
      <4>3. Later(a - io.lba) <=> Moved(a - io.lba)
        BY <1>2, <3>1, <3>3
      <4>4. QED  BY <2>2, <4>2, <4>3
    <3>4. QED  BY <3>2, <3>3
  <2>5. platter' = [a \in DOMAIN before.platter |-> platter'[a]]
    BY <2>1, <2>2
  <2>6. Placed'
    BY <1>1, <1>5, <2>4, <2>5 DEF Placed, Moved
  <2>7. QED  BY <1>1, <1>5, <2>1, <2>3, <2>5, <2>6 DEF DriverInv
<1>6. CASE io.op = "read"
  <2>1. buffer' = [buffer EXCEPT ![n + 1] = platter[io.lba + n]] /\ platter' = platter
    BY <1>4, <1>6 DEF Sector, MoveSector
  <2>2. buffer = [p \in 1..io.sectors |->
            IF Moved(p - 1) THEN before.platter[io.lba + p - 1] ELSE before.buffer[p]]
    BY <1>6 DEF DriverInv, Placed
  <2>3. platter = before.platter
    BY <1>6 DEF DriverInv
  <2>4. ASSUME NEW p \in 1..io.sectors
        PROVE  buffer'[p] = IF Later(p - 1) THEN before.platter[io.lba + p - 1]
                            ELSE before.buffer[p]
    <3>1. p - 1 \in Int /\ io.lba + p - 1 = io.lba + (p - 1)
      BY <1>3
    <3>2. CASE p = n + 1
      <4>1. p - 1 = n /\ Later(p - 1)
        BY <1>2, <1>3, <3>2
      <4>2. buffer'[p] = platter[io.lba + n]
        BY <2>1, <2>2, <3>2
      <4>3. QED  BY <2>3, <3>1, <4>1, <4>2
    <3>3. CASE p # n + 1
      <4>1. p - 1 # n
        BY <1>3, <3>3
      <4>2. Later(p - 1) <=> Moved(p - 1)
        BY <1>2, <3>1, <4>1
      <4>3. buffer'[p] = buffer[p]
        BY <2>1, <2>2, <3>3
      <4>4. QED  BY <2>2, <4>2, <4>3
    <3>4. QED  BY <3>2, <3>3
  <2>5. buffer' = [p \in 1..io.sectors |-> buffer'[p]]
    BY <2>1, <2>2
  <2>6. Placed'
    BY <1>1, <1>6, <2>4, <2>5 DEF Placed, Moved
  <2>7. QED  BY <1>1, <1>6, <2>1, <2>3, <2>6 DEF DriverInv
<1>7. QED  BY <1>3, <1>5, <1>6

LEMMA FailPlaces == DriverInv /\ Fail => DriverInv'
<1> SUFFICES ASSUME DriverInv, Fail PROVE DriverInv'
  OBVIOUS
<1>1. /\ io.count > 0 /\ io' = Advanced
      /\ missed' = missed \cup (io.pos + io.s)..(io.pos + io.count - 1)
      /\ UNCHANGED <<platter, buffer, before>>
  BY DEF Fail
<1>2. /\ io \in Io /\ io.pos + io.count <= io.sectors /\ io.s < io.count
      /\ missed \subseteq 0..(io.pos - 1) /\ ~Resting
  BY <1>1 DEF DriverInv, InCall, NoIo
<1>3. io' \in Io /\ InCall' /\ io'.op = io.op /\ io'.lba = io.lba /\ io'.sectors = io.sectors
  <2>1. io' \in Io /\ io'.pos = io.pos + io.count /\ io'.count = 0 /\ io'.s = 0
        /\ io'.op = io.op /\ io'.lba = io.lba /\ io'.sectors = io.sectors
    BY <1>1, <1>2, AdvancedIo
  <2>2. io'.pos + io'.count <= io.sectors
    BY <1>2, <2>1 DEF Io
  <2>3. missed' \subseteq 0..(io'.pos - 1)
    <3>1. io.pos \in Nat /\ io.s \in Nat /\ io.count \in Nat
      BY <1>2 DEF Io
    <3>2. 0..(io.pos - 1) \subseteq 0..(io.pos + io.count - 1)
      BY <3>1
    <3>3. (io.pos + io.s)..(io.pos + io.count - 1) \subseteq 0..(io.pos + io.count - 1)
      BY <3>1
    <3>4. missed' \subseteq 0..(io.pos + io.count - 1)
      BY <1>1, <1>2, <3>2, <3>3, Zenon
    <3>5. io'.pos - 1 = io.pos + io.count - 1
      BY <2>1, <3>1
    <3>6. QED  BY <3>4, <3>5, Zenon
  <2>4. QED  BY <1>2, <2>1, <2>2, <2>3 DEF InCall, Resting
<1>4. \A k \in Nat : Moved(k)' <=> Moved(k)
  <2>1. io'.pos = io.pos + io.count /\ io'.s = 0
    BY <1>1, <1>2, AdvancedIo
  <2>2. io.pos \in Nat /\ io.s \in Nat /\ io.count \in Nat
    BY <1>2 DEF Io
  <2>3. QED  BY <1>1, <1>2, <2>1, <2>2 DEF Moved
<1>5. Placed'
  <2>1. io.op = "write" => \A k \in 0..(io.sectors - 1) : Moved(k)' <=> Moved(k)
    BY <1>4
  <2>2. \A p \in 1..io.sectors : Moved(p - 1)' <=> Moved(p - 1)
    BY <1>2, <1>4 DEF Io
  <2>3. QED  BY <1>1, <1>3, <2>1, <2>2 DEF DriverInv, Placed
<1>6. QED  BY <1>1, <1>3, <1>5 DEF DriverInv

LEMMA RequestPlaces ==
    ASSUME DriverInv, NEW op \in {"read", "write"}, NEW lba \in Nat,
           NEW n \in Nat, NEW contents, contents = [p \in 1..n |-> contents[p]],
           Len(contents) = n, Request(op, lba, contents)
    PROVE  /\ DriverInv' /\ platter' = platter /\ io'.op = op /\ io'.lba = lba
           /\ io'.sectors = n /\ before'.buffer = contents
<1>1. /\ io' = [NoIo EXCEPT !.op = op, !.lba = lba, !.sectors = Len(contents)]
      /\ buffer' = contents /\ platter' = platter /\ missed' = {}
      /\ before' = [platter |-> platter, buffer |-> contents]
  BY DEF Request
<1>2. /\ io' \in Io /\ io'.op = op /\ io'.lba = lba /\ io'.sectors = n
      /\ io'.pos = 0 /\ io'.count = 0 /\ io'.s = 0
  BY <1>1 DEF NoIo, Io
<1>3. InCall'
  BY <1>1, <1>2 DEF InCall, Resting
<1>4. /\ platter = [a \in DOMAIN platter |-> platter[a]] /\ DOMAIN platter \subseteq Nat
      /\ before'.platter = platter /\ before'.buffer = contents
  BY <1>1 DEF DriverInv
<1>5. \A k \in Nat : ~Moved(k)'
  BY <1>2 DEF Moved
<1>6. Placed'
  <2>1. \A k \in 0..(n - 1) : ~Moved(k)'
    BY <1>5
  <2>2. \A p \in 1..n : ~Moved(p - 1)'
    BY <1>5
  <2>3. CASE op = "write"
    BY <1>1, <1>2, <1>4, <2>1, <2>3 DEF Placed
  <2>4. CASE op = "read"
    BY <1>1, <1>2, <1>4, <2>2, <2>4 DEF Placed
  <2>5. QED  BY <2>3, <2>4
<1>7. QED  BY <1>1, <1>2, <1>3, <1>4, <1>6 DEF DriverInv

LEMMA ReturnPlaces == DriverInv /\ Return => DriverInv'
<1> SUFFICES ASSUME DriverInv, Return PROVE DriverInv'
  OBVIOUS
<1>1. io' = NoIo /\ missed' = {} /\ platter' = platter
  BY DEF Return
<1>2. io' \in Io /\ InCall' /\ io'.op = "none"
  BY <1>1 DEF NoIo, Io, InCall
<1>3. QED  BY <1>1, <1>2 DEF DriverInv, Placed

(* What the tools write while no call runs.                                *)
LEMMA ToolPlaces ==
    ASSUME DriverInv, Resting, UNCHANGED <<buffer, io, before, missed>>,
           platter' = [a \in DOMAIN platter' |-> platter'[a]], DOMAIN platter' \subseteq Nat
    PROVE  DriverInv'
  BY DEF DriverInv, Placed, Resting, InCall

-----------------------------------------------------------------------------
(* The kernel takes its areas from the first sector of the partition, and  *)
(* there is what the tool wrote: neither the bitmaps nor the root's inode  *)
(* come back to it by a wrap.                                              *)
InfoType == [clusters : Nat, files : Nat, startbmpfile : Nat, startbmpcluster : Nat,
             file0 : Nat, cluster0 : Nat]

Info == Areas(ClustersOf(total), BitmapSectors(total))

MountInv ==
    /\ stage \notin {"boot", "mounted"} => Resting
    /\ total \in Nat /\ boot2size \in Nat
    /\ atufsinfo \in InfoType
    /\ stage = "boot" =>
        /\ FirstLba \in DOMAIN platter /\ platter[FirstLba] = <<"info", Info>>
        /\ ~Resting => /\ io.op = "read" /\ io.lba = FirstLba /\ io.sectors = 1
                       /\ before.buffer = Empty(1)

LEMMA SubType == ASSUME NEW a \in Int, NEW b \in Int PROVE Sub(a, b) \in 0..(Word - 1)
  BY VolumeAssumption DEF Sub

LEMMA DivideOrdered ==
    ASSUME NEW m \in Nat, NEW n \in Nat, NEW d \in Nat \ {0}, m <= n
    PROVE  m \div d \in 0..(n \div d)
<1> DEFINE q == m \div d
           r == n \div d
<1>1. q \in Nat /\ d * q <= m /\ r \in Nat /\ n < d * r + d
  OBVIOUS
<1>2. SUFFICES ASSUME q >= r + 1 PROVE FALSE
  BY <1>1
<1>3. d * q >= d * (r + 1) /\ d * (r + 1) = d * r + d
  BY <1>1, <1>2
<1>4. d * q \in Nat /\ d * r \in Nat
  BY <1>1
<1>5. QED  BY <1>1, <1>3, <1>4

LEMMA BitmapType ==
    ASSUME NEW n \in Nat
    PROVE  BitmapSectors(n) \in 0..(Word \div Bits)
<1>1. (n + Bits - 1) % Word \in 0..(Word - 1)
  BY VolumeAssumption
<1>2. PICK m \in 0..(Word - 1) : BitmapSectors(n) = m \div Bits
  BY <1>1 DEF BitmapSectors
<1>3. m \in Nat /\ Word \in Nat /\ m <= Word
  BY VolumeAssumption
<1>4. QED  BY <1>2, <1>3, DivideOrdered, VolumeAssumption

LEMMA OneBelowZero == Sub(0, 1) = Word - 1
<1> DEFINE q == (0 - 1) \div Word
           r == (0 - 1) % Word
<1>1. q \in Int /\ r \in 0..(Word - 1) /\ 0 - 1 = Word * q + r
  BY VolumeAssumption
<1>2. q >= 0 => Word * q >= 0
  BY <1>1, VolumeAssumption
<1>3. q <= 0 - 2 => Word * q <= 0 - 2 * Word
  <2>1. SUFFICES ASSUME q <= 0 - 2 PROVE Word * q <= 0 - 2 * Word
    OBVIOUS
  <2>2. PICK k \in Nat : q = 0 - 2 - k
    <3>1. 0 - 2 - q \in Nat /\ q = 0 - 2 - (0 - 2 - q)
      BY <1>1, <2>1
    <3>2. QED  BY <3>1
  <2>3. Word * q = 0 - 2 * Word - Word * k /\ Word * k \in Nat /\ Word \in Nat
    BY <2>2, VolumeAssumption
  <2>4. QED  BY <2>3
<1>4. q = 0 - 1 => Word * q = 0 - Word
  BY VolumeAssumption
<1>5. Word * q \in Int /\ Word \in Nat
  BY <1>1, VolumeAssumption
<1>6. q = 0 - 1
  BY <1>1, <1>2, <1>3, <1>5
<1>7. QED  BY <1>1, <1>4, <1>5, <1>6 DEF Sub

(* The areas are numbers, and the bitmap of the files and the inodes begin *)
(* behind the information and before its bytes wrap.                       *)
LEMMA InfoTyped ==
    ASSUME secamount \in Nat, total \in Nat
    PROVE  /\ Info \in InfoType
           /\ Info.startbmpfile \in 2..(ByteWord - 1) /\ Info.file0 \in 2..(ByteWord - 1)
<1> DEFINE bf == BitmapSectors(files)
           b == BitmapSectors(total)
           room == Word \div Bits
           few == (ByteWord + Bits) \div Bits
<1>1. hdsize \in 0..(ByteWord - 1)
  BY VolumeAssumption DEF hdsize
<1>2. files \in 0..(Word - 1)
  <2>1. hdsize \div PerFile \in Int
    BY <1>1, RoundedDown, VolumeAssumption
  <2>2. QED  BY <2>1, SubType DEF files
<1>3. b \in 0..room /\ ClustersOf(total) \in Nat
  <2>1. b \in 0..room
    BY BitmapType
  <2>2. b \in Int
    BY <2>1, VolumeAssumption
  <2>3. QED  BY <2>1, <2>2, SubType, VolumeAssumption DEF ClustersOf
<1>4. bf \in 0..few
  <2> DEFINE q == hdsize \div PerFile
  <2>1. q \in 0..hdsize
    BY <1>1, RoundedDown, VolumeAssumption
  <2>2. CASE q = 0
    <3>1. files = Word - 1
      BY <2>2, OneBelowZero DEF files
    <3>2. (Word - 1 + Bits - 1) % Word \in 0..Bits
      <4>1. Bits > 1
        <5>1. SUFFICES ASSUME Bits = 1 PROVE FALSE
          BY VolumeAssumption
        <5>2. (ByteWord + 1) \div 1 = ByteWord + 1 /\ Word \div 1 = Word
          BY VolumeAssumption
        <5>3. QED  BY <5>1, <5>2, VolumeAssumption, RoomAssumption
      <4>2. CASE Bits > 1
        <5>1. Bits - 2 \in 0..(Word - 1) /\ Word - 1 + Bits - 1 = Word + (Bits - 2)
          BY <4>2, VolumeAssumption
        <5>2. (Word + (Bits - 2)) % Word = Bits - 2
          BY <5>1, VolumeAssumption
        <5>3. QED  BY <4>2, <5>1, <5>2, VolumeAssumption
      <4>3. QED  BY <4>1, <4>2, VolumeAssumption
    <3>3. PICK m \in 0..Bits : bf = m \div Bits
      BY <3>1, <3>2 DEF BitmapSectors
    <3>4. m \in Nat /\ ByteWord + Bits \in Nat /\ m <= ByteWord + Bits
      BY VolumeAssumption
    <3>5. QED  BY <3>3, <3>4, DivideOrdered, VolumeAssumption
  <2>3. CASE q > 0
    <3>1. files \in 0..(ByteWord - 1)
      BY <1>1, <2>1, <2>3, SmallSub, VolumeAssumption DEF files
    <3>2. /\ files + Bits - 1 \in 0..(Word - 1) /\ files + Bits - 1 <= ByteWord + Bits
          /\ files + Bits - 1 \in Nat /\ ByteWord + Bits \in Nat
      BY <3>1, VolumeAssumption
    <3>3. bf = (files + Bits - 1) \div Bits
      BY <3>2, NoWrap DEF BitmapSectors
    <3>4. (files + Bits - 1) \div Bits \in 0..few
      BY <3>2, DivideOrdered, VolumeAssumption
    <3>5. QED  BY <3>3, <3>4
  <2>4. QED  BY <1>1, <2>1, <2>2, <2>3, VolumeAssumption
<1>5. few \in Nat /\ room \in Nat
  BY VolumeAssumption
<1>6. startbmpfile \in 2..(ByteWord - 1)
  BY <1>5, VolumeAssumption, RoomAssumption DEF startbmpfile
<1>7. startbmpcluster + b + Journal \in 2..(ByteWord - 1)
  BY <1>3, <1>4, <1>5, VolumeAssumption, RoomAssumption DEF startbmpfile, startbmpcluster
<1>8. (startbmpcluster + b + Journal) % Word = startbmpcluster + b + Journal
  BY <1>7, NoWrap, VolumeAssumption
<1>9. startbmpcluster \in Nat
  BY <1>4, <1>5, <1>6 DEF startbmpcluster
<1>10. (startbmpcluster + b + Journal + files) % Word \in Nat
  BY <1>2, <1>7, VolumeAssumption
<1>11. QED
  BY <1>2, <1>3, <1>6, <1>7, <1>8, <1>9, <1>10 DEF Info, Areas, InfoType

LEMMA EmptyLength == ASSUME NEW n \in Nat PROVE Len(Empty(n)) = n /\ Empty(n) \in Seq({<<"unset">>})
  BY DEF Empty

LEMMA ClustersType == ASSUME NEW n \in Nat PROVE ClustersOf(n) \in Nat
<1>1. BitmapSectors(n) \in Int
  BY BitmapType, VolumeAssumption
<1>2. QED  BY <1>1, SubType, VolumeAssumption DEF ClustersOf

LEMMA LeftType == ASSUME secamount \in Nat PROVE Left \in Nat
<1>1. hdsize \in Nat
  BY VolumeAssumption DEF hdsize
<1>2. hdsize \div PerFile \in Int
  BY <1>1, RoundedDown, VolumeAssumption
<1>3. files \in Nat
  BY <1>2, SubType, VolumeAssumption DEF files
<1>4. BitmapSectors(files) \in Nat
  BY <1>3, BitmapType, VolumeAssumption
<1>5. Taken \in Nat
  BY <1>3, <1>4, VolumeAssumption DEF Taken, startbmpcluster, startbmpfile
<1>6. Sub(hdsize, Taken) \in Nat
  <2>1. hdsize \in Int /\ Taken \in Int
    BY <1>1, <1>5
  <2>2. Sub(hdsize, Taken) \in 0..(Word - 1)
    BY <2>1, SubType
  <2>3. QED  BY <2>2, VolumeAssumption
<1>7. QED  BY <1>6, ClustersType DEF Left, ClustersOf

LEMMA VolumeInit == Init => DriverInv /\ MountInv
<1> SUFFICES ASSUME Init PROVE DriverInv /\ MountInv
  OBVIOUS
<1>1. PICK disk \in Disks, was \in Media : medium = [a \in 0..(disk - 1) |-> was]
  BY DEF Init
<1>2. platter = [a \in DOMAIN platter |-> platter[a]] /\ DOMAIN platter \subseteq Nat
  BY <1>1, VolumeAssumption DEF Init
<1>3. io = NoIo /\ missed = {} /\ stage = "mkmbr" /\ secamount = 0 /\ total = 0
      /\ atufsinfo = NoAreas /\ boot2size \in Nat
  BY VolumeAssumption DEF Init
<1>4. io \in Io /\ InCall /\ io.op = "none"
  BY <1>3 DEF NoIo, Io, InCall
<1>5. DriverInv
  BY <1>2, <1>4 DEF DriverInv, Placed
<1>6. MountInv
  BY <1>3, <1>4 DEF MountInv, NoAreas, InfoType, Resting
<1>7. QED  BY <1>5, <1>6

(* The information twice, and the second boot loader.                      *)
Loaders == <<<<"info", Info>>, <<"info", Info>>>> \o [p \in 1..boot2size |-> <<"boot2">>]

LEMMA FirstSectors ==
    ASSUME boot2size \in Nat
    PROVE  /\ Len(Loaders) = 2 + boot2size /\ Len(Loaders) \in Nat \ {0}
           /\ Loaders[1] = <<"info", Info>> /\ Loaders[2] = <<"info", Info>>
           /\ \A k \in 3..(2 + boot2size) : Loaders[k] = <<"boot2">>
<1> DEFINE i == <<"info", Info>>
           b == <<"boot2">>
           S == {i, b}
           two == <<i, i>>
           rest == [p \in 1..boot2size |-> b]
<1>1. Loaders = two \o rest
  BY DEF Loaders
<1> HIDE DEF i, b
<1>2. rest \in Seq(S) /\ Len(rest) = boot2size /\ \A k \in 1..boot2size : rest[k] = b
  OBVIOUS
<1>3. two \in Seq(S) /\ Len(two) = 2 /\ two[1] = i /\ two[2] = i
  OBVIOUS
<1> HIDE DEF two, rest, S
<1>4. /\ Len(Loaders) = Len(two) + Len(rest)
      /\ \A k \in 1..(Len(two) + Len(rest)) :
              Loaders[k] = IF k <= Len(two) THEN two[k] ELSE rest[k - Len(two)]
  BY <1>1, <1>2, <1>3, ConcatProperties
<1>5. \A k \in 3..(2 + boot2size) : Loaders[k] = b
  <2>1. SUFFICES ASSUME NEW k \in 3..(2 + boot2size) PROVE Loaders[k] = b
    OBVIOUS
  <2>2. k \in 1..(Len(two) + Len(rest)) /\ ~(k <= Len(two)) /\ k - Len(two) \in 1..boot2size
    BY <1>2, <1>3
  <2>3. QED  BY <1>2, <1>4, <2>2
<1>6. 1 \in 1..(Len(two) + Len(rest)) /\ 2 \in 1..(Len(two) + Len(rest))
      /\ 1 <= Len(two) /\ 2 <= Len(two)
  BY <1>2, <1>3
<1>7. Loaders[1] = i /\ Loaders[2] = i
  BY <1>3, <1>4, <1>6
<1>8. QED  BY <1>2, <1>3, <1>4, <1>5, <1>7 DEF i, b

(* What a write of n sectors to an image leaves.                           *)
Written(w, image, first, n, contents) ==
    /\ w = [a \in DOMAIN w |-> w[a]] /\ DOMAIN w \subseteq Nat
    /\ DOMAIN w = DOMAIN image \cup 0..(first + n - 1)
    /\ \A a \in DOMAIN image : a \notin first..(first + n - 1) => w[a] = image[a]
    /\ \A a \in first..(first + n - 1) : a \in DOMAIN w /\ w[a] = contents[a - first + 1]

LEMMA WrittenAt ==
    ASSUME NEW image, DOMAIN image \subseteq Nat, NEW first \in Nat,
           NEW contents, NEW n \in Nat, Len(contents) = n
    PROVE  Written(WriteAt(image, first, contents), image, first, n, contents)
  BY DEF WriteAt, Held, Written

(* What the kernel gets when it asks for the information.                  *)
LEMMA InfoRead ==
    ASSUME DriverInv, MountInv, init_atufs
    PROVE  atufsinfo' \in {Info, NoAreas}
<1>1. /\ stage = "boot" /\ Return
      /\ atufsinfo' = IF buffer[1] = <<"unset">> THEN NoAreas ELSE buffer[1][2]
  BY DEF init_atufs
<1>2. buffer[1] \in {<<"unset">>, <<"info", Info>>}
  <2>1. io.op = "read" /\ io.lba = FirstLba /\ io.sectors = 1 /\ before.buffer = Empty(1)
        /\ platter[FirstLba] = <<"info", Info>> /\ before.platter = platter
    BY <1>1 DEF Return, Returning, Between, MountInv, DriverInv
  <2>2. buffer[1] = IF Moved(1 - 1) THEN before.platter[FirstLba + 1 - 1]
                    ELSE before.buffer[1]
    BY <2>1 DEF DriverInv, Placed
  <2>3. FirstLba + 1 - 1 = FirstLba /\ Empty(1)[1] = <<"unset">>
    BY VolumeAssumption DEF Empty
  <2>4. QED  BY <2>1, <2>2, <2>3
<1>3. QED  BY <1>1, <1>2

LEMMA VolumeStep ==
    DriverInv /\ MountInv /\ secamount \in Nat /\ [Next]_vars => (DriverInv /\ MountInv)'
<1> SUFFICES ASSUME DriverInv, MountInv, secamount \in Nat, [Next]_vars
             PROVE  DriverInv' /\ MountInv'
  OBVIOUS
<1>1. ASSUME NEW asked \in Asked, MakePartition(asked) PROVE DriverInv' /\ MountInv'
  <2>1. /\ stage = "mkmbr" /\ stage' = "mkatufs" /\ Resting
        /\ UNCHANGED <<buffer, io, before, missed, total, atufsinfo, boot2size>>
        /\ platter' = [platter EXCEPT ![0] = <<"mbr">>]
    BY <1>1 DEF MakePartition, MountInv
  <2>2. DriverInv'
    <3>1. platter' = [a \in DOMAIN platter' |-> platter'[a]] /\ DOMAIN platter' \subseteq Nat
      BY <2>1 DEF DriverInv
    <3>2. QED  BY <2>1, <3>1, ToolPlaces
  <2>3. MountInv'
    BY <2>1 DEF MountInv, Resting
  <2>4. QED  BY <2>2, <2>3
<1>2. CASE Mkatufs \/ Fix
  <2>1. /\ UNCHANGED <<driverVars, secamount, atufsinfo, boot2size>>
        /\ stage' = "fix" /\ stage \in {"mkatufs", "fix"}
        /\ total' = Left \/ total' = ClustersOf(total)
    BY <1>2 DEF Mkatufs, Fix
  <2>2. total' \in Nat
    BY <2>1, LeftType, ClustersType DEF MountInv
  <2>3. DriverInv'
    BY <2>1, ToolPlaces DEF driverVars, DriverInv, MountInv
  <2>4. QED  BY <2>1, <2>2, <2>3 DEF MountInv, driverVars, Resting
<1>3. CASE Format
  <2> DEFINE bit == FirstLba + (Info.startbmpfile % ByteWord)
             root == FirstLba + (Info.file0 % ByteWord)
             first == <<<<"info", Info>>, <<"info", Info>>>> \o [p \in 1..boot2size |-> <<"boot2">>]
             loaded == WriteAt(platter, FirstLba, first)
             marked == WriteAt(loaded, bit, <<<<"root bit", Held(loaded, bit)>>>>)
             done == WriteAt(marked, root, <<<<"root">>>>)
  <2>1. /\ stage = "fix" /\ stage' = "boot" /\ atufsinfo' = Info /\ platter' = done
        /\ UNCHANGED <<buffer, io, before, missed, secamount, total, boot2size>>
    BY <1>3 DEF Format, Info
  <2> HIDE DEF bit, root, first, loaded, marked, done
  <2>2. /\ DOMAIN platter \subseteq Nat /\ Resting
        /\ bit \in Nat /\ bit > FirstLba + 1 /\ root \in Nat /\ root > FirstLba + 1
        /\ FirstLba \in Nat
    <3>1. /\ Info.startbmpfile % ByteWord = Info.startbmpfile
          /\ Info.file0 % ByteWord = Info.file0
      BY InfoTyped, VolumeAssumption DEF MountInv
    <3>2. QED  BY <2>1, <3>1, InfoTyped, VolumeAssumption DEF MountInv, DriverInv, bit, root
  <2>3. Len(first) = 2 + boot2size /\ Len(first) \in Nat \ {0} /\ first[1] = <<"info", Info>>
    BY FirstSectors DEF MountInv, first, Loaders
  <2>4. /\ loaded = [a \in DOMAIN loaded |-> loaded[a]] /\ DOMAIN loaded \subseteq Nat
        /\ FirstLba \in DOMAIN loaded /\ loaded[FirstLba] = <<"info", Info>>
    <3>1. PICK n \in Nat : n = Len(first) /\ n > 0
      BY <2>3
    <3>2. FirstLba \in FirstLba..(FirstLba + n - 1) /\ FirstLba - FirstLba + 1 = 1
      BY <2>2, <3>1
    <3>3. loaded = WriteAt(platter, FirstLba, first)
      BY DEF loaded
    <3>4. Written(loaded, platter, FirstLba, n, first)
      BY <2>2, <3>1, <3>3, WrittenAt
    <3>5. QED  BY <2>3, <3>2, <3>4 DEF Written
  <2>5. /\ marked = [a \in DOMAIN marked |-> marked[a]] /\ DOMAIN marked \subseteq Nat
        /\ FirstLba \in DOMAIN marked /\ marked[FirstLba] = <<"info", Info>>
    <3> DEFINE c == <<<<"root bit", Held(loaded, bit)>>>>
    <3>1. Len(c) = 1 /\ FirstLba \notin bit..(bit + 1 - 1)
      BY <2>2
    <3>2. marked = WriteAt(loaded, bit, c)
      BY DEF marked
    <3> HIDE DEF c
    <3>3. Written(marked, loaded, bit, 1, c)
      BY <2>2, <2>4, <3>1, <3>2, WrittenAt
    <3>4. QED  BY <2>4, <3>1, <3>3 DEF Written
  <2>6. /\ done = [a \in DOMAIN done |-> done[a]] /\ DOMAIN done \subseteq Nat
        /\ FirstLba \in DOMAIN done /\ done[FirstLba] = <<"info", Info>>
    <3> DEFINE c == <<<<"root">>>>
    <3>1. Len(c) = 1 /\ FirstLba \notin root..(root + 1 - 1)
      BY <2>2
    <3>2. done = WriteAt(marked, root, c)
      BY DEF done
    <3> HIDE DEF c
    <3>3. Written(done, marked, root, 1, c)
      BY <2>2, <2>5, <3>1, <3>2, WrittenAt
    <3>4. QED  BY <2>5, <3>1, <3>3 DEF Written
  <2>7. DriverInv'
    BY <2>1, <2>2, <2>6, ToolPlaces
  <2>8. Info' = Info /\ Info \in InfoType
    <3>1. Info' = Info
      BY <2>1 DEF Info, Areas, files, startbmpcluster, hdsize
    <3>2. QED  BY <3>1, InfoTyped DEF MountInv
  <2>9. MountInv'
    BY <2>1, <2>2, <2>6, <2>8 DEF MountInv, Resting
  <2>10. QED  BY <2>7, <2>9
<1>4. CASE AskInfo
  <2>1. /\ stage = "boot" /\ Request("read", FirstLba + 0, Empty(1))
        /\ UNCHANGED <<stage, secamount, total, atufsinfo, boot2size>>
    BY <1>4 DEF AskInfo, Ask
  <2>2. /\ DriverInv' /\ platter' = platter /\ io'.op = "read" /\ io'.lba = FirstLba
        /\ io'.sectors = 1 /\ before'.buffer = Empty(1)
    <3>1. FirstLba \in Nat /\ Request("read", FirstLba, Empty(1))
      BY <2>1, VolumeAssumption
    <3>2. Len(Empty(1)) = 1 /\ Empty(1) = [p \in 1..1 |-> Empty(1)[p]]
      BY EmptyLength DEF Empty
    <3>3. QED  BY <2>1, <3>1, <3>2, RequestPlaces
  <2>3. Info' = Info
    BY <2>1 DEF Info, Areas, files, startbmpcluster, hdsize
  <2>4. QED  BY <2>1, <2>2, <2>3 DEF MountInv
<1>5. CASE init_atufs
  <2>1. stage = "boot" /\ Return /\ stage' = "mounted" /\ UNCHANGED <<secamount, total, boot2size>>
    BY <1>5 DEF init_atufs
  <2>2. DriverInv'
    BY <2>1, ReturnPlaces
  <2>3. atufsinfo' \in InfoType
    <3>1. NoAreas \in InfoType
      BY DEF NoAreas, InfoType
    <3>2. QED  BY <1>5, <3>1, InfoRead, InfoTyped DEF MountInv
  <2>4. QED  BY <2>1, <2>2, <2>3 DEF MountInv
<1>6. CASE Access
  <2>1. \E op \in {"read", "write"}, lba \in Nat, m \in Nat : \E contents :
            /\ contents = [p \in 1..m |-> contents[p]] /\ Len(contents) = m
            /\ Request(op, lba, contents)
    <3>1. CASE Ask("read", atufsinfo.file0, Empty(1))
      <4>1. Len(Empty(1)) = 1 /\ Empty(1) = [p \in 1..1 |-> Empty(1)[p]]
        BY EmptyLength DEF Empty
      <4>2. FirstLba + atufsinfo.file0 \in Nat
        BY VolumeAssumption DEF MountInv, InfoType
      <4>3. QED  BY <3>1, <4>1, <4>2 DEF Ask
    <3>2. ASSUME NEW c \in 0..(atufsinfo.clusters - 1), NEW n \in 1..MaxMove,
                 \/ Ask("read", ClusterLba(c), Empty(n))
                 \/ Ask("write", ClusterLba(c), [p \in 1..n |-> <<"data", p>>])
          PROVE  \E op \in {"read", "write"}, lba \in Nat, m \in Nat : \E contents :
                    /\ contents = [p \in 1..m |-> contents[p]] /\ Len(contents) = m
                    /\ Request(op, lba, contents)
      <4> DEFINE data == [p \in 1..n |-> <<"data", p>>]
      <4>1. n \in Nat
        BY VolumeAssumption
      <4>2. Len(Empty(n)) = n /\ Empty(n) = [p \in 1..n |-> Empty(n)[p]]
        BY <4>1, EmptyLength DEF Empty
      <4>3. Len(data) = n /\ data = [p \in 1..n |-> data[p]]
        BY <4>1
      <4>4. FirstLba + ClusterLba(c) \in Nat
        BY VolumeAssumption DEF MountInv, InfoType, ClusterLba
      <4>5. QED  BY <3>2, <4>1, <4>2, <4>3, <4>4 DEF Ask
    <3>3. QED  BY <1>6, <3>1, <3>2 DEF Access
  <2>2. DriverInv'
    BY <2>1, RequestPlaces
  <2>3. stage = "mounted" /\ UNCHANGED <<stage, secamount, total, atufsinfo, boot2size>>
    BY <1>6 DEF Access
  <2>4. QED  BY <2>2, <2>3 DEF MountInv
<1>7. CASE Driver
  <2>1. /\ Command \/ Sector \/ Fail \/ (stage = "mounted" /\ Return)
        /\ UNCHANGED <<stage, secamount, total, atufsinfo, boot2size>>
    BY <1>7 DEF Driver, Drive, volumeVars
  <2>2. DriverInv'
    BY <2>1, CommandPlaces, SectorPlaces, FailPlaces, ReturnPlaces
  <2>3. Info' = Info
    BY <2>1 DEF Info, Areas, files, startbmpcluster, hdsize
  <2>4. CASE stage = "mounted"
    BY <2>1, <2>2, <2>4 DEF MountInv
  <2>5. CASE stage # "mounted"
    <3>1. ~Resting /\ stage = "boot"
      BY <2>1, <2>5 DEF MountInv, DriverInv, InCall, NoIo, Command, Sector, Fail, Between
    <3>2. io.op = "read" /\ platter' = platter /\ before' = before
          /\ io'.op = io.op /\ io'.lba = io.lba /\ io'.sectors = io.sectors
      <4>1. io.op = "read"
        BY <3>1 DEF MountInv
      <4>2. CASE Command
        BY <4>1, <4>2 DEF Command, DriverInv, Io
      <4>3. CASE Sector
        BY <4>1, <4>3, SectorAdvances DEF Sector, MoveSector
      <4>4. CASE Fail
        BY <4>1, <4>4, AdvancedIo DEF Fail, DriverInv
      <4>5. Command \/ Sector \/ Fail
        BY <2>1, <2>5
      <4>6. QED  BY <4>2, <4>3, <4>4, <4>5
    <3>3. QED  BY <2>1, <2>2, <2>3, <3>1, <3>2 DEF MountInv, Resting
  <2>6. QED  BY <2>2, <2>4, <2>5
<1>8. CASE Done \/ UNCHANGED vars
  <2>1. UNCHANGED vars
    BY <1>8 DEF Done
  <2>2. DriverInv' = DriverInv
    BY <2>1 DEF vars, driverVars, DriverInv, InCall, Placed, Moved, Resting
  <2>3. Info' = Info
    BY <2>1 DEF vars, volumeVars, Info, Areas, files, startbmpcluster, hdsize
  <2>4. QED  BY <2>1, <2>2, <2>3 DEF vars, driverVars, volumeVars, MountInv, Resting
<1>9. QED
  BY <1>1, <1>2, <1>3, <1>4, <1>5, <1>6, <1>7, <1>8 DEF Next

(* Whatever sectors the tools and the kernel ask for, in commands of any   *)
(* length and through errors of the device: what a call of the driver      *)
(* (ata.c) has moved so far is where it belongs, and nothing else has.     *)
THEOREM SectorsInPlace == Spec => []Placed
<1> DEFINE Inv == VInv /\ DriverInv /\ MountInv
<1>1. Init => Inv
  BY VInvInit, VolumeInit
<1>2. Inv /\ [Next]_vars => Inv'
  BY VInvStep, VolumeStep DEF VInv
<1>3. Inv => Placed
  BY DEF DriverInv
<1> HIDE DEF Inv
<1>4. QED  BY <1>1, <1>2, <1>3, PTL DEF Spec

-----------------------------------------------------------------------------
(* A new volume. The disk held the same everywhere, the tools write only   *)
(* inside it, and from then on only clusters are written.                  *)
Uniform ==
    /\ Cardinality(DOMAIN medium) \in Nat /\ DOMAIN medium = 0..(Cardinality(DOMAIN medium) - 1)
    /\ 0 \in DOMAIN medium /\ \A a \in DOMAIN medium : medium[a] = medium[0]

ClustersOnly ==
    io.op = "write" => /\ io.lba >= FirstLba + Info.cluster0
                       /\ io.lba + io.sectors <= FirstLba + Info.cluster0 + Info.clusters

NewInv ==
    /\ Uniform
    /\ stage = "mkmbr" => platter = medium
    /\ stage \in {"mkatufs", "fix"} => platter = [medium EXCEPT ![0] = <<"mbr">>]
    /\ stage = "mounted" => atufsinfo \in {Info, NoAreas}
    /\ stage = "mounted" => ClustersOnly
    /\ NewVolume

LEMMA NewInit == Init => NewInv
<1> SUFFICES ASSUME Init PROVE NewInv
  OBVIOUS
<1>1. PICK disk \in Disks, was \in Media : medium = [a \in 0..(disk - 1) |-> was]
  BY DEF Init
<1>2. disk \in Nat \ {0} /\ DOMAIN medium = 0..(disk - 1)
  BY <1>1, VolumeAssumption
<1>3. Cardinality(DOMAIN medium) = disk
  BY <1>2, FS_Interval
<1>4. Uniform
  BY <1>1, <1>2, <1>3 DEF Uniform
<1>5. stage = "mkmbr" /\ platter = medium
  BY DEF Init
<1>6. QED  BY <1>4, <1>5 DEF NewInv, NewVolume

OneSector(w, image, n, at, c) ==
    /\ DOMAIN w = 0..(n - 1)
    /\ \A a \in 0..(n - 1) : w[a] = IF a = at THEN c ELSE image[a]

LEMMA OneWritten ==
    ASSUME NEW image, NEW n \in Nat, DOMAIN image = 0..(n - 1), NEW at \in 0..(n - 1), NEW c
    PROVE  OneSector(WriteAt(image, at, <<c>>), image, n, at, c)
<1> DEFINE w == WriteAt(image, at, <<c>>)
           contents == <<c>>
<1>1. Len(contents) = 1 /\ contents[1] = c
  OBVIOUS
<1>2. w = WriteAt(image, at, contents) /\ DOMAIN image \subseteq Nat
  OBVIOUS
<1> HIDE DEF contents, w
<1>3. Written(w, image, at, 1, contents)
  BY <1>1, <1>2, WrittenAt
<1>4. at..(at + 1 - 1) = {at} /\ at - at + 1 = 1 /\ DOMAIN w = 0..(n - 1)
  BY <1>3 DEF Written
<1>5. \A a \in 0..(n - 1) : w[a] = IF a = at THEN c ELSE image[a]
  BY <1>1, <1>3, <1>4 DEF Written
<1>6. QED  BY <1>4, <1>5 DEF OneSector, w

LEMMA FormatNew ==
    ASSUME VInv, DriverInv, MountInv, NewInv, Format
    PROVE  NewVolume'
<1> DEFINE bit == FirstLba + (Info.startbmpfile % ByteWord)
           root == FirstLba + (Info.file0 % ByteWord)
           first == <<<<"info", Info>>, <<"info", Info>>>> \o [p \in 1..boot2size |-> <<"boot2">>]
           loaded == WriteAt(platter, FirstLba, first)
           marked == WriteAt(loaded, bit, <<<<"root bit", Held(loaded, bit)>>>>)
           done == WriteAt(marked, root, <<<<"root">>>>)
           last == Cardinality(DOMAIN medium) - 1
<1>1. /\ stage = "fix" /\ stage' = "boot" /\ atufsinfo' = Info /\ platter' = done
      /\ UNCHANGED <<secamount, total, boot2size, medium>>
  BY DEF Format, Info
<1> HIDE DEF bit, root, first, loaded, marked, done
<1>2. Info' = Info /\ Sound' = Sound
  BY <1>1 DEF Info, Areas, files, startbmpcluster, hdsize, Sound, Taken, DiskSectors
<1>3. SUFFICES ASSUME Sound, boot2size <= Boot2Room + Skipped, medium[0] = <<"zero">>
               PROVE  /\ DOMAIN done = DOMAIN medium
                      /\ done[0] = <<"mbr">>
                      /\ \A a \in DOMAIN medium \ {0} :
                            done[a] = IF a - FirstLba < 0 THEN <<"zero">>
                                      ELSE Expected(Info, a - FirstLba)
  BY <1>1, <1>2, Zenon DEF NewVolume, Info, Expected
<1> DEFINE n == Cardinality(DOMAIN medium)
           sbf == Info.startbmpfile
           f0 == Info.file0
<1>4. /\ n \in Nat /\ FirstLba \in Nat \ {0} /\ boot2size \in Nat /\ sbf \in Nat /\ f0 \in Nat
      /\ sbf >= 2 + boot2size /\ sbf < f0 /\ FirstLba + f0 < n
      /\ bit = FirstLba + sbf /\ root = FirstLba + f0
  <2>1. /\ Info.startbmpfile % ByteWord = Info.startbmpfile
        /\ Info.file0 % ByteWord = Info.file0 /\ Info \in InfoType
    BY InfoTyped, VolumeAssumption DEF MountInv, VInv
  <2>2. Fit(Info)
    BY <1>1, <1>3, AreasFit DEF VInv, Info
  <2>3. /\ hdsize \in Nat /\ hdsize <= secamount /\ secamount \in Nat
        /\ startbmpfile = 2 + Boot2Room + Skipped
    BY <1>3, Lengths DEF VInv
  <2>4. Info.startbmpfile = startbmpfile
    BY DEF Info, Areas
  <2>5. FirstLba + secamount <= n
    BY <1>1, <1>3 DEF VInv, Sound
  <2>6. Info.startbmpfile < Info.startbmpcluster
    <3>1. Info.startbmpfile * Bits < Info.startbmpcluster * Bits
      BY <2>1, <2>2, VolumeAssumption DEF Fit, InfoType
    <3>2. SUFFICES ASSUME Info.startbmpcluster <= Info.startbmpfile PROVE FALSE
      BY <2>1 DEF InfoType
    <3>3. Info.startbmpcluster * Bits <= Info.startbmpfile * Bits
      BY <2>1, <3>2, VolumeAssumption DEF InfoType
    <3>4. QED  BY <2>1, <3>1, <3>3, VolumeAssumption DEF InfoType
  <2>7. Info.startbmpcluster <= Info.file0
    <3>1. Info.startbmpcluster + Journal <= Info.file0
      <4> DEFINE x == Info.startbmpcluster + Journal
      <4>1. x \in Nat /\ x * Bits <= Info.file0 * Bits
        BY <2>1, <2>2, VolumeAssumption DEF Fit, InfoType
      <4>2. SUFFICES ASSUME Info.file0 + 1 <= x PROVE FALSE
        BY <2>1, <4>1 DEF InfoType
      <4>3. (Info.file0 + 1) * Bits <= x * Bits
        BY <2>1, <4>1, <4>2, VolumeAssumption DEF InfoType
      <4>4. (Info.file0 + 1) * Bits = Info.file0 * Bits + Bits
        BY <2>1, VolumeAssumption DEF InfoType
      <4>5. QED  BY <2>1, <4>1, <4>3, <4>4, VolumeAssumption DEF InfoType
    <3>2. QED  BY <2>1, <3>1, VolumeAssumption DEF InfoType
  <2>8. Info.file0 < hdsize
    BY <2>1, <2>2, <2>3 DEF Fit, InfoType
  <2>9. n \in Nat
    BY DEF VInv
  <2>10. QED
    BY <1>3, <2>1, <2>3, <2>4, <2>5, <2>6, <2>7, <2>8, <2>9, VolumeAssumption
       DEF bit, root, MountInv, InfoType
<1>5. /\ DOMAIN platter = 0..(n - 1) /\ DOMAIN medium = 0..(n - 1) /\ platter[0] = <<"mbr">>
      /\ \A a \in 1..(n - 1) : platter[a] = <<"zero">>
  BY <1>1, <1>3 DEF NewInv, Uniform
<1> HIDE DEF n, sbf, f0
<1>6. /\ Len(first) = 2 + boot2size
      /\ first[1] = <<"info", Info>> /\ first[2] = <<"info", Info>>
      /\ \A k \in 3..(2 + boot2size) : first[k] = <<"boot2">>
  BY <1>4, FirstSectors DEF first, Loaders
<1>7. Written(loaded, platter, FirstLba, 2 + boot2size, first)
  <2>1. 2 + boot2size \in Nat /\ DOMAIN platter \subseteq Nat
    BY <1>4, <1>5
  <2>2. QED  BY <1>4, <1>6, <2>1, WrittenAt DEF loaded
<1>8. /\ DOMAIN loaded = 0..(n - 1)
       /\ \A a \in 0..(n - 1) : loaded[a] = IF a \in FirstLba..(FirstLba + 1 + boot2size)
                                          THEN first[a - FirstLba + 1] ELSE platter[a]
  <2>1. FirstLba + (2 + boot2size) - 1 = FirstLba + 1 + boot2size
        /\ FirstLba + 1 + boot2size <= n - 1
    BY <1>4
  <2>2. /\ DOMAIN loaded = (0..(n - 1)) \cup 0..(FirstLba + 1 + boot2size)
        /\ \A a \in 0..(n - 1) : a \notin FirstLba..(FirstLba + 1 + boot2size)
                => loaded[a] = platter[a]
        /\ \A a \in FirstLba..(FirstLba + 1 + boot2size) : loaded[a] = first[a - FirstLba + 1]
    BY <1>5, <1>7, <2>1 DEF Written
  <2>3. DOMAIN loaded = 0..(n - 1)
    BY <1>4, <2>1, <2>2
  <2>4. QED  BY <2>2, <2>3, Zenon
<1>9. /\ DOMAIN marked = 0..(n - 1) /\ bit \in 0..(n - 1)
       /\ \A a \in 0..(n - 1) : marked[a] = IF a = bit THEN <<"root bit", Held(loaded, bit)>>
                                          ELSE loaded[a]
  <2>1. bit \in 0..(n - 1)
    BY <1>4
  <2>2. OneSector(marked, loaded, n, bit, <<"root bit", Held(loaded, bit)>>)
    BY <1>4, <1>8, <2>1, OneWritten DEF marked
  <2>3. QED  BY <2>1, <2>2 DEF OneSector
<1>10. /\ DOMAIN done = 0..(n - 1)
       /\ \A a \in 0..(n - 1) : done[a] = IF a = root THEN <<"root">> ELSE marked[a]
  <2>1. root \in 0..(n - 1)
    BY <1>4
  <2>2. OneSector(done, marked, n, root, <<"root">>)
    BY <1>4, <1>9, <2>1, OneWritten DEF done
  <2>3. QED  BY <2>2 DEF OneSector
<1>11. Held(loaded, bit) = <<"zero">>
  <2>1. bit \notin FirstLba..(FirstLba + 1 + boot2size) /\ bit \in 1..(n - 1)
    BY <1>4
  <2>2. QED  BY <1>5, <1>8, <1>9, <2>1 DEF Held
<1>12. done[0] = <<"mbr">>
  <2>1. 0 \in 0..(n - 1) /\ 0 # root /\ 0 # bit /\ 0 \notin FirstLba..(FirstLba + 1 + boot2size)
    BY <1>4
  <2>2. QED  BY <1>5, <1>8, <1>9, <1>10, <2>1
<1>13. ASSUME NEW a \in 1..(n - 1)
       PROVE  done[a] = IF a - FirstLba < 0 THEN <<"zero">> ELSE Expected(Info, a - FirstLba)
  <2> DEFINE p == a - FirstLba
  <2>1. a \in 0..(n - 1) /\ p \in Int /\ a = FirstLba + p
    BY <1>4
  <2>2. CASE p < 0
    <3>1. a # root /\ a # bit /\ a \notin FirstLba..(FirstLba + 1 + boot2size)
      BY <1>4, <2>2
    <3>2. QED  BY <1>5, <1>8, <1>9, <1>10, <2>1, <2>2, <3>1
  <2>3. CASE p \in 0..(1 + boot2size)
    <3>1. a # root /\ a # bit /\ a \in FirstLba..(FirstLba + 1 + boot2size)
      BY <1>4, <2>1, <2>3
    <3>2. done[a] = first[p + 1]
      BY <1>8, <1>9, <1>10, <2>1, <3>1
    <3>3. CASE p \in 0..1
      <4>1. p + 1 \in 1..2 /\ ~(p < 0)
        BY <3>3
      <4>2. first[p + 1] = <<"info", Info>>
        BY <1>6, <4>1
      <4>3. QED  BY <3>2, <3>3, <4>1, <4>2 DEF Expected
    <3>4. CASE p \in 2..(1 + boot2size)
      <4>1. p + 1 \in 3..(2 + boot2size) /\ p \notin 0..1 /\ ~(p < 0)
        BY <1>4, <3>4
      <4>2. QED  BY <1>6, <3>2, <3>4, <4>1 DEF Expected
    <3>5. QED  BY <1>4, <2>3, <3>3, <3>4
  <2>4. CASE p > 1 + boot2size /\ p = sbf
    <3>1. a = bit /\ a # root
      BY <1>4, <2>1, <2>4
    <3>2. done[a] = <<"root bit", <<"zero">> >>
      BY <1>9, <1>10, <1>11, <2>1, <3>1
    <3>3. p \notin 0..1 /\ p \notin 2..(1 + boot2size) /\ ~(p < 0)
      BY <1>4, <2>4
    <3>4. QED  BY <2>4, <3>2, <3>3 DEF Expected, sbf
  <2>5. CASE p > 1 + boot2size /\ p # sbf
    <3>1. a # bit /\ a \notin FirstLba..(FirstLba + 1 + boot2size) /\ (a = root <=> p = f0)
      BY <1>4, <2>1, <2>5
    <3>2. done[a] = IF p = f0 THEN <<"root">> ELSE <<"zero">>
      BY <1>5, <1>8, <1>9, <1>10, <2>1, <3>1
    <3>3. p \notin 0..1 /\ p \notin 2..(1 + boot2size) /\ ~(p < 0)
      BY <1>4, <2>5
    <3>4. QED  BY <2>5, <3>2, <3>3 DEF Expected, sbf, f0
  <2>6. QED  BY <1>4, <2>1, <2>2, <2>3, <2>4, <2>5
<1>14. DOMAIN medium \ {0} = 1..(n - 1)
  BY <1>4, <1>5
<1>15. QED  BY <1>5, <1>10, <1>12, <1>13, <1>14

(* A step that leaves the platter, the disk and the areas alone.           *)
LEMMA NewKept ==
    /\ NewInv /\ UNCHANGED <<platter, medium, secamount, total, boot2size>>
    /\ stage' = stage \/ (stage = "boot" /\ stage' = "mounted")
    /\ stage' = "mounted" => (atufsinfo' \in {Info, NoAreas} /\ ClustersOnly')
    => NewInv'
<1> SUFFICES ASSUME NewInv, UNCHANGED <<platter, medium, secamount, total, boot2size>>,
                    stage' = stage \/ (stage = "boot" /\ stage' = "mounted"),
                    stage' = "mounted" => (atufsinfo' \in {Info, NoAreas} /\ ClustersOnly')
             PROVE  NewInv'
  OBVIOUS
<1>1. Info' = Info /\ Sound' = Sound
  BY DEF Info, Areas, files, startbmpcluster, hdsize, Sound, Taken, DiskSectors
<1>2. Uniform' /\ (stage' = "mkmbr" => stage = "mkmbr")
      /\ (stage' \in {"mkatufs", "fix"} => stage \in {"mkatufs", "fix"})
  BY DEF NewInv, Uniform
<1>3. NewVolume'
  <2>1. stage' \in {"boot", "mounted"} => stage \in {"boot", "mounted"}
    OBVIOUS
  <2>2. Areas(ClustersOf(total), BitmapSectors(total))' = Areas(ClustersOf(total), BitmapSectors(total))
    BY <1>1 DEF Info
  <2>3. \A i, p : Expected(i, p)' = Expected(i, p)
    BY DEF Expected
  <2>4. QED  BY <1>1, <2>1, <2>2, <2>3 DEF NewInv, NewVolume
<1>4. QED  BY <1>1, <1>2, <1>3 DEF NewInv

(* What NewVolume says of a sector and its contents.                       *)
Right(a, v) ==
    \/ a - FirstLba \in Info.cluster0..(Info.cluster0 + Info.clusters - 1)
    \/ v = IF a - FirstLba < 0 THEN <<"zero">> ELSE Expected(Info, a - FirstLba)

LEMMA NewStep == VInv /\ DriverInv /\ MountInv /\ NewInv /\ [Next]_vars => NewInv'
<1> SUFFICES ASSUME VInv, DriverInv, MountInv, NewInv, [Next]_vars PROVE NewInv'
  OBVIOUS
<1>1. ASSUME NEW asked \in Asked, MakePartition(asked) PROVE NewInv'
  <2>1. /\ stage = "mkmbr" /\ stage' = "mkatufs" /\ medium' = medium
        /\ platter' = [platter EXCEPT ![0] = <<"mbr">>]
    BY <1>1 DEF MakePartition
  <2>2. QED  BY <2>1 DEF NewInv, Uniform, NewVolume
<1>2. CASE Mkatufs \/ Fix
  <2>1. /\ platter' = platter /\ medium' = medium /\ stage \in {"mkatufs", "fix"} /\ stage' = "fix"
    BY <1>2 DEF Mkatufs, Fix, driverVars
  <2>2. QED  BY <2>1 DEF NewInv, Uniform, NewVolume
<1>3. CASE Format
  <2>1. stage' = "boot" /\ medium' = medium
    BY <1>3 DEF Format
  <2>2. NewVolume'
    BY <1>3, FormatNew
  <2>3. QED  BY <2>1, <2>2 DEF NewInv, Uniform
<1>4. CASE AskInfo
  <2>1. /\ UNCHANGED <<platter, medium, secamount, total, boot2size>>
        /\ stage' = stage /\ stage' # "mounted"
    BY <1>4 DEF AskInfo, Ask, Request
  <2>2. QED  BY <2>1, NewKept
<1>5. CASE init_atufs
  <2>1. io' = NoIo /\ platter' = platter
    BY <1>5 DEF init_atufs, Return
  <2>2. ClustersOnly'
    BY <2>1 DEF ClustersOnly, NoIo
  <2>3. QED  BY <1>5, <2>1, <2>2, InfoRead, NewKept DEF init_atufs
<1>6. CASE Access
  <2>1. stage = "mounted" /\ UNCHANGED <<stage, secamount, total, atufsinfo, boot2size, medium>>
    BY <1>6 DEF Access
  <2>2. platter' = platter
    BY <1>6 DEF Access, Ask, Request
  <2>3. Info' = Info
    BY <2>1 DEF Info, Areas, files, startbmpcluster, hdsize
  <2>4. ClustersOnly'
    <3>1. CASE Ask("read", atufsinfo.file0, Empty(1))
      BY <3>1 DEF Ask, Request, NoIo, ClustersOnly
    <3>2. ASSUME NEW c \in 0..(atufsinfo.clusters - 1), NEW n \in 1..MaxMove,
                 c + n <= atufsinfo.clusters,
                 \/ Ask("read", ClusterLba(c), Empty(n))
                 \/ Ask("write", ClusterLba(c), [p \in 1..n |-> <<"data", p>>])
          PROVE  ClustersOnly'
      <4> DEFINE data == [p \in 1..n |-> <<"data", p>>]
      <4>1. CASE Ask("read", ClusterLba(c), Empty(n))
        BY <4>1 DEF Ask, Request, NoIo, ClustersOnly
      <4>2. CASE Ask("write", ClusterLba(c), data)
        <5>1. n \in Nat /\ FirstLba \in Nat
          BY VolumeAssumption
        <5>2. Len(data) = n
          BY <5>1
        <5>3. atufsinfo \in InfoType /\ atufsinfo.clusters > 0
          BY <5>1, <3>2 DEF MountInv, InfoType
        <5>4. atufsinfo = Info
          BY <2>1, <5>3 DEF NewInv, NoAreas
        <5>5. io'.lba = FirstLba + (Info.cluster0 + c) /\ io'.sectors = n
          <6> HIDE DEF data
          <6>1. io' = [NoIo EXCEPT !.op = "write", !.lba = FirstLba + ClusterLba(c),
                                   !.sectors = Len(data)]
            BY <4>2 DEF Ask, Request
          <6>2. QED  BY <5>2, <5>4, <6>1 DEF NoIo, ClusterLba
        <5>6. Info.cluster0 \in Nat /\ Info.clusters \in Nat /\ c \in Nat
          BY <5>3, <5>4 DEF InfoType
        <5>7. QED  BY <2>3, <3>2, <5>1, <5>4, <5>5, <5>6 DEF ClustersOnly
      <4>3. QED  BY <3>2, <4>1, <4>2
    <3>3. QED  BY <1>6, <3>1, <3>2 DEF Access
  <2>5. QED  BY <2>1, <2>2, <2>4, NewKept DEF NewInv
<1>7. CASE Driver
  <2>1. /\ Command \/ Sector \/ Fail \/ (stage = "mounted" /\ Return)
        /\ UNCHANGED <<stage, secamount, total, atufsinfo, boot2size, medium>>
    BY <1>7 DEF Driver, Drive, volumeVars
  <2>2. Info' = Info /\ Sound' = Sound
    BY <2>1 DEF Info, Areas, files, startbmpcluster, hdsize, Sound, Taken, DiskSectors
  <2>3. stage = "mounted" => ClustersOnly'
    <3>1. SUFFICES ASSUME stage = "mounted", ClustersOnly PROVE ClustersOnly'
      BY DEF NewInv
    <3>2. CASE Command
      BY <2>2, <3>1, <3>2 DEF Command, ClustersOnly, DriverInv, Io
    <3>3. CASE Sector
      BY <2>2, <3>1, <3>3, SectorAdvances DEF ClustersOnly
    <3>4. CASE Fail
      BY <2>2, <3>1, <3>4, AdvancedIo DEF Fail, ClustersOnly, DriverInv
    <3>5. CASE Return
      BY <3>5 DEF Return, NoIo, ClustersOnly
    <3>6. QED  BY <2>1, <3>2, <3>3, <3>4, <3>5
  <2>4. CASE platter' = platter
    <3>1. /\ UNCHANGED <<platter, medium, secamount, total, boot2size>> /\ stage' = stage
          /\ stage' = "mounted" => atufsinfo' \in {Info, NoAreas} /\ ClustersOnly'
      BY <2>1, <2>3, <2>4 DEF NewInv
    <3>2. QED  BY <3>1, NewKept
  <2>5. CASE platter' # platter
    <3>1. Sector /\ io.op = "write" /\ ~Resting
      BY <2>1, <2>5, SectorAdvances DEF Command, Fail, Return, Sector, MoveSector, Resting
    <3>2. stage = "mounted"
      BY <3>1 DEF MountInv
    <3>3. PICK at \in DOMAIN platter : /\ platter' = [platter EXCEPT ![at] = platter'[at]]
                                       /\ at = io.lba + io.pos + io.s
      BY <3>1, SectorAdvances DEF Sector, MoveSector, DriverInv
    <3>4. at >= FirstLba + Info.cluster0 /\ at < FirstLba + Info.cluster0 + Info.clusters
          /\ at \in Nat /\ Info.cluster0 \in Nat /\ Info.clusters \in Nat /\ FirstLba \in Nat \ {0}
      <4>1. /\ io.lba >= FirstLba + Info.cluster0
            /\ io.lba + io.sectors <= FirstLba + Info.cluster0 + Info.clusters
        BY <3>1, <3>2 DEF NewInv, ClustersOnly
      <4>2. Info \in InfoType
        BY InfoTyped DEF MountInv, VInv
      <4>3. QED  BY <3>1, <3>3, <4>1, <4>2, SectorAdvances, VolumeAssumption DEF DriverInv, Io, InfoType
    <3>5. NewVolume'
      <4>1. SUFFICES ASSUME Sound, boot2size <= Boot2Room + Skipped, medium[0] = <<"zero">>
                     PROVE  /\ DOMAIN platter' = DOMAIN medium
                            /\ platter'[0] = <<"mbr">>
                            /\ \A a \in DOMAIN platter' \ {0} :
                                 Right(a, platter'[a])
        <5>1. Areas(ClustersOf(total), BitmapSectors(total))' = Info
          BY <2>2 DEF Info
        <5>2. \A i, p : Expected(i, p)' = Expected(i, p)
          BY <2>1 DEF Expected
        <5>3. QED  BY <2>1, <2>2, <5>1, <5>2 DEF NewVolume, Right
      <4>2. /\ DOMAIN platter = DOMAIN medium
            /\ platter[0] = <<"mbr">>
            /\ \A a \in DOMAIN platter \ {0} :
                 Right(a, platter[a])
        BY <3>2, <4>1 DEF NewInv, NewVolume, Info, Right
      <4>3. DOMAIN platter' = DOMAIN platter /\ \A a \in DOMAIN platter : a # at => platter'[a] = platter[a]
        BY <3>3
      <4>4. at - FirstLba \in Info.cluster0..(Info.cluster0 + Info.clusters - 1) /\ at # 0
        BY <3>4
      <4>5. 0 \in DOMAIN platter
        BY <4>2 DEF NewInv, Uniform
      <4>6. ASSUME NEW a \in DOMAIN platter' \ {0}
            PROVE  Right(a, platter'[a])
        <5>1. a \in DOMAIN platter \ {0} /\ (a # at => platter'[a] = platter[a])
          BY <4>3
        <5>2. CASE a = at
          BY <4>4, <5>2 DEF Right
        <5>3. CASE a # at
          BY <4>2, <5>1, <5>3
        <5>4. QED  BY <5>2, <5>3
      <4>7. platter'[0] = <<"mbr">>
        BY <4>2, <4>3, <4>4, <4>5
      <4>8. DOMAIN platter' = DOMAIN medium
        BY <4>2, <4>3
      <4>9. QED  BY <4>6, <4>7, <4>8
    <3>6. QED  BY <2>1, <2>2, <2>3, <3>2, <3>5 DEF NewInv, Uniform
  <2>6. QED  BY <2>4, <2>5
<1>8. CASE Done \/ UNCHANGED vars
  <2>1. UNCHANGED vars
    BY <1>8 DEF Done
  <2>2. Info' = Info
    BY <2>1 DEF vars, volumeVars, Info, Areas, files, startbmpcluster, hdsize
  <2>3. UNCHANGED <<io, atufsinfo>>
    BY <2>1 DEF vars, driverVars, volumeVars
  <2>4. /\ UNCHANGED <<platter, medium, secamount, total, boot2size>> /\ stage' = stage
    BY <2>1 DEF vars, driverVars, volumeVars
  <2>5. stage' = "mounted" => atufsinfo' \in {Info, NoAreas} /\ ClustersOnly'
    BY <2>2, <2>3, <2>4 DEF NewInv, ClustersOnly
  <2>6. QED  BY <2>4, <2>5, NewKept
<1>9. QED
  BY <1>1, <1>2, <1>3, <1>4, <1>5, <1>6, <1>7, <1>8 DEF Next

(* A volume that mkatufs makes on a zeroed disk stays what it was made but *)
(* for its clusters: neither the tools (mkatufs.c main) nor the kernel's   *)
(* work on clusters, nor errors of the device, touch another sector.       *)
THEOREM NewVolumeStays == Spec => []NewVolume
<1> DEFINE Inv == VInv /\ DriverInv /\ MountInv /\ NewInv
<1>1. Init => Inv
  BY VInvInit, VolumeInit, NewInit
<1>2. Inv /\ [Next]_vars => Inv'
  BY VInvStep, VolumeStep, NewStep DEF VInv
<1>3. Inv => NewVolume
  BY DEF NewInv
<1> HIDE DEF Inv
<1>4. QED  BY <1>1, <1>2, <1>3, PTL DEF Spec
=============================================================================
