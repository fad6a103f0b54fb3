------------------------------ MODULE Directory -------------------------------
(***************************************************************************)
(* The directories of ATUFS (src/lib/atufs.c 176-276) and the copy tool    *)
(* that fills them (src/tools/cpatufs.c, main), on a machine that may stop *)
(* between any two sectors. A directory is a file: a list of entries, each *)
(* a header and a name, which is read whole, changed and written whole by  *)
(* write_file.                                                             *)
(*                                                                         *)
(* Lengths are counted in units of 8 bytes, the length of a header and the *)
(* step of a name's length; a unit of a name is one number. What the name  *)
(* of an entry would mean as a header is not modelled: after a directory   *)
(* has been spoilt (below) nothing is claimed about its contents.          *)
(***************************************************************************)
EXTENDS AtufsDisk

CONSTANTS
    Paths,          \* what is copied to: directories and a name
    Lengths,        \* lengths of copied files
    MaxOps,         \* operations started
    MaxCrashes      \* crashes

ASSUME DirAssumption ==
    /\ Paths \subseteq Seq(Seq(Nat \ {0})) \ {<<>>} /\ Lengths \subseteq Nat
    /\ MaxOps \in Nat /\ MaxCrashes \in Nat

VARIABLES
    hung,           \* a loop over a directory does not end
    ops, crashes,   \* how many there were
    named,          \* entries made by finished copies and not removed since
    pending,        \* the entry of the running copy
    copied,         \* the files that were copied whole, and their lengths
    spoilt          \* directories that write_file or a crash has damaged

dirHistory == <<ops, crashes, named, pending, copied, spoilt>>
dirVars == <<diskVars, hung, dirHistory>>

DirInit ==
    /\ DiskInit
    /\ hung = FALSE
    /\ ops = 0 /\ crashes = 0
    /\ named = {} /\ pending = {} /\ copied = {} /\ spoilt = {}

-----------------------------------------------------------------------------
(* A unit of a directory: a header (size > 0) or a unit of a name.         *)
Zero == [file |-> 0, size |-> 0, used |-> FALSE, len |-> 0, ch |-> 0]
Header(file, used, len) ==
    [file |-> file, size |-> 1 + len, used |-> used, len |-> len, ch |-> 0]
Letter(c) == [Zero EXCEPT !.ch = c]
At(units, i) == IF i \in DOMAIN units THEN units[i] ELSE Zero

(* A buffer of n units, cleared, into which read_filedata has read.        *)
Buffer(d, inode, n) ==
    LET inCell(p, i) == At(p[1], (p[2] - 1) * ClusterBytes + i)
        large(parts) ==
            [i \in 1..n |-> LET k == 1 + (i - 1) \div ClusterBytes
                           IN  IF k > Len(parts) THEN Zero
                               ELSE inCell(parts[k], 1 + ((i - 1) % ClusterBytes))]
        small == [i \in 1..n |-> IF i > inode.size THEN Zero ELSE At(inode.inline, i)]
    IN  IF inode.large THEN large(ContentsOn(d, inode)) ELSE small

(* cmpstr_limit of the entry at offset o: its first n units and a name.    *)
Matches(b, o, name, n) ==
    \A i \in 1..n : At(b, o + 1 + i).ch = IF i <= Len(name) THEN name[i] ELSE 0

(* The offsets of the entries that a walk over the directory meets.        *)
Offsets(b, size) ==
    LET from[o \in Nat] == IF o >= size \/ At(b, o + 1).size = 0 THEN <<>>
                           ELSE <<o>> \o from[o + At(b, o + 1).size]
    IN  from[0]

FileAt(b, hits) == IF hits = <<>> THEN 0 ELSE b[Head(hits) + 1].file

(* Mutant of find_file: the first unit of a name is compared.              *)
find_fileFirst(b, size, name) ==
    FileAt(b, SelectSeq(Offsets(b, size), LAMBDA o : Matches(b, o, name, 1)))

(* The first entry whose name the wanted name begins with; 0 without one.  *)
find_file(b, size, name) ==
    FileAt(b, SelectSeq(Offsets(b, size), LAMBDA o : Matches(b, o, name, b[o + 1].len)))

(* Mutant of Place: an entry in use is taken.                              *)
PlaceOver(b, n, len) == 0

(* The offset where create_entry puts a name of len units: a removed entry *)
(* that is long enough, or the end; n when there is none.                  *)
Place(b, n, len) ==
    LET fits(u) == u.size = 0 \/ u.size >= 1 + len
        from[o \in Nat] ==
            LET u == At(b, o + 1)
            IN  CASE o >= n                      -> n
                  [] u.used                      -> from[o + u.size]
                  [] ~u.used /\ o + u.size > n   -> n
                  [] ~u.used /\ fits(u)          -> o
                  [] OTHER                       -> from[o + u.size]
    IN  from[0]

(* The header in place of an old one: a removed entry keeps its length.    *)
Reused(old, header) == IF old.size = 0 THEN header ELSE [header EXCEPT !.size = old.size]

(* The buffer with an entry at o.                                          *)
Put(b, o, file, used, name) ==
    [i \in DOMAIN b |-> CASE i = o + 1 -> Reused(b[i], Header(file, used, Len(name)))
                          [] i - o - 1 \in 1..Len(name) -> Letter(name[i - o - 1])
                          [] OTHER -> b[i]]

(* The result of an operation on a directory: the state, whether its       *)
(* contents are damaged by write_file, and whether it does not end.        *)
Written(s, dir, inode, size, b) ==
    LET fragments == SameNeed(inode, size) /\ Leading(inode.ext) # 1
        result(w) == [s |-> w.s, hung |-> FALSE, bad |-> w.short \/ fragments]
    IN  result(write_file(s, dir, inode, size, b))
Unwritten(s, stuck) == [s |-> s, hung |-> stuck, bad |-> FALSE]

(* bad as well: the entry does not come before the directory's end or just *)
(* there, because a crash kept the data of the directory and lost its inode*)
(* (a removed entry behind the end may even be taken again).               *)
EnterAt(s, dir, inode, b, o, file, used, name) ==
    LET appended == b[o + 1].size = 0
        size == inode.size + IF appended THEN 1 + Len(name) ELSE 0
    IN  IF o >= Len(b) THEN Unwritten(s, FALSE)
        ELSE [Written(s, dir, inode, size, Put(b, o, file, used, name))
                 EXCEPT !.bad = @ \/ (IF appended THEN o # inode.size ELSE o >= inode.size)]

(* used: the attribute of the new entry, 0 in one that counts as removed.  *)
create_entry(s, file, used, dir, name) ==
    LET inode == s.disk[Inode(dir)]
        n == ClusterBytes * Need(inode.size + 1 + Len(name))
        enter(b) == EnterAt(s, dir, inode, b, Place(b, n, Len(name)), file, used, name)
    IN  enter(Buffer(s.disk, inode, n))

(* Buffers of the other two: a byte more than the contents.                *)
Whole(inode) == ClusterBytes * (inode.size \div ClusterBytes + 1)

(* Names are compared over the length of the one given, removed entries    *)
(* are not passed over, and without a match the loop does not end where    *)
(* the directory does: it stays on an entry of no length, or goes on into  *)
(* what the memory held before and writes the directory as it was.         *)
delete_entry(s, dir, name) ==
    LET inode == s.disk[Inode(dir)]
        cleared(b, o) == [i \in DOMAIN b |->
            CASE i = o + 1 -> [b[i] EXCEPT !.used = FALSE]
              [] i - o - 1 \in 1..b[o + 1].len -> Zero
              [] OTHER -> b[i]]
        delete(b, hits) ==
            IF hits # <<>> THEN {Written(s, dir, inode, inode.size, cleared(b, Head(hits)))}
            ELSE {Unwritten(s, TRUE), Written(s, dir, inode, inode.size, b)}
        search(b) ==
            delete(b, SelectSeq(Offsets(b, Len(b)), LAMBDA o : Matches(b, o, name, Len(name))))
    IN  search(Buffer(s.disk, inode, Whole(inode)))

(* A longer name becomes a second entry, and the old one stays: it is      *)
(* removed from the buffer after the buffer was written. Of a shorter one  *)
(* only the new length is cleared: the rest of the old name stays behind   *)
(* it, where delete_entry compares it (bad). An entry of size 0 before the *)
(* end, in a directory that was spoilt, is compared as well: over no units *)
(* any name is its name, otherwise the loop stays on it.                   *)
rename_entry(s, dir, old, new) ==
    LET inode == s.disk[Inode(dir)]
        renamed(b, o) == [i \in DOMAIN b |->
            CASE i = o + 1 -> [b[i] EXCEPT !.len = Len(new)]
              [] i - o - 1 \in 1..Len(new) -> Letter(new[i - o - 1])
              [] OTHER -> b[i]]
        again(same, u) ==
            [create_entry(same.s, u.file, u.used, dir, new) EXCEPT !.bad = @ \/ same.bad]
        end(b, all) == IF all = <<>> THEN 0 ELSE Last(all) + b[Last(all) + 1].size
        compared(b, all) == IF end(b, all) < inode.size THEN Append(all, end(b, all)) ELSE all
        rename(b, all, hits) ==
            CASE hits = <<>> -> Unwritten(s, end(b, all) < inode.size)
              [] hits # <<>> /\ At(b, Head(hits) + 1).len >= Len(new) ->
                   [Written(s, dir, inode, inode.size, renamed(b, Head(hits)))
                       EXCEPT !.bad = @ \/ At(b, Head(hits) + 1).len > Len(new)]
              [] OTHER -> again(Written(s, dir, inode, inode.size, b), At(b, Head(hits) + 1))
        search(b, all) ==
            rename(b, all, SelectSeq(compared(b, all),
                                     LAMBDA p : Matches(b, p, old, At(b, p + 1).len)))
        walk(b) == search(b, Offsets(b, inode.size))
    IN  walk(Buffer(s.disk, inode, Whole(inode)))

-----------------------------------------------------------------------------
(* The directory of a path. A directory that is not found is taken for the *)
(* root, while the contents searched next are still those of the last one. *)
Resolve(d, path) ==
    FoldLeft(LAMBDA w, token :
                LET f == find_file(Buffer(d, w.inode, w.inode.size), w.inode.size, token)
                IN  [dir |-> f, inode |-> IF f = 0 THEN w.inode ELSE d[Inode(f)]],
             [dir |-> Root, inode |-> d[Inode(Root)]], Front(path))

(* What copied files hold, told apart by their numbers.                    *)
Stamp(n) == <<Letter(n)>>

Start(r, dir) ==
    /\ Begin(r.s)
    /\ hung' = r.hung
    /\ spoilt' = IF r.bad THEN spoilt \cup {dir} ELSE spoilt
    /\ ops < MaxOps
    /\ ops' = ops + 1
    /\ UNCHANGED crashes

(* What was copied, after a copy to a file that may have failed before.    *)
Replaced(contents, short) ==
    {c \in copied : c.file # contents.file} \cup (IF short THEN {} ELSE {contents})

(* Mutant of Copy: the entry is made before the file.                      *)
CopyEntryFirst(path, size) ==
    /\ Idle /\ ~hung
    /\ FreeFiles(Now) # {}
    /\ LET file == alocate_file(Now).file
           dir == Resolve(disk, path).dir
           e == create_entry(Now, file, TRUE, dir, Last(path))
           c == create(e.s, size, Stamp(ops))
           contents == [file |-> file, size |-> size, stamp |-> Stamp(ops)]
       IN  /\ Start([e EXCEPT !.s = c.s], dir)
           /\ copied' = Replaced(contents, c.short)
           /\ pending' = {[dir |-> dir, name |-> Last(path), file |-> file]}
    /\ UNCHANGED named

(* Files that may be directories. There is no tool to make one: an empty   *)
(* file serves, and a path is taken to go through such files only.         *)
Empty == {Root} \cup {c.file : c \in {c \in copied : c.size = 0}}

(* One call of cpatufs. atufsinfo is read again after create_file. When no *)
(* file is free, create_file has returned 1 and file 1 gets the name.      *)
Copy(path, size) ==
    LET c == create(Now, size, Stamp(ops))
        s == [c.s EXCEPT !.info = c.s.disk[Info]]
        dir == Resolve(s.disk, path).dir
        entry == [dir |-> dir, name |-> Last(path), file |-> c.file]
        contents == [file |-> c.file, size |-> size, stamp |-> Stamp(ops)]
        enter(e) == /\ Start(e, dir)
                    /\ pending' = IF e.s = s THEN {} ELSE {entry}
    IN  /\ Idle /\ ~hung
        /\ dir \in Empty
        /\ enter(create_entry(s, c.file, TRUE, dir, Last(path)))
        /\ copied' = IF c.made THEN Replaced(contents, c.short) ELSE copied
        /\ UNCHANGED named

DeleteEntry(dir, name) ==
    /\ Idle /\ ~hung
    /\ \E r \in delete_entry(Now, dir, name) : Start(r, dir)
    /\ named' = {t \in named : ~(t.dir = dir /\ IsPrefix(name, t.name))}
    /\ UNCHANGED <<copied, pending>>

RenameEntry(dir, old, new) ==
    /\ Idle /\ ~hung
    /\ Start(rename_entry(Now, dir, old, new), dir)
    /\ named' = {t \in named : ~(t.dir = dir /\ IsPrefix(t.name, old))}
    /\ UNCHANGED <<copied, pending>>

(* The next sector reaches the disk; with the last one the copy is done.   *)
Flush ==
    /\ FlushSector
    /\ IF Len(todo) = 1 THEN named' = named \cup pending /\ pending' = {}
                        ELSE UNCHANGED <<named, pending>>
    /\ UNCHANGED <<hung, ops, crashes, copied, spoilt>>

Unflushed == {todo[i].at : i \in DOMAIN todo}
Directories == {Root} \cup {t.dir : t \in named}

(* A directory in several clusters of which a removal or a renaming has    *)
(* written some: an entry may be marked as removed and still have its name.*)
Torn ==
    LET own(dir) == {Data(c) : c \in UNION {CellsOf(<<dir, i>>) : i \in 1..Extents}}
        partly(dir) == own(dir) \cap Unflushed # {} /\ ~(own(dir) \subseteq Unflushed)
    IN  {dir \in Directories : pending = {} /\ Inode(dir) \in Unflushed /\ partly(dir)}

(* The machine stops and is started again, and reads atufsinfo. A file     *)
(* whose inode was not written is not there.                               *)
Crash ==
    /\ ~Idle \/ hung
    /\ crashes < MaxCrashes
    /\ crashes' = crashes + 1
    /\ todo' = <<>>
    /\ info' = disk[Info]
    /\ hung' = FALSE
    /\ pending' = {}
    /\ copied' = {c \in copied : c.stamp # Stamp(ops - 1) \/ Inode(c.file) \notin Unflushed}
    /\ spoilt' = spoilt \cup Torn
    /\ UNCHANGED <<disk, ops, named>>

Names == {Last(p) : p \in Paths}

DirNext ==
    \/ \E path \in Paths, size \in Lengths : Copy(path, size)
    \/ \E dir \in Directories, name \in Names : DeleteEntry(dir, name)
    \/ \E dir \in Directories, old \in Names, new \in Names : RenameEntry(dir, old, new)
    \/ Flush
    \/ Crash

DirSpec == DirInit /\ [][DirNext]_dirVars

-----------------------------------------------------------------------------
(* The entries of a directory that can be found, as they are on the disk.  *)
Visible(dir) ==
    LET inode == disk[Inode(dir)]
        b == Buffer(disk, inode, inode.size)
        entry(o) == At(b, o + 1)
    IN  {[dir |-> dir, name |-> [i \in 1..entry(o).len |-> At(b, o + 1 + i).ch],
          file |-> entry(o).file] :
         o \in {o \in ToSet(Offsets(b, inode.size)) : entry(o).used}}

(* An entry, once a copy has made it, is there at every moment, through    *)
(* later copies, deletes and renames of names it does not begin with (or,  *)
(* for a rename, that do not begin with it) and through crashes: unless    *)
(* its directory was spoilt, by a rewrite of the same number of clusters   *)
(* that were not in one extent, by a volume that ran full, by an entry     *)
(* behind its end, by a rename to a shorter name, or by a crash in the     *)
(* middle of a removal or a renaming in several clusters.                  *)
EntriesKept == \A t \in named : t.dir \notin spoilt => t \in Visible(t.dir)

(* What an entry that can be found names is complete, at every moment:     *)
(* cpatufs writes the file before its entry. The exceptions are file 1 in  *)
(* place of a file that there was no room for, and files cut short.        *)
FilesComplete ==
    \A t \in UNION {Visible(dir) : dir \in Directories \ spoilt} :
        \A c \in copied : (c.file = t.file /\ c.size > 0) => Reads(c.file) = Intended(c.size, c.stamp)

(* An entry hides a name: it begins it, in a field that zeros fill.        *)
Hides(a, b) == \A i \in DOMAIN a : a[i] = IF i \in DOMAIN b THEN b[i] ELSE 0

(* A name is found, and as the file it was given, when no other entry of   *)
(* its directory begins it.                                                *)
NamesFound == Idle =>
    \A t \in named :
        LET inode == disk[Inode(t.dir)]
            rivals == {v \in Visible(t.dir) : Hides(v.name, t.name)}
        IN  (t.dir \notin spoilt /\ rivals = {t}) =>
                find_file(Buffer(disk, inode, inode.size), inode.size, t.name) = t.file

(* At any moment the machine may stop at, between any two sectors, no      *)
(* cluster is in two extents, each that is in one is marked, so that after *)
(* a restart no one is given a cluster of another file, and no more are in *)
(* extents than are counted, so that clear_clusters will not decline to    *)
(* clear them. (Marked without being counted a cluster may be: of a run    *)
(* that ends in a later sector of the bitmap, alocate_clusters writes the  *)
(* first sectors before the count. It is lost then, but nobody's.)         *)
CrashSafe ==
    /\ NoneShared
    /\ AllMarked
    /\ Cardinality(Referenced) <= disk[Info].clusters
=============================================================================
