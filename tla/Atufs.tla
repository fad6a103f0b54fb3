-------------------------------- MODULE Atufs ---------------------------------
(***************************************************************************)
(* The files of ATUFS (src/lib/atufs.c): every operation on files, in any  *)
(* order, by a machine that does not crash. What a crash does is the       *)
(* subject of module Directory.                                            *)
(***************************************************************************)
EXTENDS AtufsDisk

CONSTANTS
    Sizes,          \* lengths that are written
    Stamps          \* what tells one write from another

ASSUME InputAssumption == Sizes \subseteq Nat /\ <<>> \notin Stamps

VARIABLES           \* history, read by the properties only
    op,             \* the last operation
    live,           \* files in use
    deleted,        \* files a delete was asked for
    strained        \* a write ran short, or a file was given out twice

history == <<op, live, deleted, strained>>
vars == <<diskVars, history>>

NoOp == [name |-> "none", file |-> Root, size |-> 0, stamp |-> <<>>, short |-> FALSE,
         same |-> FALSE, runs |-> 0]

Init ==
    /\ DiskInit
    /\ op = NoOp
    /\ live = {Root}
    /\ deleted = {}
    /\ strained = FALSE

-----------------------------------------------------------------------------
(* A new file, on a volume that has one left.                              *)
create_file(size, stamp) ==
    LET begin(c) ==
            /\ c.made
            /\ Begin(c.s)
            /\ op' = [NoOp EXCEPT !.name = "create", !.file = c.file, !.size = size,
                                  !.stamp = stamp, !.short = c.short]
            /\ live' = live \cup {c.file}
            /\ deleted' = deleted \ {c.file}
            /\ strained' = (strained \/ c.short \/ c.file \in live)
    IN  Idle /\ begin(create(Now, size, stamp))

(* A caller rewrites a file whose inode it has just read.                  *)
rewrite_file(f, size, stamp) ==
    LET inode == disk[Inode(f)]
        begin(w) ==
            /\ Begin(w.s)
            /\ op' = [name |-> "write", file |-> f, size |-> size, stamp |-> stamp,
                      short |-> w.short, same |-> SameNeed(inode, size),
                      runs |-> Leading(inode.ext)]
            /\ strained' = (strained \/ w.short)
    IN  /\ Idle
        /\ begin(write_file(Now, f, inode, size, stamp))
        /\ UNCHANGED <<live, deleted>>

(* delete_file of a file there is. When bit f is clear it returns.         *)
remove_file(f) ==
    /\ Idle
    /\ deleted' = deleted \cup {f}
    /\ UNCHANGED strained
    /\ \/ /\ f \in disk[FBmp]
          /\ Begin(delete_file(Now, f))
          /\ op' = [NoOp EXCEPT !.name = "delete", !.file = f]
          /\ live' = live \ {f}
       \/ /\ f \notin disk[FBmp]
          /\ UNCHANGED <<diskVars, op, live>>

Next ==
    \/ \E size \in Sizes, stamp \in Stamps : create_file(size, stamp)
    \/ \E f \in live, size \in Sizes, stamp \in Stamps : rewrite_file(f, size, stamp)
    \/ \E f \in live \ {Root} : remove_file(f)
    \/ FlushSector /\ UNCHANGED history

Spec == Init /\ [][Next]_vars

-----------------------------------------------------------------------------
(* The bitmaps, the extents and the counts stay within the volume: no write *)
(* goes past its last cluster, no count below zero.                        *)
TypeOK ==
    /\ disk[FBmp] \subseteq 0..BitOf(Files - 1)
    /\ disk[CBmp] \subseteq 0..(Clusters - 1)
    /\ Referenced \subseteq 0..(Clusters - 1)
    /\ disk[Info] \in [files : Nat, clusters : Nat]
    /\ live \subseteq 0..(Files - 1)

(* Between operations no cluster is in two extents, and one that is in an  *)
(* extent is marked: a file never gets the cluster of another, whatever    *)
(* creates, rewrites and deletes came before. (During a delete or a shrink *)
(* clear_clusters frees clusters before the inode that has them is written.) *)
OwnersApart == Idle => NoneShared /\ AllMarked

(* Between operations the counters of the information sector agree with    *)
(* the bitmaps; clear_clusters declines to clear more clusters than are    *)
(* counted, so a count too low would leak them.                            *)
CountersAgree == Idle =>
    /\ disk[Info] = info
    /\ info.clusters = Cardinality(disk[CBmp])
    /\ info.files + 1 = Cardinality(disk[FBmp])

(* No cluster stays marked that no file has, until a write runs short.     *)
NoLeak == (Idle /\ ~strained) => disk[CBmp] \subseteq Referenced

(* A write that did not run short reads back as it was written, unless the *)
(* number of clusters stayed and they were not in one extent: then parts   *)
(* are written twice, or (contents that were inline) not at all.           *)
ReadsBack ==
    (Idle /\ op.name \in {"create", "write"} /\ ~op.short /\ ~(op.same /\ op.runs # 1))
        => Reads(op.file) = Intended(op.size, op.stamp)

(* A file in use has its bit, unless a delete was asked for the file whose *)
(* number is that bit: alocate_file and delete_file count bits differently. *)
LiveHasBit == Idle => \A f \in live : BitOf(f) \in disk[FBmp] \/ BitOf(f) \in deleted
=============================================================================
