------------------------------- MODULE Paging --------------------------------
(***************************************************************************)
(* Page directories and tables, the window of the direct map, the heap's   *)
(* malloc and free, and load_program: src/kernel/paging.c, heap.c 60-117,  *)
(* kernel.c 131-170 and the system calls 4 and 5.                          *)
(*                                                                         *)
(* An operation is one thread's straight path with nothing that waits and  *)
(* nothing an interrupt handler shares, so it is computed whole, on a      *)
(* record m:                                                               *)
(*   used   physical pages that have an owner                              *)
(*   dir    "kernel", "prog" -> page directory                             *)
(*   tbl    page frame of a table -> its entries                           *)
(*   win    slots of the direct map in use                                 *)
(*   stop   page fault in the kernel, or memory it stands on overwritten:  *)
(*          nothing is known from here on                                  *)
(*   tble, slot    the table map_page has open, and where                  *)
(*   own    the slot of the directory load_program fills                   *)
(*   phys, virt    results of ppalloc and vpalloc                          *)
(*   early         map_page met a page that is present and returned        *)
(***************************************************************************)
EXTENDS Bitmap, Sequences, SequencesExt

CONSTANTS
    PdEntries,      \* 1024
    PtEntries,      \* 1024
    StackPage,      \* 0xB0000: where a program's stack is mapped
    StackPages,     \* 8
    DirPage,        \* 0xD0000: where a directory is mapped in itself
    KernelDirs,     \* 768 and on for the kernel, 832 and 896 to 1023
    Slots,          \* 0x10000: slots of the direct map phys_to_virt looks at
    PageSize,       \* 4096
    Header,         \* 16: sizeof(struct malloc_header)
    Word,           \* 2^32
    FrameSpace,     \* 2^20
    Limit,          \* heap_size: page frames ppalloc searches
    LowPages,       \* 0x100
    Reserved,       \* LowPages and the pages of the kernel
    Sizes,          \* bytes callers ask for
    Programs,       \* what load_program is given, see load_program
    MaxBlocks,      \* bound: blocks that malloc returned and free was not given
    MaxFailed       \* bound: blocks and stacks without frames

ASSUME PagingAssumption ==
    /\ PdEntries \in Nat \ {0} /\ PtEntries \in Nat \ {0} /\ PageSize \in Nat \ {0}
    /\ {StackPage, DirPage} \subseteq Nat /\ StackPages \in Nat \ {0}
    /\ StackPage + StackPages <= DirPage /\ DirPage < PdEntries * PtEntries
    /\ KernelDirs \subseteq 0..(PdEntries - 1) /\ PdEntries - 1 \in KernelDirs
    /\ Slots \in Nat /\ {0, 1} \subseteq 0..(Slots - 1)
    /\ LowPages \in Nat /\ Reserved \in Nat /\ LowPages < Reserved
    /\ {Limit, FrameSpace} \subseteq Nat /\ Reserved <= Limit /\ Limit < FrameSpace - 1
    /\ Header \in 1..PageSize /\ Word \in Nat \ {0} /\ Word % PageSize = 0
    /\ Word <= PdEntries * PtEntries * PageSize
    /\ Sizes \subseteq 0..(Word - 1)
    /\ MaxBlocks \in Nat /\ MaxFailed \in Nat

VARIABLES
    mem,            \* the record above
    cr3,            \* whose directory is in use
    blocks,         \* history: what malloc returned and free was not given
    program,        \* history: the program loaded, as NoProgram or of Programs
    image,          \* history: the first frame of each of its segments
    met             \* history: directory entries the kernel had used by then

vars == <<mem, cr3, blocks, program, image, met>>

None == -1
Absent == [at |-> None, user |-> FALSE, full |-> FALSE]
NoPage == [at |-> None, user |-> FALSE]
EmptyTable == [e \in 0..(PtEntries - 1) |-> NoPage]
NoProgram == [compatible |-> FALSE, segments |-> <<>>]

(* What ppalloc returns when it finds nothing, as a page frame.            *)
Failure == FrameSpace - 1

Dir(page) == page \div PtEntries
Ent(page) == page % PtEntries
VirtualPages == 0..(PdEntries * PtEntries - 1)

(* The directory and the stack have one entry each.                        *)
ASSUME DirectoryAssumption ==
    /\ Dir(DirPage) \in KernelDirs
    /\ Dir(StackPage + StackPages - 1) = Dir(StackPage)

(* The entries config_paging sets have full_pagedir; nothing here looks    *)
(* into their tables.                                                      *)
KernelEntry == [at |-> LowPages, user |-> FALSE, full |-> TRUE]
page_directory ==
    [d \in 0..(PdEntries - 1) |-> IF d \in KernelDirs THEN KernelEntry ELSE Absent]

(* Slot 0 is the boot information, slot 1 the screen.                      *)
Permanent == {0, 1}

Init ==
    /\ mem = [used |-> 0..(Reserved - 1),
              dir |-> [kernel |-> page_directory, prog |-> page_directory],
              tbl |-> [t \in {} |-> EmptyTable], win |-> Permanent, stop |-> FALSE, early |-> FALSE,
              tble |-> None, slot |-> 0, own |-> 0, phys |-> 0, virt |-> 0]
    /\ cr3 = "kernel"
    /\ blocks = {}
    /\ program = NoProgram
    /\ image = <<>>
    /\ met = {}

-----------------------------------------------------------------------------
(* Entries and tables *)

(* The table entry of a page, NoPage without a table.                      *)
Pte(m, pd, page) ==
    LET t == m.dir[pd][Dir(page)].at
    IN  IF t \in DOMAIN m.tbl THEN m.tbl[t][Ent(page)] ELSE NoPage

Stop(m) == [m EXCEPT !.stop = TRUE]

(* Mutant of ppalloc: the last page of the run is not marked.              *)
ppallocShort(m, n) ==
    IF HasZeroRun(m.used, n, Limit)
    THEN LET a == FirstFit(m.used, n, Limit)
         IN  [m EXCEPT !.used = mark_true(@, a, n) \ {a + n - 1}, !.phys = a]
    ELSE [m EXCEPT !.phys = Failure]

ppalloc(m, n) ==
    IF HasZeroRun(m.used, n, Limit)
    THEN LET a == FirstFit(m.used, n, Limit)
         IN  [m EXCEPT !.used = mark_true(@, a, n), !.phys = a]
    ELSE [m EXCEPT !.phys = Failure]

(* One slot for the table or directory in frame f. Without one the result  *)
(* is address 0, which is not mapped.                                      *)
phys_to_virt(m, f) ==
    IF HasZeroRun(m.win, 1, Slots)
    THEN LET s == FirstFit(m.win, 1, Slots)
         IN  [m EXCEPT !.win = mark_true(@, s, 1), !.slot = s, !.tble = f]
    ELSE Stop(m)

free_directmap(m, s) == [m EXCEPT !.win = mark_false(@, s, 1), !.tble = None]

is_full(m) == \A e \in DOMAIN m.tbl[m.tble] : m.tbl[m.tble][e] # NoPage

(* olddirentry is never set, so the table of the page before is closed for *)
(* every page; a full one is marked in entry 4096 of the directory, which  *)
(* lies behind its page where nothing is mapped.                           *)
NextTable(m) ==
    IF m.tble = None THEN m
    ELSE IF is_full(m) THEN Stop(m) ELSE free_directmap(m, m.slot)

(* A table without a frame lies where nothing stores what is written.      *)
TableAt(m, pd, page, user, full) ==
    IF m.phys = Failure THEN Stop(m)
    ELSE phys_to_virt([m EXCEPT
             !.tbl = [t \in DOMAIN @ \cup {m.phys} |->
                         IF t = m.phys THEN EmptyTable ELSE @[t]],
             !.dir[pd][Dir(page)] = [at |-> m.phys, user |-> user, full |-> full]], m.phys)
NewTable(m, pd, page, user, full) == TableAt(ppalloc(m, 1), pd, page, user, full)

(* Mutant of OldTable: a page that is present is mapped anew.              *)
OldTableOver(m, pd, page) ==
    IF m.dir[pd][Dir(page)].at \notin DOMAIN m.tbl THEN Stop(m)
    ELSE phys_to_virt(m, m.dir[pd][Dir(page)].at)

(* The attributes of an entry that exists gain multiple_pagedir, which     *)
(* nothing reads, and never user_page. What is in the tables config_paging *)
(* filled is not modelled: a program linked there is not followed further. *)
OldTable(m, pd, page) ==
    IF m.dir[pd][Dir(page)].at \notin DOMAIN m.tbl THEN Stop(m)
    ELSE [phys_to_virt(m, m.dir[pd][Dir(page)].at) EXCEPT
             !.early = Pte(m, pd, page) # NoPage]

OpenTable(m, pd, page, user, full) ==
    IF m.stop THEN m
    ELSE IF m.dir[pd][Dir(page)] = Absent THEN NewTable(m, pd, page, user, full)
    ELSE OldTable(m, pd, page)

Enter(m, page, pte) ==
    IF m.stop \/ m.early THEN m ELSE [m EXCEPT !.tbl[m.tble][Ent(page)] = pte]

(* One round of map_page, and the loop.                                    *)
MapOne(m, pd, frame, page, user, full) ==
    Enter(OpenTable(NextTable(m), pd, page, user, full), page,
          [at |-> frame % FrameSpace, user |-> user])
MapRound(m, pd, frame, page, user, full) ==
    IF m.stop \/ m.early THEN m ELSE MapOne(m, pd, frame, page, user, full)
MapPages(m, pd, frame, page, n, user, full) ==
    LET map[k \in 0..n] ==
            IF k = 0 THEN [m EXCEPT !.tble = None, !.early = FALSE]
            ELSE MapRound(map[k - 1], pd, frame + k - 1, page + k - 1, user, full)
    IN  map[n]

(* Mutant of CloseTable: the last table stays in the window.               *)
CloseTableNot(m) == [m EXCEPT !.tble = None]

(* An early return leaves the last table in the window.                    *)
CloseTable(m) ==
    IF m.stop \/ m.early \/ m.tble = None THEN [m EXCEPT !.tble = None]
    ELSE free_directmap(m, m.slot)
map_page(m, pd, frame, page, n, user, full) ==
    CloseTable(MapPages(m, pd, frame, page, n, user, full))

-----------------------------------------------------------------------------
(* The heap *)

(* Pages vpalloc passes over: those of entry 0, of full entries, and those *)
(* that are present.                                                       *)
Taken(m, pd) == {p \in VirtualPages :
    Dir(p) = 0 \/ m.dir[pd][Dir(p)].full \/ Pte(m, pd, p) # NoPage}

(* The first run of n free pages, across tables; page 0 when there is none *)
(* (the topmost entries are full). Every table it looks into takes a slot  *)
(* for that time.                                                          *)
vpalloc(m, pd, n) ==
    LET all == PdEntries * PtEntries
        found == HasZeroRun(Taken(m, pd), n, all)
        v == IF found THEN FirstFit(Taken(m, pd), n, all) ELSE 0
        looked == {d \in 1..(PdEntries - 1) : d <= Dir(v + n - 1) \/ ~found}
    IN  IF /\ ~HasZeroRun(m.win, 1, Slots)
           /\ \E d \in looked : m.dir[pd][d] # Absent /\ ~m.dir[pd][d].full
        THEN Stop(m)
        ELSE [m EXCEPT !.virt = v]

(* The frames n pages from f on are mapped to.                             *)
FramesFrom(f, n) == {(f + k) % FrameSpace : k \in 0..(n - 1)}

(* The pages are cleared at once: with the frames of a failed request that *)
(* is low memory and, if it is long, the kernel; after an early return     *)
(* somebody else's pages.                                                  *)
Clear(m, n) ==
    IF \/ m.early
       \/ m.phys = Failure /\ FramesFrom(Failure, n) \cap LowPages..(Reserved - 1) # {}
    THEN Stop(m) ELSE m
MapBlock(m, pd, n, user) ==
    IF m.stop THEN m
    ELSE Clear([map_page(m, pd, m.phys, m.virt, n, user, FALSE) EXCEPT !.phys = m.phys], n)
palloc_virt_and_phys(m, pd, n, user) == MapBlock(vpalloc(ppalloc(m, n), pd, n), pd, n, user)

(* Mutant of PagesFor: the header is forgotten.                            *)
PagesForData(bytes) == ((bytes + PageSize - 1) % Word) \div PageSize

(* total_pages of malloc; the sum is a 32-bit one.                         *)
PagesFor(bytes) == ((bytes + Header + PageSize - 1) % Word) \div PageSize

(* A block of no pages has its header on page 0 or on a free page.         *)
malloc(m, pd, bytes, user) ==
    IF PagesFor(bytes) = 0 THEN Stop(m)
    ELSE palloc_virt_and_phys(m, pd, PagesFor(bytes), user)

(* Each failed request maps the topmost frame once.                        *)
Frameless(m) ==
    {x \in (DOMAIN m.tbl) \X (0..(PtEntries - 1)) : m.tbl[x[1]][x[2]].at = Failure}

(* For kernel(), the file system and system call 10, which want memory of  *)
(* the kernel, and for system call 4, which wants memory of the program.   *)
Malloc(bytes, user) ==
    \E m \in {malloc(mem, cr3, bytes, user)} :
        /\ ~mem.stop
        /\ Cardinality(blocks) < MaxBlocks
        /\ Cardinality(Frameless(mem)) < MaxFailed
        /\ user => cr3 = "prog"
        /\ mem' = m
        /\ blocks' = IF m.stop THEN blocks
                     ELSE blocks \cup {[page |-> m.virt, pages |-> PagesFor(bytes),
                                        phys |-> m.phys, user |-> user,
                                        bytes |-> bytes]}
        /\ UNCHANGED <<cr3, program, image, met>>

(* What unmap_page does when it is asked for 0 pages, and it always is:    *)
(* its tble has no value yet. If what lies there is not 0, free_directmap  *)
(* takes it for a slot and overwrites a word behind directmap, which (with *)
(* the flags of the Makefile, and the header's address there) is the entry *)
(* of some page of the kernel, used or not.                                *)
unmap_page(m) == {m, Stop(m)}

(* The header is cleared before total_pages is read from it, so nothing is *)
(* unmapped and nothing given back. Without frames the header was never    *)
(* stored, and what is cleared is unknown.                                 *)
Free(b) ==
    /\ ~mem.stop
    /\ mem' \in unmap_page(mem)
    /\ blocks' = blocks \ {b}
    /\ UNCHANGED <<cr3, program, image, met>>

-----------------------------------------------------------------------------
(* The loader *)

(* The pages of a segment that are mapped: as many as its bytes fill, from *)
(* the page of its address on.                                             *)
FirstPage(s) == s.p_vaddr \div PageSize
SegmentPages(s) == ((s.p_memsz + PageSize - 1) % Word) \div PageSize

(* A program lies in memory, and no segment of it is empty.                *)
ASSUME ProgramAssumption == \A prog \in Programs :
    /\ prog.segments \in Seq([p_vaddr : Nat, p_memsz : Nat \ {0}])
    /\ \A k \in DOMAIN prog.segments :
            LET s == prog.segments[k]
            IN  /\ s.p_memsz + 2 * PageSize <= Word
                /\ FirstPage(s) + SegmentPages(s) <= PdEntries * PtEntries

(* Its own page in the directory is mapped by a table that is its own.     *)
add_page_essential(m) ==
    IF m.stop THEN m
    ELSE map_page([m EXCEPT !.dir["prog"] = [m.dir["kernel"] EXCEPT ![Dir(DirPage)] = Absent]],
                  "prog", m.phys, DirPage, 1, FALSE, TRUE)

(* Mutant of amalloc: the header names its own page.                       *)
amallocOwnPage(m, bytes) ==
    palloc_virt_and_phys(m, "kernel", ((bytes + 2 * PageSize - 1) % Word) \div PageSize, FALSE)

(* The header is at the end of the first page and names the page behind    *)
(* it, where the memory begins. Without frames it is not stored.           *)
Second(m) == IF m.phys = Failure THEN Stop(m) ELSE [m EXCEPT !.phys = @ + 1]
amalloc(m, bytes) ==
    Second(palloc_virt_and_phys(m, "kernel",
               ((bytes + 2 * PageSize - 1) % Word) \div PageSize, FALSE))

(* The segment is copied to the second page of the block, as the kernel's  *)
(* directory maps it, and the page the header names is mapped.             *)
MapSegment(m, done, s) ==
    IF m.stop THEN [m |-> m, image |-> done]
    ELSE [m |-> map_page(m, "prog", m.phys, FirstPage(s), SegmentPages(s), TRUE, FALSE),
          image |-> Append(done, Pte(m, "kernel", m.virt + 1).at)]
LoadSegment(x, s) ==
    IF x.m.stop THEN x ELSE MapSegment(amalloc(x.m, s.p_memsz), x.image, s)

MapStack(m, done) ==
    [m |-> IF m.stop THEN m
           ELSE map_page(m, "prog", m.phys, StackPage, StackPages, TRUE, FALSE),
     image |-> Append(done, m.phys)]
LoadStack(x) == MapStack(ppalloc(x.m, StackPages), x.image)

(* The directory has a slot until the end.                                 *)
OpenDirectory(m) == IF m.phys = Failure THEN Stop(m) ELSE phys_to_virt(m, m.phys)
KeepSlot(m) == [m EXCEPT !.own = m.slot]
CloseDirectory(m) == IF m.stop THEN m ELSE free_directmap(m, m.own)

(* prog.compatible is the result of is_compatible, prog.segments are the   *)
(* entries of type 1. The result is the record after the load and the      *)
(* first frame of each segment and of the stack. A program that is not     *)
(* compatible is entered with directory 0.                                 *)
LoadSegments(m, segments) ==
    LET load[k \in 0..Len(segments)] ==
            IF k = 0 THEN [m |-> m, image |-> <<>>]
            ELSE LoadSegment(load[k - 1], segments[k])
    IN  load[Len(segments)]
OwnDirectory(m) == add_page_essential(KeepSlot(OpenDirectory(ppalloc(m, 1))))
load_program(m, prog) ==
    IF ~prog.compatible THEN [m |-> Stop(m), image |-> <<>>]
    ELSE [LoadStack(LoadSegments(OwnDirectory(m), prog.segments)) EXCEPT
             !.m = CloseDirectory(@)]

(* kernel() loads one program, from a block, and enters it with its        *)
(* directory.                                                              *)
Load(prog) ==
    \E x \in {load_program(mem, prog)} :
        /\ ~mem.stop
        /\ cr3 = "kernel"
        /\ blocks # {}
        /\ mem' = x.m
        /\ cr3' = "prog"
        /\ program' = prog
        /\ image' = x.image
        /\ met' = {d \in 0..(PdEntries - 1) : mem.dir["kernel"][d] # Absent}
        /\ UNCHANGED blocks

Next ==
    \/ \E bytes \in Sizes, user \in BOOLEAN : Malloc(bytes, user)
    \/ \E b \in blocks : Free(b)
    \/ \E prog \in Programs : Load(prog)

Spec == Init /\ [][Next]_vars

-----------------------------------------------------------------------------
Running == ~mem.stop
Loaded == Running /\ cr3 = "prog"
BlockPages(b) == b.page..(b.page + b.pages - 1)

(* Who was given frames: tables, the program's directory, its segments     *)
(* with the page of their header, its stack, and blocks.                   *)
SegmentUses == {<<"segment", k, (image[k] - 1)..(image[k] + SegmentPages(program.segments[k]) - 1)>> :
                k \in DOMAIN program.segments}
StackFrame == image[Len(image)]
ProgramUses ==
    SegmentUses
    \cup {<<"stack", 0, FramesFrom(StackFrame, StackPages)>> : x \in {StackFrame} \ {Failure}}
    \cup {<<"directory", 0, {Pte(mem, "prog", DirPage).at}>>}
FrameUses ==
    {<<"table", t, {t}>> : t \in DOMAIN mem.tbl}
    \cup {<<"block", b.page, FramesFrom(b.phys, b.pages)>> :
              b \in {x \in blocks : x.phys # Failure}}
    \cup (IF Loaded THEN ProgramUses ELSE {})

(* Every frame has one use: no block, segment, stack, table or directory   *)
(* shares a frame with another or with the kernel, whatever sequence of    *)
(* calls, also failed ones, led there (ppalloc, map_page, load_program).   *)
SingleUse == Running =>
    /\ \A u, w \in FrameUses : u = w \/ u[3] \cap w[3] = {}
    /\ \A u \in FrameUses : u[3] \subseteq Reserved..(Limit - 1)

(* A block is mapped, in the directory in use, to the frames its header    *)
(* names one after the other, and blocks share no page: a driver may hand  *)
(* phys_page to a device (src/apps/music.cignore 64). It stays so when the *)
(* directory changes to the program's, and no other call moves it.         *)
BlockMapped == Running =>
    /\ \A b \in blocks : \A k \in 0..(b.pages - 1) :
            Pte(mem, cr3, b.page + k).at = (b.phys + k) % FrameSpace
    /\ \A b, c \in blocks : b = c \/ BlockPages(b) \cap BlockPages(c) = {}

(* A block holds its header and the bytes asked for, unless their sum with *)
(* the rounding exceeds 32 bits (heap.c 61).                               *)
BlockLongEnough == \A b \in blocks :
    b.bytes + Header + PageSize - 1 < Word => b.bytes + Header <= b.pages * PageSize

(* The pages of a program meet neither each other nor its stack nor a      *)
(* table that the kernel's heap had begun.                                 *)
PagesOf(s) == FirstPage(s)..(FirstPage(s) + SegmentPages(s) - 1)
Apart(prog) ==
    LET seg == prog.segments
    IN  /\ \A j, k \in DOMAIN seg : j = k \/ PagesOf(seg[j]) \cap PagesOf(seg[k]) = {}
        /\ \A k \in DOMAIN seg :
                /\ PagesOf(seg[k]) \cap StackPage..(StackPage + StackPages - 1) = {}
                /\ {Dir(p) : p \in PagesOf(seg[k])} \cap met = {}
        /\ Dir(StackPage) \notin met

(* Every slot but the two permanent ones is given back, by every           *)
(* operation, as long as no early return of map_page lost one.             *)
WindowsReturned == Running /\ Apart(program) => mem.win = Permanent

(* A program whose segments begin on pages and lie apart finds, where it   *)
(* was linked to, its segments, and its stack, and may reach all of it.    *)
Reachable(page) ==
    Pte(mem, "prog", page).user /\ mem.dir["prog"][Dir(page)].user
LoadedAsLinked == Loaded /\ Apart(program) =>
    /\ \A k \in DOMAIN program.segments :
            LET s == program.segments[k]
            IN  s.p_vaddr % PageSize = 0 =>
                    \A p \in PagesOf(s) :
                        /\ Pte(mem, "prog", p).at = image[k] + (p - FirstPage(s))
                        /\ Reachable(p)
    /\ \A k \in 0..(StackPages - 1) :
            /\ Pte(mem, "prog", StackPage + k).at = (StackFrame + k) % FrameSpace
            /\ Reachable(StackPage + k)

(* Memory a program got from system call 4 can be used by it (kernel.c 240 *)
(* says the call gives a pointer to ebx bytes, and 241 asks for user_page).*)
UserReaches == Loaded =>
    \A b \in blocks : b.user => \A p \in BlockPages(b) : Reachable(p)
=============================================================================
