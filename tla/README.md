# A verification of ATUOS

TLA+ modules of the parts of ATUOS that carry its logic, TLC runs that check
them on small instances, and theorems that the TLA+ proof system checks for
every value of the constants. ATUOS is a 32-bit kernel for one CPU and one
program, with a file system of its own (ATUFS) and host tools that write its
volumes. Paths below are those of the repository (`src/kernel/kernel.c`).

## Inventory

| part | state | operations | modules |
|---|---|---|---|
| interrupts and clock (`kernel.c` 70-100, `kernel.asm`, `idt.c`, `apic.c`) | EFLAGS.IF, the PICs' latches, `tick`, `systime`, `worldtime`, `irqcount` | `irq_handler`, delivery through interrupt gates | Interrupts |
| system calls (`kernel.c` 102-347, `kernel.asm` 270-334, `src/abi/atu`) | the saved frame of the entry stub, the locals of a wait | sysenter and int 0xA7; `sleep`, `usleep`, wait_irq; print, malloc, free, find_file, read_filedata | Syscalls |
| bitmap searches (`src/lib/bitmap.c`) | a bitmap of the caller | `mark_true`, `mark_false`, `bmp_alloc`, `webmp_alloc` | Bitmap, BitPool, BitmapScan |
| physical pages (`heap.c` 1-58, `init.c`) | the bitmap behind the kernel image | `init_heap`, `ppalloc`, `we_ppalloc` | PhysMem |
| paging and kernel heap (`paging.c`, `heap.c` 60-117) | page directory, tables, the direct map window, headers of blocks | `map_page`, `unmap_page`, `vpalloc`, `phys_to_virt`, `malloc`, `free` | Paging |
| ATUFS, clusters and files (`src/lib/atufs.c`; the same functions in `src/tools/cpatufs.c`) | `atufsinfo`, two bitmaps, inodes, clusters | `create_file`, `write_file`, `delete_file` and what they call, `read_filedata` | AtufsDisk, Atufs |
| ATUFS, directories (`atufs.c` 176-276, `cpatufs.c`) | directory files | `find_file`, `create_entry`, `delete_entry`, `rename_entry`, the copy tool's `main` | AtufsDisk, Directory |
| keyboard (`keyboard.c`) | `keyb_buffer`, `key_state`, `special_states` | `irq1code`, `waitget_key` | KeyFifo, Keyboard |
| disk (`ata.c`) | the disk, the caller's buffer | transfers in commands of 256 sectors | Transfer |
| calendar (`cmos.c`) | `statusregb`, `worldtime`, the clock's registers | `get_cmos_time`, two conversions of dates | Calendar |
| program loader (`load_program`, `elf.c`) | the program's page directory | `load_program` | Paging |
| volume tools (`mkatufs.c`, `mkmbr.c`) | a disk image | `main` of each | Volume |
| boot loaders, GDT/IDT/TSS, screen, C library, example programs | constants or output | | not modelled |

How they interact: interrupts come between any two instructions of the kernel
or the program when the flag is set, and share `tick`, `systime`, `irqcount`
and the keyboard ring with the thread, without locks. System calls call the
heap and the file system; the heap calls paging, which calls the physical
allocator, which calls the bitmap searches; the file system calls the disk
driver and the heap. The kernel only reads volumes so far; the host tool
`cpatufs` writes them, with the same functions.

What is hard: loads of a two-word clock torn by an interrupt; an interrupt
between a loop's test and its `hlt`; the interrupt flag across two kinds of
entry; 32-bit wraps; allocators at their limits, whose failure value no caller
looks at; a file system that writes several sectors per operation without a
journal; fragmentation, which takes long sequences of legal calls. Every such
place is in the list of hazards in PROJECT.json, at its line, with the
properties that would catch it, or the reason why none does yet. Some of the
things found there are defects with no statement in the repository to hold
them against (they are hazards with their consequences, and some properties
state the exception they force):

- a rewrite that keeps the number of clusters repeats the start of the buffer
  in every extent, and stores nothing if the contents were inline before (a root
  directory that grows from 488 bytes to 512 loses its contents);
- `alocate_file` and `delete_file` disagree on the bit of file 8 and above;
- memory runs out at one eighth, and the caller is then given frames of the
  low memory;
- `we_ppalloc` marks pages it did not find;
- a heap block that crosses a 4 MiB boundary stops the machine: `map_page` marks
  the full table in entry 4096 of the directory;
- RAM above 4 GiB is freed at the low word of its base, whatever is there;
- a crash between two sectors of the cluster bitmap leaves clusters marked that
  are neither counted nor in a file;
- `free` gives nothing back and may overwrite an entry of the kernel's table;
- two segments of a program on one page lose a slot and the second one's rest;
- shrinking or deleting frees clusters on the disk before the inode lets go
  of them;
- an entry whose name begins the wanted one hides it, a copy made twice is the
  older one, a missing directory in a path is the root, and without a free file
  the name is given to file 1;
- `delete_entry` does not end without a match, and `rename_entry` to a longer
  name keeps the old one;
- `rename_entry` to a shorter name clears the new length, not the old one: the
  rest of the old name stays, and the removal of a name that goes on like it takes
  this entry;
- a removal torn by a crash between two clusters leaves a removed entry with its
  name, which `find_file` still finds and the next `delete_entry` takes;
- a crash in the middle of an entry's write leaves an entry behind the end of
  the directory, and the next one goes behind that;
- system call 10 reads the inode over the pointer it holds, and what lies behind
  it on the kernel's stack;
- noon is midnight when the clock counts 24 hours, and `convert_to_timestruct`
  is right for 256 days;
- `mkatufs` clears no bitmap, and a second boot loader of more than 130 sectors
  overwrites one.

What makes each part correct, in a sentence: a wait lasts what was asked and
returns; a search returns the first run that fits; a physical page has one
owner; a cluster has one file, at every moment the machine may stop; contents
read back as written; a name that was entered is found, and what it names is
whole; a sector goes where it belongs; the date is one the clock has shown;
keys come out in order.

## Modules

**Interrupts** is the machine's side: `intFlag`, `pending` (one latch per
line, so a second request of a latched line is lost, and the more urgent line
goes first), `tick`, `systime`, `irqcount`. `irq_handler` runs behind an
interrupt gate with the flag clear until `iretd`, so a delivery is one step.

**Syscalls** EXTENDS it with the one thread. `pc` says where the thread is, one
place per load of a volatile word (the kernel is built with -O0, Makefile 37)
and one for `hlt`. `frame` is what the stub saved. Actions: `Call` (both
gates: sysenter clears the flag, the trap gate leaves it), `Sti`, `SleepStart`,
`UsleepStart`, `UsleepStart2`, `WaitIrq`, `Load`, `Check`, `Hlt`, `Cli`,
`Return` (sysexit leaves the flag, iretd restores it), and for the machine
`Deliver`, `PitTick`, `DeviceIrq`. A program may use either gate for any call
(`atuos_syscall` is in its library). Every place is a point where an interrupt
may come. `burst` is the one timing assumption: on the straight path between
two places where the thread may linger (the program, before a wait starts,
halted) lie some hundred instructions, so a line that fires every 10 ms or per
key stroke fires there at most once, besides a request latched before. Without
it the bounds on lengths would be those of an infinitely slow CPU. `obs` counts
timer periods during a wait; only the properties read it.

**Bitmap** has a bitmap as the set of its ones and says what the two searches
find. **BitPool** is the abstract allocator, one step per call. **BitmapScan**
has the loops, one step per bit, and implements BitPool under the identity
mapping of `used` and `ret`.

**PhysMem** builds the bitmap from a memory map and has the two allocators.
The firmware gives base and length of a region in two words each; `init_heap` and
`calculateram` read the low words and compute in 32 bits, so the sum of the lengths
and the rounding of one wrap at `Word`. `owners` and `lost` are history. The call of
the search is one step by the refinement above. A failed search changes nothing
here; what its caller does with 0xFFFFFFFF is in Paging.

**Paging** computes each operation whole on a record `m` (frames, the kernel's
and the program's directory, tables by frame, slots of the direct map):
one operator per function, threaded in the order of the calls. Nothing in
these paths waits or is shared with a handler. `ppalloc` is the first fit that
BitmapScan and PhysMem establish. `vpalloc` is a first fit over the pages of all
tables but the first. Tables are shared between the two directories as in the
code: the program's is a copy of the kernel's, taken before the segments' blocks
are allocated. `m.stop` means that the kernel faulted or overwrote what it stands
on; nothing is claimed after that, and the run may stop there. It is entered
where the code goes on without looking: no frame for a table, no slot, a full
table left behind (`NextTable`), a block of no pages, a failed block long enough
to clear the kernel, and one of the two outcomes of `free`, whose `unmap_page` tests
a variable without a value (with the Makefile's flags the stack holds the
header's address there, and the word overwritten is an entry of the kernel's page
table). `program`, `image`, `met` and `blocks` are history. `KernelDirs` are the
directory entries that `config_paging` fills for the kernel: nothing in this part
looks into their tables, so a program linked into one of them ends in `m.stop` and
is not followed further. Of programs the model assumes what their linker gives
(`ProgramAssumption`): no segment is empty, its size with two pages fits the word,
and its pages lie in the address space. `DirectoryAssumption` states two facts of
the memory layout: the entry that maps the directory in itself is one of the
kernel's, and the stack lies in one directory entry.

**AtufsDisk** has the volume and what the functions of `atufs.c` do to it. An
operation is computed whole, with operators named after the functions
(`write_file`, `alocate_clusters`, ...), on a state `[disk, info, log]`: `log` is the
list of sectors it writes, in the order of the code. `Begin` makes that list
`todo`, `FlushSector` brings one sector to the disk. The bitmap of the clusters has
several sectors of `SectorBits` bits, in one set: a write of one of them changes its
bits (`Through`), and both operations on it write the sectors they leave behind
before the count, and only the last one after it (`MarkEarly`, `SetClusters`). The
bitmap of the files is one sector, times and user ids are left out, and a cluster
holds `<<stamp, k>>`, the k-th part of the buffer `stamp`.

**Atufs** EXTENDS it with every operation on files (`create_file`, `rewrite_file`,
`remove_file`) by a machine that does not crash. History: `op` (the last operation),
`live`, `deleted`, `strained` (some write ran short, so that leaks are known to
exist).

**Directory** EXTENDS AtufsDisk with directories. Their contents are the stamps:
sequences of units of 8 bytes, which is the length of a header and the step of a
name's length, so the list of entries, its walk and its growth are those of the
code. `find_file` and `create_entry` are functions of a buffer; `Buffer` is what
`read_filedata` makes of a directory that lies inline or in extents. `Copy` is one
call of `cpatufs` (the file, the path, the entry), `DeleteEntry` and `RenameEntry` are
the kernel's two operations, which nothing calls yet. `Crash` forgets what is still
to be written and reads `atufsinfo` again. `hung` is set where a walk does not end.
There is no tool that makes a directory, so a path goes through empty files.
History: `named` (entries made), `pending`, `copied`, `spoilt` (directories that a
rewrite of the same number of clusters, a full volume, an entry behind the end, a
rename to a shorter name or a crash in the middle of a removal has damaged;
what is in them is not claimed, and the units of a name are never read as a
header). The last two show only when an entry lies in two clusters, or after five
operations; `Torn` names the directories that a crash damages in that way.

**Transfer** is the driver, one step per sector: `Request` starts a call with a
buffer, `Command` writes the registers for the next 256 sectors or the rest,
`Sector` moves one, `Fail` is the error, after which the code goes on with the next
command. A sector counts as moved when it is where it belongs. For a write that is
more than the words having been given: the device may report the failure of the sector
it took last only when it is asked about the next, and after the last sector of a
command nobody asks. `Fail` stands for either. A device that loses sectors later,
from a cache it has confirmed, is outside the model, and `Placed` says nothing of it.
**Volume** EXTENDS it with the life of a disk: `MakePartition` (mkmbr),
`Mkatufs`, `Fix` (one round of `fixclusters`) and `Format` (mkatufs), `AskInfo` and
`init_atufs`, and then `Access`: transfers of the root inode and of clusters, as
`write_file` and `read_filedata` ask for them. Sizes are in sectors; where the code
counts bytes in 32 bits they wrap at `ByteWord`.

**Calendar** has the real-time clock, which announces an update (`uip`) before it
makes it, and `get_cmos_time`, register by register. `Slack` is how many reads fit in
between: 244 microseconds by the clock's data sheet, and a read is two port
accesses of about one. With interrupts off an update cannot come sooner; with
interrupts on it could, and `Update` says so. The clock's days pass one by one while
the machine is off, so that the conversions meet every date. Seconds since 1970
are a pair, days and seconds of the day (TLC's integers have 31 bits); the
word itself does not wrap before 2106. The loops of the conversions are recursive
functions (`YearDays`, `MonthDays`, `YearOf`, `MonthOf`). `CenturyAssumption`: no
call ends after 2069, since two digits of the year do not tell 2070 from 1970.

**KeyFifo** is a bounded queue. **Keyboard** has `irq1code` as one step (it runs
in the interrupt handler) and `waitget_key` load by load, and implements KeyFifo
with the ring's contents between `tail` and `head` as the queue, `128 - 1` of
them at most; a code that finds the ring full is a stuttering step. Nothing in
the repository calls `waitget_key` yet; the driver is modelled as its interface
offers it.

The modules `MC...` instantiate these for TLC, `...Proofs` hold the theorems.
Definitions named `...` after a code function with a suffix (`TakeShort`,
`StiForgotten`) and marked "Mutant" are plausible wrong versions of the
definition behind them. PROJECT.json pairs each property with one that
violates it, which shows that the property says something.

## Runs

| run | what it shows | bounds and why they are enough |
|---|---|---|
| time | sleep lasts within a second below and a period above, usleep within the torn stamp's second and two periods; both return, and so does wait_irq once its line was counted, unless the count comes all the way round between two looks at it (which 2^32 requests would take and the small modulus allows); no halt with interrupts off | a second of 2 ticks and a word of 12, so rollovers and wraps happen within one wait; arguments below and above a second; two lines, one below the timer in priority; `CountWord`, the modulus of the counts (2^32 in the code), is 3, so it wraps within a wait; periods are counted to 7, more than the longest wait |
| scan | the loops implement BitPool and end | all 256 bitmaps of 8 bits, of which 7 are searched; lengths 0 to 4 |
| physmem | single owners, full accounts, nothing of the kernel and RAM only | six maps: region ends inside a page, unaligned regions, a hole, RAM above the word, lengths whose sum wraps, a length whose rounding wraps, and RAM that is freed at its low word, where a reserved region is; a byte of two bits, so that half of memory is searched and several runs exist; requests larger and smaller than them until nothing is left |
| heap | frames have one use, blocks stay mapped to their header's frames, slots come back, blocks are long enough, programs lie where linked | tables of six entries, two of them for the heap, so that blocks reach table boundaries; 14 frames, used up by a load and a few blocks; lengths of two and three pages and two that wrap; programs: two segments apart, on one page, into a heap table, across two tables in front of the stack, where the stack is, unaligned, not compatible; MaxBlocks live blocks (freeing gives no memory back, so every amount of use is reached) and MaxFailed failed ones, which repeat. The heap never uses up its virtual pages (`vpalloc` returning 0) at these bounds |
| clusters | bitmaps, counts, extents and contents agree between operations; who is given whose inode | three files compete for three clusters with two extents each: the smallest volume with fragments, a full volume and exhausted extents; lengths inline, of one cluster (two of them), and of three; bytes of one bit, so that every file but the root has a bit the two functions see differently; two clusters to a sector of their bitmap, so that runs cross it |
| copy | entries are kept, complete and found; at any moment no cluster is in two files, unmarked, or beyond the count | three files, so that they run out; six clusters of three units, so that a directory turns from inline contents to one cluster and to more, and an entry may begin in one and end in the next; three extents, enough for the directory's growth; two clusters to a sector of their bitmap, so that a crash comes between a sector of it and the count; two names of which one begins the other, and a path below one; four operations, of which any may be a copy, a removal or a renaming, and one crash (a second only starts from a disk the first could have left) |
| keyboard | the ring is a queue, the slot read stays, a waiting call gets its key | a ring of four slots wraps and fills; the keys are the two shifts and caps lock, which are what the reader looks at |
| calendar | the date is one moment's, and right | every day from 1970 to 1 January 2070; five times of day, among them the last second and one after noon, at the five days where a month, a leap February or a century ends; all four modes; two updates in a call (six reads last far less than a second) |
| disk | areas apart, sectors in place, the rest of a volume unharmed, `fixclusters` ends | commands of two sectors and transfers of one to four, so that there are whole commands, rests and both; bitmaps of four bits and disks of 22 to 32 sectors, on which `fixclusters` goes round zero or more times and every rounding occurs; two disks too short, which wrap; loaders that are shorter than, fill and exceed their room; three calls of the driver, any sector of which may fail |
| user | *violated*: system call 4 gives the program a pointer it may not use | the first block |
| micros | *violated*: usleep takes milliseconds, a comment says microseconds | the constants of the code |
| flag | *violated*: after sysenter the program runs with interrupts off, though it was started with them on | one line |

Several properties carry an exception or a premise in their statement; each
names a defect or a wrap of the code, and without it TLC finds it:

- `SleepsReturn` and the lengths: waits near the wrap of the clock;
- `OwnedIsRam`: maps with RAM above 4 GiB whose low word of the base is a megabyte
  or more (`Misplaced`), which `init_heap` frees at that low word;
- `BlockLongEnough`: requests whose rounded size wraps;
- `ReadsBack`: a rewrite of the same number of clusters in several extents;
- `LiveHasBit`: a file whose bit another file's delete has cleared;
- `NoLeak`: volumes on which a write ran short;
- `EntriesKept`, `FilesComplete`, `NamesFound`: spoilt directories, and names that
  begin others;
- `WindowsReturned`, `LoadedAsLinked`: programs whose pages run into each other,
  their stack, or a table the heap had begun (`Apart`), where `map_page` returns
  early and keeps its slot;
- `WorldtimeRight`, `DateRight`, `BackAndForth`: the hour after noon, and days
  beyond 256;
- `AreasApart`: partitions shorter than the fixed areas (`Sound`); `NewVolume`: those,
  a loader longer than its room, and a disk that was not zeroed.

Deadlock is checked wherever the system cannot stop. It may stop in copy (the
operations are used up, or a loop hangs and no crash is left) and in calendar
(the time is known).

Fairness. Syscalls: the CPU executes kernel code, takes interrupts that are
let in, and the timer runs (weak fairness of each); what programs and devices do
is up to them, and only the timer is relied on to end a `hlt`. Keyboard: the CPU
and the timer; the user need not press a key. BitmapScan and Volume: the loop
goes on (in Volume that of `fixclusters` only). Atufs, Directory and Calendar claim
no liveness: their loops are over 61 extents, six registers, or a directory, where
the one that may not end is a defect (`hung`).

## Proofs

All theorems are for every value of the constants under the named assumptions
of the modules, which the runs evaluate on their instances.

- `TypeCorrect`, `HaltSafety` (SyscallsProofs). HaltSafe speaks of the loop
  only; what is inductive is `FlagInv`: from the `sti` to the `cli` the flag is
  set at every place of a wait, which deliveries keep because the gate restores
  the flag. Every action is a step of the proof.
- `StampTornByASecond`, `SleepLasts` (SyscallsProofs). The first is about the two
  loads of the clock at the start of usleep: `SkewInv` adds to `StampSkew` that at
  `start2` the stamp is whole, or a rollover has passed and it is torn once, and
  that then the deliveries still to come before the thread may linger (`Slack`: one
  latched, one not yet requested) are too few for another rollover. A delivery
  spends slack and a request gains none. For the second, `SleepInv` relates what
  the kernel's clock has counted since the stamp to the timer periods that have
  passed (`Drift`: they differ by what the stamp had of its second), and says that
  between the `sti` and the `cli` no period is lost, because the flag is set and a
  latched request is delivered before the next. They need a second of more than
  one tick (100 in the code), and, for the bound on the history counter, a
  `Horizon` beyond the longest wait (`HorizonAssumption`), which binds nothing
  the code has.
- `UsleepLasts` (SyscallsProofs). usleep compares tick totals modulo the word, read in
  two loads. `Usleeping` follows the total from the stamp on, as a number: what
  the clock has moved by (`Counted`) accounts for the periods but one latched at the
  stamp. In the first pass of the loop hardly a period has passed (`FirstPass`); a
  later pass began with an interrupt, so at most one delivery is left before the
  next hlt, none when that interrupt was the timer's (`LaterPass`). A torn load
  (`Behind`) may hide that the end has come, but not twice: then the current second
  began after the end, and whatever tick it is read with ends the loop (`Over`).
  From these the total also stays below the word, so it does not wrap before
  the wait ends. It rests on `SkewInv`, `FlagInv` and the assumptions above.
- `ScanInvariant`, `Refinement` (BitmapScanProofs). The invariant says what the
  bits behind `i` are known to hold; with the loop's exit condition it gives
  "first fit" and "no run at all" when a search returns, and the return is then a
  step of BitPool, everything else a stutter.
- `PagesHaveOneOwner`, `BitmapAccounts`, `OwnedPagesAreRam` (PhysMemProofs). The
  inductive invariant joins TypeOK, `Accounted` and `SingleOwner`: a page found by
  the search is a zero, so by the accounts it has no owner. That it is RAM follows
  from the accounts and what `init_heap` leaves marked: a page it freed lies where
  the low words say, which, unless the region is `Misplaced`, is where the region
  is, since a length that wraps frees less of it, never more.
- `ReaderKeepsSlot`, `Refinement` (KeyboardProofs). While the reader is past its
  test the ring is not empty, and the writer stops one slot before `tail`, so it
  cannot write there. The refinement works with the indices without `%`
  (`Ahead`, `Place`) and shows that a key appends and `tail` takes the head.

- `AtufsTypes`, `NoClusterShared`, `CountsOfBitmaps`, `NothingLeaks`,
  `BitsOfLiveFiles` (AtufsProofs): all from `LedgerKept`, Spec => []IInv. The disk
  alone is not inductive: between two sectors of an operation it is neither the
  old volume nor the new. `IInv` says instead that what is still to be written
  (`todo`) leads from the disk to a volume (`Leads`) that has a good `Ledger`: the
  counters are those of the bitmaps, each file owns what its extents name and no
  two the same (`Owned`, `AllUsed`, per file `Held` and `Exact`), an unused file
  owns nothing, and a live file has its bit, but for those another file's delete
  has cleared. `write_file` is proved slot by slot, with `Kept` and `Shaped` as
  invariants of the loop over extents (`SlotKept`, `ResizeKept`, `WriteFileSound`):
  a run that the search finds is free, so nobody owns it, and the count goes
  down by its length. `DeleteSound` and `AlocateFileSound` are the other two
  operations. The least free file is what `alocate_file` takes, so that the file
  given away was not live.
- `WritesReadBack` (AtufsProofs). `RInv` adds that the volume to come reads as it
  was written (`AsWritten`), and that an inode with a single extent has as many
  clusters as its size asks for (`Whole`). The loop's invariant is `Filled`: the
  slots up to `j` hold the parts of the buffer from the offset of each on
  (`Fills`), and `read_filedata` joins them in that order (`FlattenRuns`,
  `FlattenBegins`, `ReadFilled`). It needs `Extents > 1`, as the code has 61: with
  one slot, a write that ran short fills it, and a rewrite that needs the same
  number of clusters would trust it to be whole.
- `DateNotTorn` (CalendarProofs). While registers are read interrupts are off, and
  an announced update still has at least as many reads of room as there are
  registers to go; so no update comes before the last, and every register is
  one of the date at which the flag was clear. It needs `Slack` to be at least
  the number of registers, and nothing of the calendar.
- `WorldtimeIsRight`, `DatesConvert`, `DatesConvertBack` (CalendarProofs): all from
  `Invariant`, Spec => [](CInv /\ Dates). `Dates` says that the date the clock shows
  and the days since 1970 are the same moment (`Same`): the day is one of its
  month, and the days before its year and month, plus its day, are those that
  have passed. `NextDay` keeps that, whatever the month and the year, as do a switch-on
  and an update at midnight (`SameKept`). `InTime` adds that a call began on one of
  `BootDays`, so that with `CenturyAssumption` the year the registers show is told
  from two digits. What is left is arithmetic, register by register: BCD and back,
  twelve hours and back, the afternoon bit. Each loop is shown to exist as a function,
  by a closed form that satisfies its equation (`YearDaysIs`, which counts leap
  years) or a table (months, `DayTable`), and computed from the equation alone by a
  least counterexample (`FromOn`, from WFMin). The days are not bounded in `DatesConvert`; the way back is right for
  256 days and then modulo 256, as the property says.
- `AreasFollow` (VolumeProofs). The invariant `VInv` says that the partition lies on
  the disk and that `total` never exceeds what is left of it; every round of
  `fixclusters` keeps that, whatever its exit condition, and the areas follow by
  arithmetic on divisions (`RoundedUp`, `RoundedDown`). It needs that what the
  tool computes with fits its words (`ByteWord + Bits <= Word`).
- `SectorsInPlace`, `NewVolumeStays` (VolumeProofs). `DriverInv` says that a call stays
  inside what was asked for and that errors have skipped only sectors behind it, so
  the next sector is one `Placed` did not count yet. What the kernel asks for are
  numbers only if the first sector of the partition still holds the areas:
  `MountInv` says so, and `RoomAssumption` (the bitmaps of the longest disk end before
  bytes of 32 bits wrap: 2^20 + 2^11 + 135 sectors against 2^23) that neither the
  root's bit nor its inode is written over them. The second theorem follows the
  five writes of the tool through a uniform disk (`FormatNew`), and after that
  every sector written is a cluster of `Areas` (`ClustersOnly`): the kernel has the
  areas that were written, or, when the device failed, no clusters at all.
- `BlocksLongEnough` (PagingProofs). What malloc's header says is a function of
  the bytes asked for (`HeaderInv`); the rest is arithmetic on the rounded,
  wrapping sum.
- `FramesHaveOneUse`, `BlocksAreMapped`, `WindowsComeBack`, `ProgramsLoadAsLinked`
  (PagingProofs): all from `Invariant`, Spec => []Inv. The properties alone are far
  from inductive: that no two uses share a frame does not say that a frame which
  `ppalloc` finds has none. `Inv` says so, as long as the machine has not stopped.
  `Fit` is about the record: directories and tables are whole (`Placed`), tables are
  in frames that have an owner, behind the kernel (`Framed`), and a directory
  entry is absent, one of the kernel's, or names a table that no other entry of
  that directory names (`Linked`). `UsesFit` is about
  the frames that are no tables: each has an owner, and the uses are apart.
  `BlocksFit` is BlockMapped with the bounds it needs. `KernelReady` and `ProgramReady` are what the loader finds
  and what it leaves. TLC checked `Inv` on the instance of the heap run before
  it was proved.

  A step is a whole operation, so the lemmas follow the functions. A round of
  `map_page` opens or begins a table, enters a page and goes on to the next
  (`MapOneRound`); the loop (`MapRun`) leaves every page mapped, or returns early at
  one that was present (`map_pageMaps`), and in both cases changes nothing outside
  the pages asked for (`Grown`). `PallocGives`, `mallocGives` and `amallocGives` add
  that the frames and the virtual pages were free. The loop over segments has the
  invariant `Loading`, with what each segment was given and where it is linked.
  A program may reach its pages because, outside the entries the kernel had used
  when it was loaded, its tables are its own (`Private`) and were begun with the
  user bit; a page there is absent before it is mapped (`Unmapped`), so for a
  program that lies apart no early return happens, and that return is the only
  way to lose a slot.

- `EveryDiskRestarts`, `CrashesAreSafe` (AtufsProofs, about Directory). The ledger of
  Atufs speaks of the volume that the log of an operation leads to; a crash keeps
  any part of the log. So an operation is followed by the disks it leaves behind,
  one sector after the other (`Reaches`), and each of them has to be one a machine
  can start from (`Restartable`): each file has clusters of its own that are marked,
  no more are in inodes than are counted, and no inode has more clusters than its
  size asks for (`Sized`). The last is what makes it true: every operation of
  Directory writes a file at least as long as it was, so the loop of `write_file`
  never has a slot to clear (`Growing`: the slots behind the one it is at have no
  more clusters than are left to write), marks are only added, and both marks and
  count are on the disk before an inode refers to them (`SetClustersGoes`). A
  shrinking write breaks it, which is the hazard at `atufs.c` 121 that no property
  claims. More may be marked than are counted: of a run that ends in a later sector
  of the bitmap `alocate_clusters` writes the first sectors before the count, and a
  crash then leaves marks of clusters that no inode names. They are `Lost`, and what
  is counted is reckoned without them (`Reckoned`). The invariant `CrashInv` says
  that the sectors to be written go on through such disks, and that the count in
  memory is that of the last. `DirAssumption` says that paths are lists of names,
  names lists of units, and lengths numbers.

- `FilesStay`, `FilesAreComplete` (AtufsProofs, about Directory). A file is whole
  before an entry names it. `FilesInv` says why, of the disk, the sectors still to
  be written and the disk they end on: every copy is whole on the last (`Complete`);
  sectors of a copied file are on the way only for the running copy, its inode after
  them, and neither the disk nor a sector up to there has a unit with the file's
  number (`FileFirst`); and directories hold only numbers of files whose bits are
  set (`OnlyTaken`), so the number of a new file is nowhere, whatever removed
  entries, names and old buffers still hold. Each operation is followed by the
  sectors it writes (`Sends`): `create` writes the bitmap of files first and the
  inode last, and what is in between is free clusters (`CreateSends`, `FreshReads`);
  an operation on a directory writes units it has read there and the file it was
  given (`CreateEntrySends`, `DeleteEntrySends`, `RenameEntrySends`), to clusters that
  no other file has (`HomeApart`). A crash forgets the copy whose inode was on the
  way, and leaves the others as they were (`CrashStays`). The proof does not need
  `spoilt`; the statement keeps it because the model says nothing of names read as
  headers. It rests on `CrashInv` for the clusters, and a path goes through empty
  files only (`Empty`), so no directory is a file with contents.

Only model-checked: every liveness property (fairness is outside the prover's
reach, as is ENABLED), and two claims about entries (`EntriesKept`, `NamesFound`).
They need what a walk over a directory computes (`Offsets` recurses over lengths
the data holds), so that an entry's offset is followed through every later
rewrite: induction over the data of a directory, which none of the provers can
instantiate. `FilesComplete` does without: it matters which numbers of files the
units of a directory hold, not where.

## Not modelled, and why

- Boot loaders, descriptor tables, the screen, the C library and the examples have
  no state that another part reads. `clear_bss` (`init.c` 102) runs after the first
  variables are set; what it clears depends on the linker. Exceptions stop the
  machine.
- A volume on a whole disk (`mkatufs` without `part`) has the same areas from sector
  0; the boot code and the active flag that the tools copy are bytes nobody in
  src/ but the boot loaders looks at. `mkmbr` puts every partition at sector 2048,
  so there is only one.
- A bitmap of files of several sectors: from file 2048 on `alocate_file` indexes
  beyond its buffer of 512 bytes. Addresses of 2^28 and more, which the registers of
  the disk cut off.
- What a caller gets when physical memory has run out: the frames from the topmost
  on and, the address wrapping, from 0 up, which for a long request go beyond the
  kernel into pages of others. Paging follows such a block until the machine stops
  and keeps it apart from the others; nothing in the repository says what it should
  be, so no property does.
- System call 10, which overwrites the kernel's stack; what it means to do is
  `find_file` of Directory.
- The data of inodes that nothing reads: times, users, attributes but 0x80.

## Plan

Done: Interrupts, Syscalls, Bitmap, BitPool, BitmapScan, PhysMem, Paging,
AtufsDisk, Atufs, Directory, KeyFifo, Keyboard, Calendar, Transfer, Volume, with the
runs and theorems above. Left, in this order:

1. Proofs about the contents of directories: entries are kept and found.
2. A bitmap of files of several sectors.
