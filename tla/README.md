# A verification project for the DOS kernel, its start-up code and its disk utilities

This directory holds TLA+ modules that model parts of the MS-DOS 6.22
compatible system of this repository (assembly and C sources under `src/`), the
TLC configurations that check them on small instances, and proofs, checked by
TLAPS, of what matters most for every value of the constants.  Paths below are
relative to the repository's `src/`, e.g. `DOS/ALLOC.ASM`.

Contents

1. [The system](#1-the-system)
2. [Modules and code](#2-modules-and-code)
3. [Runs, bounds and what they show](#3-runs-bounds-and-what-they-show)
4. [Fairness](#4-fairness)
5. [Proofs](#5-proofs)
6. [Where the code disagrees with its text, or with what it needs](#6-where-the-code-disagrees-with-its-text-or-with-what-it-needs)
7. [What is not modelled](#7-what-is-not-modelled)
8. [Plan](#8-plan)

## 1. The system

The machine boots from `BIOS` (device drivers, SYSINIT, the CONFIG.SYS
interpreter), which loads the kernel of `DOS`; the kernel serves INT 21h to
programs, the first of which is COMMAND.COM (`CMD/COMMAND`).  Memory above
640 KB comes from HIMEM (`DEV/HIMEM`) and EMM386 (`MEMM`).  SHARE, FASTOPEN,
PRINT, INTERLNK and SMARTDRV are resident programs that hook interrupts; the
other utilities are ordinary programs, of which FDISK, DEFRAG and SCANDISK
change what the disk is made of, and BACKUP and RESTORE answer for what is left
when they fail.  Everything runs on one processor.
Concurrency comes from hardware interrupts, from callbacks (Ctrl-C, critical
errors, INT 2Fh), from programs that nest inside each other, and from the calls
of one program falling between those of another; for the disk utilities it is
the power that may fail between two sectors.

| Component | State | Operations | Interacts with | What makes it hard | What makes it correct |
|---|---|---|---|---|---|
| **Memory arena** `DOS/ALLOC.ASM` | chain of MCBs in memory, `UmbArenaHead`, `UmbLinkMcb`, region table with filter and limits, strategy | 48h, 49h, 4Ah, 58h (strategy, link, region queries, filter, limits, registration), clean-up of a process | everyone; called at start-up with the right to register extents | merges as it scans, failing calls leave merges behind, two chains that are joined and taken apart, gaps between extents | blocks tile memory, none crosses a gap, nobody's block is changed by another |
| **UMB acquisition** `BIOS/SYSINIT1.ASM` (AcquireUmbs) | table of extents | query provider, validate, register, finalize, roll back | XMS provider, arena | the provider may fail anywhere, the table may overflow | all or nothing; no published extent that the provider does not back |
| **LOADHIGH** `CMD/COMMAND/COMMAND1.ASM`, `TMISC1.ASM` | parsed options, saved allocator state | save, filter, limit, link, strategy, EXEC, restore | arena, nested interpreters, Ctrl-C | eleven DOS calls around a program that may change the same state | the policy is in force only while the child runs |
| **DEVICE=, DEVICEHIGH=** `BIOS/SYSCONF.ASM`, `SYSINIT2.ASM` | MEMHI cursor, upper block of the line, saved state, chained devices | reserve, load, INIT, DPBs, chain, commit, abort, retry low | arena, AcquireUmbs, drivers | many ways out, each with other state to undo | chained memory stays owned; no block lost; the cursor stays in its block |
| **Interrupt stacks** `BIOS/MSSTACK.INC`, `STKINIT.INC` | allocation byte, saved SS:SP and back-pointer per entry, NextEntry | take, switch, call, switch back, give back; search; stop | hardware interrupts, NMI | NMI between any two instructions, overwritten stacks, exhaustion | no stack shared or lost, everyone back to his own context |
| **Handles and SFTs** `DOS/HANDLE.ASM`, `FILE.ASM`, `DUP.ASM`, `CLOSE.ASM`, `ABORT.ASM` | handle tables, SFT reference counts, busy value, the mark of an open under way | open, dup, dup2, close, size of the table, inheritance, exit | processes, hard errors, SHARE | busy entries, dup2 onto a live handle, an open cut short by INT 24, three ways to end | count = number of handles that reach the entry; a handle keeps its file |
| **Processes** `DOS/EXEC.ASM`, `CTRLC.ASM`, `ABORT.ASM` | PSPs, current process, return addresses | EXEC, terminate, stay resident, abort | arena, handles, Ctrl-C | an error inside EXEC; abort out of a call | nothing of an ended process is left |
| **EMM page pool** `MEMM/EMM/EMM40.C`, `EMMFUNCT.C`, `EMMINIT.C` | two packed page arrays, index and count per handle, names, saved maps | allocate, reallocate, deallocate, names, save and restore a map | programs, the page frame | lists move inside one array when a handle before them shrinks or grows; indexes of empty handles wrap | no page twice, none lost; a logical page stays behind its handle |
| **FDISK** `CMD/FDISK` | two tables in memory, changed flags, records on the disk | create, delete, activate, sweep, write on leaving, read | the disk, power, bad sectors | chain of boot records rewritten one by one; stale flags; records in free space | partitions apart; the chain ends; what is saved is what was shown |
| **DEFRAG** `CMD/DEFRAG` | three cluster maps, cursors, directory stack | check, relocate, compact, sort | FAT volume, power | order of table and directory writes; maps in memory against the table | every file readable after every sector written |
| **SCANDISK** `CMD/SCANDISK` | claimed clusters, counts, names | compare, check, repair, save lost chains, move off bad clusters | FAT volume, DEFRAG's leftovers, power | repairs cut short and repeated | no data lost; "repaired" means repaired, but for the faults section 6 names |
| **FAT volume** `CMD/RECOVERY/FATVOL.C` | the disk | get, set, read, write | DEFRAG, SCANDISK | two copies | – |
| **BACKUP and RESTORE** `CMD/BACKUP`, `CMD/RESTORE` | control and data file of each target, archive bits, the files restored | back up, go on on the next diskette, add (/A), close out; search, restore, continue | the user, who inserts the diskettes; Ctrl-C | a target fills up anywhere, counts and links are set by different routines, the search reads ahead, diskettes come in any order | what lost its archive bit can be restored; nothing is restored in part |
| INSTALL=, INSTALLHIGH= `BIOS/SYSCONF.ASM` | saved allocator state | as LOADHIGH, around EXEC from SYSINIT | arena, EXEC | failure between calls | policy restored |
| Tables of CONFIG.SYS `STKUPPER.INC`, `CDSUPPER.INC`, `TABLEUMB.INC` | addresses of tables | place a table high or low | arena | partial failure | table in owned memory |
| FCBs `DOS/FCBIO*.ASM` | SFT cache for FCBs | open, regenerate, close | SFTs, SHARE | recycled entry | an FCB reaches its own file |
| SHARE `CMD/SHARE/GSHARE*.ASM` | MFT records, chains of SFTs and locks, free lists | open check, lock, unlock, close, abort | SFTs | records shared by processes | modes and locks never conflict |
| FAT, directories, data `DOS/FAT.ASM`, `ROM.ASM`, `DISK.ASM`, `DIR.ASM` | FAT, directory entries, cluster chains | allocate, free, extend, truncate | buffers | power loss or error between two writes | chains disjoint, no cluster lost or shared |
| Buffer cache `DOS/BUF.ASM` | LRU chain, dirty marks | get, mark, flush | disk drivers | write error on eviction | no dirty data dropped in silence |
| XMS `DEV/HIMEM/HIMEM.ASM` | handle table, locks, A20 count | allocate, lock, resize, move | everyone above 640 KB | resize by moving | blocks disjoint |
| Protected-mode monitor `MEMM` | page tables | map, V86 services | V86 mode | hardware level | pages disjoint from UMB backing |
| INTERLNK, INTERSVR | sequence state of the link | request, answer, retry | a cable | lost, repeated frames | each request carried out once |
| PRINT | queue of files | add, cancel, timer tick | DOS reentrancy | runs from interrupts | queue order kept |
| UNDELETE, MIRROR, UNFORMAT | records of deleted files, image of the FAT | capture, discard, undelete, rebuild | the FAT of the kernel | records against files | a record names its own file |
| SMARTDRV, RAMDRIVE, FASTOPEN | cached copies | read, write, flush, invalidate | disk, SHARE | stale copies | copy = disk, or dirty |
| BIOS disk and character drivers | hardware | block and character I/O | kernel | disk change, errors | outside of what is modelled |
| Rest of COMMAND.COM, other utilities | batch state, files | parsing, I/O | kernel | – | – |

`PROJECT.json` lists the same components with their files and their status, and
all hazards with the line where each bites.

## 2. Modules and code

| Module | What it is |
|---|---|
| `ArenaChain` | The chain of MCBs as a value and the pure operators on it (runs, coalescing, splitting, fit, regions and caps). |
| `Arena` | The memory arena. One action per INT 21h call. |
| `ArenaScan` | `$ALLOC` one header at a time; implements `Arena`. |
| `UmbBoot` | AcquireUmbs over `Arena`, with the XMS provider as an external actor. |
| `LoadHigh` | LOADHIGH over `Arena`, with nested interpreters and Ctrl-C. |
| `DeviceHigh` | DEVICE and DEVICEHIGH lines over `Arena`. |
| `StackPool` | The interrupt stacks. One action per instruction that touches shared state. |
| `OpenFiles`, `Handles` | What DOS promises about file handles; the handle tables and the SFT that keep the promise. |
| `EmmOwners`, `EmmPool` | What an expanded memory manager promises; its packed page arrays. |
| `FatVolume` | The FAT volume of the utilities as a value. |
| `Defrag`, `ScanDisk` | The two programs, one sector written per step. |
| `VolumeRecovery` | DEFRAG cut short, SCANDISK repairing, SCANDISK checking, on one volume. |
| `Fdisk` | FDISK's menus, its tables, and the boot records on the disk. |
| `BackupSet` | The targets, their records, and what their format says of a file. |
| `Backup`, `Restore` | The two programs, one target, file or buffer per step. |
| `BackupRestore` | Sessions of BACKUP, then RESTORE from what they left. |
| `ArenaProofs` (`Arena`, `ArenaScan`), `UpperMemoryProofs` (`UmbBoot`, `LoadHigh`), `DeviceHighProofs`, `StackPoolProofs`, `EmmPoolProofs`, `HandlesProofs`, `FdiskProofs`, `RecoveryProofs` (`Defrag`) | Theorems and proofs. |
| `MC*` | Instances for TLC. |

**Arena.** `mcb` is a function from the paragraphs where live headers stand to
their signature, owner and size; the other variables carry the names of the
kernel's (`CONST2.ASM`, `ARENA.INC`).  A call runs inside the critical section
critMem, so a call is one action: `AllocOk` and `AllocFail` ($ALLOC),
`SetBlock`, `Dealloc`, `FreeProcess` (arena_free_process), `SetMethod`,
`SetLink`, `SetRegionFilter`, `SetRegionLimit` (58h), `RegisterFirst`,
`RegisterAppend`, `FinalizeUmb`, `ResetUmb`; `SetCurrentPDB` stands for all
that changes the current process.  What a failing call does (merge blocks, grow
a block in SETBLOCK) is in the action.  `ArenaScan` replaces the one action for
$ALLOC by its loop, with the registers the loop uses, and shows that nothing is
lost in the abstraction: `Arena` is instantiated with `mcb` replaced by the
chain found at entry for the duration of the call (a refinement mapping), and
`Atomic!Spec` is a property of the run.

**UmbBoot** adds SYSINIT's table of extents and the provider's own record
`held` of what it granted, so that "everything is given back" compares two
parties' books and not a variable with itself.  **LoadHigh** has one record of
LOADHIGH_* variables per interpreter and one action per DOS call of EXT_EXEC.
**DeviceHigh** has the cursor MEMHI, the state of one line, and `linked`, the
paragraphs DOS has pointers to.

**StackPool.** A frame is an interrupt in service: its place in StackCommon, BP
(the entry), AL and the SS:SP it has loaded.  Only the last frame executes; an
IRQ adds one while a program or a handler runs (the code is entered with
interrupts off and handlers may enable them), an NMI adds one between any two
instructions unless the processor still holds NMIs back for an earlier one
(the first IRET, of the handler or of a service it calls, ends that).  A context is named by its depth, so OwnContext can say that
SS:SP is again that of the interrupted program.  The word on top of a stack
that points back to its entry is `link`; a handler that overflows its stack
clears the next lower one.

**Handles.** One process runs at a time, and a call of DOS leaves before its end
only by a hard error (INT 24), so a call is cut into steps at the disk accesses
and where the code loops over handles: `OpenBegins`, `OpenSucceeds`, `OpenFails`;
`CloseBegins`, `CloseEnds`; `Dup`; `Dup2Begins`, `Dup2Ends`; `ExtHandle`;
`ExecBegins`, `Inherit` (one handle of $Dup_PDB), `ExecEnds`; `Exit`,
`ExitCloses` (one handle of DOS_ABORT), `ExitEnds`; `Keep`; `ErrorAnswered`,
`ErrorAborts`.  `call` is what is on the kernel's stack, `mark` the words SFN
and pJFN that FATALC consults, a reference count of -1 the busy value.
`OpenFiles` knows neither counts nor marks: a handle stands for a file, an open
takes a file that nobody has open.  `Handles` implements it with
`bound <- Bound`, the tables of the live processes.

**EmmPool.** The two arrays `emm_page` and `emm_free`, the index and the count of
each handle, with 16-bit indexes; one action per EMS function that changes them
(`AllocatePages`, `AllocateRawPages`, `ReallocatePages`, `DeallocatePages`,
`SetHandleName`, `SavePageMap`, `RestorePageMap`).  `EmmOwners` has one list of physical pages per handle; the
refinement mapping reads the list out of the array.

**FatVolume, Defrag, ScanDisk, VolumeRecovery.** An action is one call of the
program that changes the disk.  It computes the sectors the call writes from the
disk as it is and puts them into `queue` in the code's order; `WriteSector`
writes the first, and `Stop` drops the rest, which is a failing write, the
`/FAILSTEP` option of the tests, a key or the power.  A table sector holds one
entry and a cluster one sector, so that a cut can fall between any two
entries.  `Defrag` and `ScanDisk` share the variables of the program that runs
(`pc`, `stack`, `claimed`, `result`); `VolumeRecovery` extends the one, instantiates
the other on its variables and puts them in sequence: DEFRAG, cut anywhere; SCANDISK to repair, cut up
to Cuts times and started again; SCANDISK to check.  `View` is what a user finds
on the volume, every path with its size and data.  `repair.leaves` is history: the
repair came upon a fault that the code counts as repaired, or not at all, and
leaves in another form (`Leaves` in `ScanDisk` names the kinds).

**Fdisk.** `part` and `ext` are the tables in memory, `master` and `boot` the
records on the disk, one per cylinder.  The menus are actions; leaving the main
menu puts the records into `queue`, written one by one, each of which may fail;
a power cut ends the run.  `Start` reads the master record and each `ReadRecord` one
record of the chain, as init_partition_tables' loop does: `location` is where the
chain goes on, `count` the entry of `ext` the record goes to.

**BackupSet, Backup, Restore, BackupRestore.** A control file is a sequence of
records (disk header, directory blocks, file headers), a data file a sequence of
units; both take clusters from the room of their target, and a write that does
not fit writes nothing, checked (data) or not (control).  `bk` holds the globals
of `BACKUP.C`: `count` is files_backed_up, `db` and `fh` the offsets of the
current block and header, `first` diskettes_complete = 0, `spans` span.  The
routines that change them (`PutNewDb`, `PutNewFh`, `UpdateDbEntries`,
`UpdateFhEntries`, `MarkAsNotLast`, `CloseOut`, `CleanUp`) are operators on
globals and target, and the actions call them in the code's order: `FirstTarget`,
`AddToTarget`, `OpenSourceFile`, `FileSharingError`, `WriteToTarget` (one
buffer), `GetNextTarget`, `FileCopied`, `ControlBreak`.  RESTORE's search keeps the block and
header it has read and the count of what is left, across files and diskettes, in
`rs.search`; `Take`, `SearchHeaders` and `NextBlock` are its loop, with the
reading ahead.  `Insert` is the user, who may put in any diskette of the set.
Two variables are history: `saved`, the versions of a file whose archive bit
BACKUP has reset, and `strayed`, that RESTORE went on with a diskette out of
sequence.

## 3. Runs, bounds and what they show

Paragraphs of the arena modules are numbered below WordSize = 32 instead of
2^16; every comparison and overflow of the code is at the word size, so a small
word meets the same cases.  Regions are two instead of 16: enough for one gap
between extents, a full table, and a filter that selects one of two.

| Run | Instance | Shows |
|---|---|---|
| `arena` | two processes, conventional memory of 4 paragraphs, two extents that can be registered and three that cannot, sizes 1, 2 and "all", all four domains, first fit | `ChainTiles`, `NoBlockCrossesGap`, `RegionInfoSound`, `LinkAlwaysPossible`, `BlocksOfOthersUntouched` over every order of calls |
| `scan` | one process, two extents, best and last fit with fallback | the loop implements the one-step call (`ScanIsAtomic`), reports the exact largest size (`ReportedMaxIsExact`), returns (`AllocReturns`) |
| `umb_boot` | a provider with two good extents, one that overlaps, one in conventional memory, one too small; a table of two, so that the overflow check happens | `AllOrNothing`, `RegionsBacked`, `AcquireEnds` |
| `loadhigh` | two interpreters inside each other, three option sets (both regions with different minimums, the second only, without /S) | `PolicyOnlyWhileChildRuns` |
| `devicehigh` | four option sets, eight driver files (missing, resident part smaller than the image, two devices, no units, bad sector size, too large), two extents | `PolicyOnlyInTransaction`, `LinkedMemoryOwned`, `CursorInBounds`, `NoBlockLost`, `LineEnds` |
| `stack_pool` | four stacks, six interrupts of which two NMIs | `StacksDistinct`, `NoStackLost`, `OwnContext`, `InterruptsEnd` |
| `handles` | a root and two more processes, two SFT entries, two handles in a PSP, tables up to three, two memory blocks | `CountsAgree`, `NoSftLost`, `TableInPlace`, and the refinement of `OpenFiles` (`HandlesKeepFile`) |
| `emm_pool` | three pages of which one is handle 0's, three handles, one name, NullPage = 5 so that the indexes of empty handles wrap | `EachPageOnce`, `SearchFindsSlot`, and the refinement of `EmmOwners` (`PagesStayWithOwner`) |
| `volume_recovery` | clusters 2 to 8, cluster 2 bad, two root sectors; a file of two clusters and a subdirectory with a file of one, in four placements (one with a hidden file), and eighteen volumes with one fault each (cut, looped, lost, crossed and cyclic chains, bad marks in a first and a later link, a directory that starts nowhere, in a file or in itself, a wrong size, differing copies, a name used twice, an emptied root sector, a full table); /U, /F, /F with /S and /H; SCANDISK with and without /NOSAVE, with /SURFACE and one weak cluster, which in some placements is the subdirectory's; one cut of the repair | `NeverUnreadable`, `MapsAgree`, `Packed`, `Recovered`, `RepairIsClean` |
| `fdisk` | five cylinders, three entries in the master record, three in the extended table, no or one partition of another system in front of or behind the free space; two runs of the program, one power cut or failed write | `PartitionsDisjoint`, `DrivesInside`, `ChainAscends`, `SavedAsShown` |
| `backup_restore` | four files in two directories, one empty, one that may need three diskettes; diskettes of six clusters of two units, or a hard disk of that room; a second session with /A that has nothing new, a changed file of the first or of both directories, with /M and without; any file that cannot be opened, Ctrl-C anywhere; RESTORE of all or of one file with one diskette out of order | `SavedIsRestorable`, `RestoredIsWhole`, `RefusesOnlyBroken` |
| `fdisk_escape` | as `fdisk`, without faults | counterexample to `UnchangedKept`, section 6 |

Why these bounds are enough.  Four is the least number of stacks at which every
branch of the search is taken (the one that puts an error state back needs an
entry that is found free and is clobbered before the exchange), six interrupts
are two more than fit, and two NMIs put one between the instructions of another.
Three processes give a child of a child and a sibling that outlives it; two
entries make the table full while one entry is busy; the third handle makes a
table move to a block and back.  Three pages and three handles let a list in the
middle of the array shrink, grow and vanish while one behind it must move.  Four
clusters in use out of six leave a gap below, between and above them; the
subdirectory is moved with its dot entries, the bad cluster is the lowest, so
that the target cursor has to step over it.  Five cylinders hold an extended
partition with three drives behind a primary partition, and two runs let the
second read what the first left half-written.  Six clusters is the least room
`BackupAssumption` allows: the code writes disk header, block, header and the rest
of a buffer to a fresh diskette without looking; with 26 units of files it makes
every diskette fill up, before, in and behind a file's data.  Each enumeration was also looked
at for the interesting case: that a mutant which breaks it is found is recorded
with every property in `PROJECT.json` (a definition of the model changed the way
a bug in that code would change it, under which TLC finds the property
violated).

Restrictions of the passing runs that keep out what section 6 tells:

* `devicehigh`: the two driver files that break `LinkedMemoryOwned` and
  `CursorInBounds`.
* `loadhigh`: BREAK is off.
* `handles`: `KeepsInherited = FALSE`, no process stays resident with a file open
  that a process other than the root opened; `ErrorsWhileMarked = FALSE`, after
  an open that a hard error ended no second hard error comes before the next
  open.
* `volume_recovery`: `NeverUnreadable` and `Recovered` say nothing of a cut while
  a directory is being sorted.  `RepairIsClean` holds in every mode and after
  every cut, and is exact: after a repair that claims to be complete (exit code 0
  or 254) the check finds something if and only if the repair met one of the
  faults of `Leaves`, section 6.  Three things do not occur in the instance: data
  that, read as a directory, has entries; an entry behind an end slot; a weak
  cluster under a directory that has directories in it.
* `backup_restore`: the properties leave out the targets that section 6 tells of
  (`Orphaned`, `Dangling`, `Headerless`, `Uncounted`; each property names those it
  leaves out), a hard disk from which all was deleted (`disks = <<>>`) and, but for
  `SavedIsRestorable`, restores that `strayed`.
* `fdisk`: `DrivesInside` says nothing once the write of the master record has
  failed; `SavedAsShown` is limited to the layouts write_info_to_disk gets right.
  The sizes of free space are unsigned in the code (`SPACE.C:320`, `336`) and wrap
  where a drive ends behind the extended partition or in the next drive, which
  takes a failed master record and a third run; `SizesHold` ends the model there,
  and excludes no state of the run.

CHECK_DEADLOCK is off where the system stops: DEVICE lines once conventional
memory is used up (MEM_ERR stalls), the stack pool after its last arrival or in
the fatal loop.  `VolumeRecovery` and `Fdisk` come to a rest in the action
`Rest` only, `BackupRestore` in `Over`, and the others never stop.

## 4. Fairness

Safety needs none.  The liveness properties assume only that code which has
begun goes on:

* `ScanSpec`: WF of the steps of $ALLOC's loop.  The kernel is inside a critical
  section, nothing can take the processor from it for ever.
* `BootSpec`: WF of the steps of AcquireUmbs, straight-line code whose only
  partner is the provider, called synchronously.
* `DevSpec`: WF of the steps of a CONFIG.SYS line, and SF of `SaveState`, the
  step after AcquireUmbs: an acquisition is several steps of the arena here, and
  it comes to an end (`AcquireEnds` of `UmbBoot`).  That drivers come back from
  INIT is part of the WF; DOS has nothing else to rely on.
* `StackPool`: WF of the instructions of the innermost interrupt or the return
  of its handler.  The number of arrivals is bounded by MaxArrivals, which
  stands for devices that do not interrupt for ever.

No action of a program, a provider's choice or an arriving interrupt is fair.
`Handles`, `EmmPool`, `Fdisk`, `VolumeRecovery` and `BackupRestore` state safety
only; that a program is never stuck shows there as the absence of deadlock
outside `Rest` and `Over`.

## 5. Proofs

All theorems hold for every value of the constants that satisfies the named
assumptions (`WordSizeAssumption`, `ArenaAssumption`, `StackPoolAssumption`,
`EmmAssumption`, `HandlesAssumption`, `DeviceHighAssumption`,
`LoadHighAssumption`, `DiskAssumption`, `GeometryAssumption`, `DisksAssumption`).  Those about file
handles also assume `HandlesRestriction`, the two things the run `handles` leaves
out as well; without either of them `CountsAgree` is false, section 6.  Those about
the memory that chained drivers lie in assume `DriversFit`, which the driver files of the run
`devicehigh` satisfy (`MCDriversFit`, evaluated there).  Those about FDISK assume
`LayoutsFit`, which the layouts of the run `fdisk` satisfy (`MCLayoutsFit`).

**The arena (`ArenaProofs`).**  `InvariantHolds`
is `Spec => []IInv`.  That blocks tile memory is not inductive alone: to merge a
run of free blocks one must know that no free block reaches over a bridge or a
guard, and to link the chains that the conventional block before the bridge is
the only one whose signature changes.  `IInv` therefore adds to `ChainTiles`
where the end signatures stand (`EndMarks`), that bridge and guards are in place
and DOS's (`Barriers`), that regions are apart (`RegionsApart`) and what the
globals mean while extents are being registered (`BootState`).  The step proof has
one lemma per call.  The chain operators are treated once, in lemmas of their
own: growing a block over its free run keeps the tiling, splitting
keeps it, and so does any number of disjoint growths at once (`CoalesceAll`).
From `IInv` follow `ChainAlwaysTiles`, `LinkCanAlwaysBeToggled`,
`NoBlockEverCrossesGap` and, as an action property, `OthersUntouched`.
`RegionAnswerSound` (`RegionInfoSound`) compares two traversals: the answer adds up
runs of free blocks inside the region, a request merges them first.  A merged
block of a region begins where a run begins and is as large as the run, since no
run passes a guard; the code's count is that size, less a paragraph for each
empty block at the head.

**The scan of $ALLOC (`ArenaProofs`, last part).**  `ScanImplementsArena` is
`ScanSpec => ScanIsAtomic`: every step of the loop is one of `Arena`'s calls as a
whole (`Split` is `AllocOk`, `ScanFail` is `AllocFail`) or a stutter.  This is what
justifies the one-step operators (`CoalesceAll`, `FirstScan`, `Scanned`, the three
fits) on which the other arena modules rest.  The scan merges the chain it walks, so
the proof has to say what the chain is half way.  `ScanInv` (in `ArenaScan`):
the chain is always that of the entry with the blocks behind the walk merged,
and, at the block where coalesce is at work, merged as far as it has come
(`Merged`); each domain keeps to its part of the chain and, at its end, has done all
of it (`Place`); the three globals are the choice among the blocks behind that fit,
the word on the stack their largest room (`Recorded`).  The two facts about merging
are that one turn of coalesce leads to the same merged chain (`MergeTurn`) and that
to merge one block more after the others is to merge them all together
(`MergeOneMore`); `ChoiceGrows` is the same for the choice.  The fallback scan
leaves out the upper blocks of the first: nothing was found there, and what was
found below cannot make an upper block fit.  `ScanNeverTrashed` (`NeverTrashed`): no
walk reaches a paragraph that is not a header.  `ReportedMaximumIsExact`
(`ReportedMaxIsExact`) includes a request of no paragraphs, which the run `scan`
does not make: it fails only where there is no free block at all and is then told
zero, so that the size reported is not less than the size asked for.

**UMB acquisition (`UpperMemoryProofs`).**  `AcquisitionIsTransactional`
(`AllOrNothing`) and `RegionsAlwaysBacked` (`RegionsBacked`), from an invariant
`AcquireInv` that ties SYSINIT's table, the regions registered so far and the
provider's record together at each place of AcquireUmbs, on top of the arena's
`IInv`: memory calls between acquisitions do not touch the region table.

**LOADHIGH (`UpperMemoryProofs`).**  `PolicyBooksHold` is `HighSpec => []HighInv`, for any
arena, profiles and number of interpreters inside each other.  `HighInv` adds to
the arena's `IInv`: each interpreter's books (`ShellInv`: between the saving calls
and the last restoring one it has saved the state it began with), that all
interpreters but the last wait for their program (`StackInv`), what is in force at
each place of EXT_EXEC (`PlaceInv`), and that every cap in force is claimed by an
interpreter that has still to remove it (`CapsInv`).  The last is needed because a
nested LOADHIGH may cap or clear a region of an outer one: a cap may be gone
early, section 6, but never stays.  From it follow `PolicyRestored`
(`PolicyOnlyWhileChildRuns`, by the fact that the second 5803h is the only way
back to the prompt), `CapsRemoved` (`NoCapsAtPrompt`) and `ProfileInForce`
(`ProfileCompleteAtExec`).  That EXT_EXEC ignores the error of 5803h does no harm
(`LinkPut`): the call is refused only where there is no upper arena, and then the
saved state is "not linked" already.  All four are about `HighSpec`, BREAK off; with
BREAK on (`BreakSpec`) they are false, section 6.

**DEVICE and DEVICEHIGH lines (`DeviceHighProofs`).**  `PolicyPutBack`
(`PolicyOnlyInTransaction`) holds for every set of lines and files: `PolicyInv` says
for each place of a line what has been changed and not yet put back; its less
obvious part is that the caps set so far lie in the regions the clean-up visits
(`Capped`), also after a refusal half way.  `LowCursorStaysInBounds`
(`LowCursorInBounds`) holds for every set of files as well: whatever break address
INIT returns, however many DPBs follow and whichever device of a file fails, the
conventional cursor, MEMHI or what a line that works high has saved of it, stays
between AREA and ALLOCLIM.  Its invariant `LowInv` says at which places a line may
have a high block and that before a later INIT the cursor is not below the load
address.  For upper memory there is no such theorem: `CursorInBounds` is only
model-checked, on driver files that keep within their image, as ROUND compares
nothing there (section 6).  Two theorems about memory assume `DriversFit`:
`LinkedMemoryStays` (`LinkedMemoryOwned`) and `NoUpperBlockLost` (`NoBlockLost`).
Their invariant
`MemInv` has four parts.  `HighInv`: the block of the line is SYSINIT's and is
as large as the line believes, from the grant to the commit.  `CursorInv` with
`InitInv`: where MEMHI, the load address and the break address stand at each place;
before a later device of a file MEMHI is the break address and only character
devices are left.  `LinkedInv`: a chained paragraph lies below the part of
conventional memory that a failing line takes back (`LowBound`), in a block that
DOS owns, or in the part of the line's block that the commit keeps.  `UpperInv`: an
upper block is free, stands for a reason (`Standing`) or is the line's.  The steps
use what an arena call leaves of upper memory (`UpperKept`), proved once for each
call.  `DriversFit` asks of a file that, unless its image is as large as any
extent, it keeps no more with its DPBs than it loaded and has no drive of too
large a sector (such a drive's DPBs are chained before the block is given back);
that a file with such a drive keeps something; and that a file of several devices
keeps something and has only character devices.  Section 6 lists what the code
does with other files: the theorems are then false.

**Interrupt stacks (`StackPoolProofs`).**  `StacksAlwaysDistinct`,
`NoStackIsLost` and `ContextAlwaysOwn`, for any number of stacks, interrupts and NMIs.  `PoolInv` adds
the converse of `NoStackLost`, that the entry a frame holds is marked allocated,
and at which places a frame's BP is known to be in the table.  The steps fall
into those that keep what the frame holds, the two exchanges that take an entry
(the answer of XCHG decides, so two frames can never both be told "free"), and
those that give one back.  `ContextInv`, on top of it, says that the SS:SP in
an entry is its holder's from the switch until it is read back: only the holder
writes it, and no two frames hold one entry.

**The page pool (`EmmPoolProofs`).**  `PoolAlwaysConsistent` is `Spec => []IInv`.
`IInv` (in `EmmPool`) says that the lists of the valid handles lie in `emm_page` without overlap
and cover it up to `emmpt_start`, that the free stack and the lists together hold
every page once, and that `handle_count` is the number of valid handles; a
handle without pages may have any index, which is why the bounds in `IInv` are
about handles with pages.  `GrowTiles` and `CutTiles` are the two facts about
moving lists inside the array.  From it follow `SearchAlwaysFindsSlot`
(`SearchFindsSlot`), `PagesNeverLostOrShared` (`EachPageOnce`) and the step
simulation: `PoolImplementsOwners` is `Spec => PagesStayWithOwner`, the whole
refinement of `EmmOwners`, one lemma per call.

**File handles (`HandlesProofs`).**  `HandlesAlwaysRight` is `Spec => []IInv`.
That the count of an entry is the number of its handles is not inductive: DOS_ABORT
zeroes the counts of all entries the ending process opened, so one must know that
nobody else has a handle to them then.  `LineageInv` says why: processes end in the
opposite order in which they begin (EXEC stacks them), and a process holds only
files that itself, the root or an ancestor who is still there opened.  `CallInv`
says, for each place inside a call, which handle and which count are half done;
its awkward part is the entry that an aborted open left busy, whose handle a hard
error in the clean-up can put back (`Ghost`).  From `IInv` follow
`CountsAlwaysAgree`, `SftNeverLost` and `TableAlwaysInPlace`, and the step
simulation `HandlesImplementOpenFiles`: `Spec => HandlesKeepFile`, one lemma per
action.  `OpenBegins` maps to Open unless it finds no room, `OpenSucceeds` to
OpenDone, `OpenFails` to OpenUndone, the first half of a close, where the handle
goes, to Close (of a close inside EXIT to a stutter, as End has taken the handle), DUP,
the second half of DUP2 and each inherited handle to Share, EXIT and an abort to
End where they begin (for the first process, which does not end, to OpenUndone
or a stutter), the rest to a stutter.

**FDISK (`FdiskProofs`).**  `PartitionsStayDisjoint` (`PartitionsDisjoint`),
`DrivesAlwaysInside` (`DrivesInside`), `ChainAlwaysAscends` (`ChainAscends`) and
`UnsavedAlwaysMarked` (`UnsavedMarked`), for a disk, tables and layouts of any size and any number of runs, power cuts and
failed writes.  The sorted order of a table is a ranking by cardinality
(`SortedIsOrder`), and what find_part_free_space and find_ext_free_space hand out is
shown free of every entry (`FreeIsFree`, `ExtFreeIsFree`).  `IInv` has five parts.
`TablesInv`: both tables, in memory and on the disk, are sound, and unsaved entries
are marked, so that the record that is written is the table in memory.  Sound
says more than disjoint: where there is a primary partition some partition starts
on cylinder 0, and there is an extended one only beside a primary one.  That is why
the gap in front, whose start is moved up for an extended partition and whose size
is not, is then empty; `PrimaryInFront` shows that the primary partition takes it,
from `LayoutsFit`.  `BootInv`: each record leads up the disk and its drive lies
ahead of it.  `DrivesInv`: no two drives in memory start on the same cylinder, and
none before the extended partition; they need not be disjoint for `ChainAscends`.
`ReadingInv`: while the chain is read, the drives found so far start before the
next record.  `QueueInv`: what is still to be written is the table in memory and
records that lead up the disk.  `LayoutsFit` asks of a disk with partitions of other
systems that a cylinder be free, and that one of them start on cylinder 0 or no gap
behind one be larger than the gap in front; without it `PartitionsDisjoint` is
false, section 6.

`DrivesInside` needs more than `IInv`, as the next run may read a chain of which only
some records were rewritten, in any order of old and new.  `ChainInv` says, as long
as no master record has failed to be written, that there is a closed set of
cylinders in the extended partition (`Closed`): it has the first record, with a
record the one it points at, each of its records but the first is swept or stands
where its own drive starts, leads past the end of that drive, and the drive of a
dummy record has a record of its own.  Every drive in memory starts in that set,
and the record there is swept or says the same drive, so a write exchanges a
record for one that leads to the drives in memory and a drive read later lies
behind those read before.  A dummy record left in front by an earlier run is what
could still slip: no drive in memory starts within its drive unless it is that one
(`Linked`).  `OrderInv` says what the queue holds: the table first, then a record
for each drive, and a dummy record last, only where no drive starts.
`WrittenClosed` shows for the exchange of one record that the set stays closed.

`SavedAlwaysAsShown` (`SavedAsShown`) rests on `IInv` and `SavedInv`: an entry or a record
without a drive is blank, the records queued are the table and those of `Chain`, and
while every write of the run has succeeded each record of `Chain` is on the disk or
still queued.  `ChainIs` shows that no two of them go to the same cylinder, so none
is overwritten.  What the next run reads is a recursive function of the disk
(`LoadedDrives`); `LoadedAre` shows by a least counterexample that a function which
satisfies its recursion is the only one, and `ShownIsRead` gives one, with the
first drive at place 0 or, behind a dummy record, at place 1.

**DEFRAG (`RecoveryProofs`).**  `RecoveryInvariantHolds` is `Spec => []RecoveryInv` for
`VolumeRecovery`, and from it follow `MapsAlwaysAgree` (`MapsAgree`) and
`AlwaysPacked` (`Packed`).  They hold for every volume, faulty ones included
(`DisksAssumption` says only that a table entry is a 16-bit number and a sector a
sequence of slots; `GeometryAssumption` is the limit of `FATVOL.C:65`), for every
option set and wherever DEFRAG is cut short.  Neither property is inductive: a call
changes its maps at once, but the disk sector by sector.  `MapsInv` (in `Defrag`)
therefore speaks of what the table will be once all that is queued has been
written (`Final`, `Settled`): both copies will be alike, and `allocated` is what will
not be zero, with `movable` inside `claimed` inside it (`MapsAhead`).
A sector that reaches the disk leaves that as it is (`WriteOne`).  A call
adds its writes and changes its maps, and the two have to match: `Does(ws, N, Z)` says
that ws leaves the entries in N not zero, those in Z zero, and all others
alone, in both copies.  `RelocationDoes` and `MoveDoes` say so of relocate_file and
move_cluster, the latter with the links it redirects, which were not zero before;
`ReferencesQuiet` and `SortQuiet` say that replace_directory_references and
sort_directory write no entry.  That a relocation frees no cluster of its run
follows from the maps themselves: the chain is in use, the run is not.  For
`Packed`, `Compacted` says what the cursors have left behind: below `target` nothing
is free, and a movable cluster below `source` is below `target`.
The operators on the volume are recursive functions (chains, the references'
walk, rows of writes); each is treated by a least counterexample.
`MapsInv` was first checked by TLC as an invariant of the instance of
`volume_recovery`.

Only model-checked: all liveness; of `VolumeRecovery` `NeverUnreadable`, `Recovered` and
`RepairIsClean`; and everything of `BackupRestore`.
Liveness under fairness and ENABLED, induction over data, and RECURSIVE
operators are out of the prover's reach.  `BackupSet` and `Restore` follow chains of
records with RECURSIVE operators, which leaves proofs about them out of reach; the
other modules are written without them.  `NeverUnreadable`, `Recovered` and
`RepairIsClean` compare whole directory trees (`View`, `Sound`) after each sector: what
a tree walk finds on a volume half way through a call is a statement about the
recursion at any depth, for which `MapsAgree` is a first step; they stay with TLC.

## 6. Where the code disagrees with its text, or with what it needs

One has a run whose counterexample shows it; `PROJECT.json` quotes the lines.
(Paths of tests, `tests/...`, are relative to the root of the repository.)

* `fdisk_escape`: opening the screen that creates a logical drive tests the
  tracks of the largest free space by writing F6h over them (`SPACE.C:379`,
  `INT13.C:248`), before anything is entered.  If the first drive was deleted in
  an earlier run, the record at the start of that space is the one that links to
  all others; after ESC nothing is written, and the next run finds no drives.
  The screen says "nothing will change" (`C_MENUS.C:817`).

The following are stated in the modules as a property or reached by a value of a
constant, and TLC finds a counterexample for each; they have no run of their own.

| Statement | How to see it | What happens |
|---|---|---|
| a grant ends at its cap | `LimitKept` of `Arena`, last fit in `Methods` | $ALLOC takes the high end of a capped block, past the cap (`ALLOC.ASM:302`); LOADHIGH itself selects first fit, a program under it may not |
| region information is exact | `RegionInfoExact` of `Arena` | the size of the largest free block is a paragraph too small for each empty free block that begins a run (`ALLOC.ASM:992`) |
| LOADHIGH's policy ends with its child | `BreakSpec` of `LoadHigh`, `NoCapsAtPrompt` | with BREAK on, Ctrl-C at one of LOADHIGH's own calls leaves the policy in force at the prompt (`TCODE.ASM:148`) |
| chained devices stay owned | `DeviceHigh` with `Drivers <- MCSecondFails`, `LinkedMemoryOwned` | when the second device of a file fails, the block of the first, already chained, is freed (`SYSCONF.ASM:1854`) |
| the same | a drive of too large a sector in a file that loads high | the DPBs chained before it stay in the block that is freed |
| the cursor stays in its block | `Drivers <- MCKeepsAll`, `CursorInBounds` | break address and DPBs of a high-loaded driver are compared with no limit (`SYSINIT2.ASM:808`) |
| NextEntry is in the table | `InsideTable` of `StackPool` | an NMI between `mov AllocByte,Free` and `mov NextEntry,bp` finds it below (`MSSTACK.INC:199`) |
| a volume that DEFRAG refuses is left alone | `RefusedUnharmed` of `VolumeRecovery` | clusters are written before a faulty slot further on is met (`DEFRAG.C:467`); `tests/test_defrag_errors_qemu.sh:135` says "no writes" |
| a complete repair leaves nothing to repair | `RepairedIsClean` of `VolumeRecovery` | SCANDISK reports that all is repaired (`SCANDISK.C:1561`), and a check finds faults, in these cases (`Leaves`): a lost chain that runs into a file or into a bad mark is saved as FILEnnnn.CHK without being ended (`1168`), or under a name that an earlier repair has given (`1085`); a directory whose first cluster is taken has its start set to 0 and stays a directory (`615-621`); a first cluster marked bad is reported and kept (`632-638`); a file ended before a bad mark keeps a size that counts the bad cluster; a directory moved off a weak cluster keeps the old one in its "." entry (`1303`) |
| partitions are apart on any disk | `Foreign` with one partition of another system on cylinder 1 only, `PartitionsDisjoint` | the primary partition goes behind it, into the largest gap; the gap in front then starts on cylinder 1 for the extended partition but keeps its size of one (`SPACE.C:53`, `62`), so that an extended partition is put on top of the other system's |
| counts agree after any hard error | `ErrorsWhileMarked = TRUE`, `CountsAgree` | Abort leaves SFN set; only the next open resets it (`FILE.ASM:225`, `253`).  A later hard error in the parent that is answered with Retry or Fail puts the dead open's handle back (`CTRLC.ASM:499`) |
| counts agree whatever stays resident | `KeepsInherited = TRUE`, `CountsAgree` | at the end of a process the counts of all entries it opened are zeroed, not only of the busy ones (`ABORT.ASM:106-120`, against "eliminate all busy SFT's for this process" at 98), also when a resident child still holds them |
| what lost its archive bit can be restored | `SavedIsRestorable` without `~Faulty(Orphaned)` | the first directory's block is written before any of its files is opened; if none can be, the next block is not linked to it (`files_backed_up > 0`, `BACKUP.C:3093`) and every file behind it is lost to RESTORE |
| the same, on a full target | without `~Faulty(Dangling)`; without `~Faulty(Headerless)`, sizes 5, 0, 0, 0 | no write to the control file is checked (`BACKUP.C:3188`): a block or header that does not fit is linked and counted |
| the same, on a hard disk | without `disks # <<>>` | files_backed_up, "number files backed up on current target" (`BACKUP.C:121`), starts again with each directory; a disk that is full, or Ctrl-C, at the first file of a later one makes clean-up delete all of \BACKUP, with the archive bits of the files there reset |
| BACKUP /A ends | `bk.result # "hung"` | on a chain whose last link leads past the end, mark_as_not_last_target looks for the end for ever |
| a file RESTORE reports is whole | `RestoredIsWhole` without `~Faulty(Uncounted)` | the header behind a block that counts none is restored as a file, with what the data file holds of it, and reported as done |
| a file is restored whole or not at all | `RestoredIsWhole` without `~strayed`, and `"refused"` among its results | when a part is out of sequence RESTORE ends and leaves the part it has as the file; the deletion that Ctrl-C makes is not made |

Found by reading while the modules were written, without a model:

* Handles.  The extended open's exit OpenE2 (`FILE.ASM:228-231`) keeps handle and
  busy entry when the action word is invalid.
* Expanded memory.  A handle without pages does not take part when lists move, so
  its index may point anywhere, `EMM40.C:140-143` corrects some of them and
  `EMMFUNCT.C:245-250` others; harmless as long as every use looks at the count
  first, which is what `PagesStayWithOwner` checks.
* FDISK.  Entry 0 of the extended table in use but not first on the disk is
  written as a record that does not lead to the others (the NUL test of
  `DISKOUT.C:93`, the dummy record at 105 and 224).  On a full disk with a free
  table entry, the answer Yes makes a partition of no cylinders (`C_MENUS.C:316`).
  Tracks tested around a bad spot may reach into the next partition
  (`INT13.C:299-310`).  The extended records are written although the master
  record's write failed.  dos_create_partition's size is not compared with the
  free space.
* DEFRAG.  Sorting rewrites a directory sector by sector (`DEFRAG.C:797`); a cut
  between two of them loses an entry and doubles another.
* SCANDISK.  A bad mark in the link of a first cluster counts as an error, but
  neither as repaired nor as unrepaired, so that the exit code is that of a volume
  on which all was repaired.
* BACKUP.  The rest of the buffer written to the next diskette is not checked.
  Ctrl-C between two diskettes leaves a set none of whose diskettes is the last,
  to which /A can add nothing.
* RESTORE.  The right diskette inserted after a warning still counts as out of
  sequence, and nothing tells the diskettes of two sets apart.  A diskette
  without CONTROL.nnn ends RESTORE at once, though `RTDO1.C:50-53` says the next
  can be tried.  One file by name is taken from the first diskette that has it,
  which after /A is the older version.
* With DEVICEHIGH active, ROUND reaches Round_Bounds_Ok with AX holding the
  rounded MEMLO, so DEVMARK_SIZE is computed from the wrong value
  (`SYSINIT2.ASM:803-822`).
* LOADHIGH /S inside a COMMAND.COM that was itself loaded by LOADHIGH /S clears
  the outer command's caps.
* The cap of /S counts from the start of a region, so a region whose low part is
  in use may have no room below its cap.
* The branch of ResetUmb that restores a merged block finds nothing to restore
  in any reachable state.
* A second device of a file, after a block device, sets MEMHI below the DPBs of
  the first.
* The header of `MSSTACK.INC` (L37) says an overflow "Clobbers the stack that got
  too big instead of innocent stack".  When an entry below is already set aside,
  LongPath may give a nested interrupt a higher stack than its caller's, and its
  overflow then hits one in use.

## 7. What is not modelled

* Branches to arena_trashed in `Arena` (`ChainTiles` shows that no header is bad);
  `ArenaScan` has them.  Programs that write over headers or pass blocks they do
  not own are outside the model.
* Owner 8 written directly by SYSINIT elsewhere (`SYSINIT1.ASM:655-664`,
  `TABLEUMB.INC`), the HMA query 580Eh, memory calls of a driver's INIT, IFS=
  lines.
* INSTALLHIGH, and the placement of tables in upper memory.
* Stack pool: hooking of the vectors, the PC Convertible's NMI that does not
  switch stacks, an overflow of the lowest stack into the table, NMIs that arrive
  after the fatal message (they would end there too), the unused
  fields IntLevel and "overflowed".  What lies below the table is taken to hold
  any byte and never a matching back-pointer.
* Handles: SHARE and network files, several users, calls made by resident
  programs while another call waits, function 26h, FCB entries, extended open,
  sharing mode 70h (which joins a new open to an existing entry), reading,
  writing and seeking, and a hard error inside EXEC's own open of the program.
* Expanded memory: the page frame and what is mapped into it, moving and
  exchanging memory, alternate register sets, OSDisable's keys, and the functions
  that only report.
* The volume: FAT12 entries that straddle a sector, clusters of several sectors,
  long names, labels, attributes and dates, reading errors, the nesting limit of
  64; of SCANDISK the modes that ask, the undo disk, SCANDISK.INI, /FRAGMENT and
  the abort by a key; of DEFRAG the menu and the map on the screen.
* FDISK: the second disk, command-line mode, sizes in megabytes and percent, bad
  tracks, labels and drive letters, screens.
* BACKUP and RESTORE: sets of releases before 3.3, /D, /T, /L and the log file,
  FORMAT, diskettes that are not fresh, the different lengths of the records (here
  one unit each); of RESTORE the options on date, time and attributes; a
  destination that is full or shared; BREAK=ON, and Ctrl-C between the creation of
  a further diskette and its header.
* The components marked "not_modelled" in `PROJECT.json`: most are either at the
  level of the hardware (drivers, monitor) or sequential input and output
  (the other utilities); FCBs, SHARE, the kernel's FAT code with its buffers, XMS,
  INTERLNK, PRINT, the caches and UNDELETE are in reach and planned.

## 8. Plan

Done, in this order: `ArenaChain`, `Arena`, `ArenaScan`, `UmbBoot`, `LoadHigh`,
`DeviceHigh`, `StackPool`; `FatVolume`, `Defrag`, `ScanDisk`, `VolumeRecovery`;
`EmmPool`; `Fdisk`; `Handles`; `BackupSet`, `Backup`, `Restore`,
`BackupRestore`.  The arena came first because every other part of
start-up and of process control stands on it, the disk utilities next because
what they lose is lost for good.

Next modules, in this order:

1. Delete Sentry (`UNDELETE.C`): control file, linked records and stored files,
   with failures and cuts between rename, record and header.
2. `Buffers` and `Fat`: cache and cluster allocation of the kernel with write
   errors and power loss.  Abstract specification of the cache: a disk with
   pending writes.
3. `Share`: modes, MFT and locks of several processes, over `Handles`; FCBs.
4. `Process`: `Arena` and `Handles` together (nothing of an ended process is left
   in either chain or in any table; EXEC's patched strategy is restored on each
   way out).
5. `InstallHigh` on LoadHigh's actions; then `Xms`, the INTERLNK link protocol,
   PRINT's queue, FASTOPEN.
