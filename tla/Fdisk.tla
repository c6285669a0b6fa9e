------------------------------- MODULE Fdisk -------------------------------
(***************************************************************************)
(* FDISK on one hard disk (src/src/CMD/FDISK).  The program reads the      *)
(* master boot record and the chain of extended boot records into two      *)
(* tables, lets the user edit the tables, and writes them back when the    *)
(* main menu is left.  The power may fail at any time and any record may   *)
(* fail to be written; the next run then reads what is on the disk.        *)
(*                                                                         *)
(* Sizes are whole cylinders.  The boot record of a cylinder is its first  *)
(* sector (head 0, sector 1); the master boot record is cylinder 0's.      *)
(***************************************************************************)
EXTENDS Integers, FiniteSets, Sequences, SequencesExt, FiniteSetsExt

CONSTANTS
  TotalDisk,  \* total_disk: cylinders of the disk
  Entries,    \* entries of the master boot record's table: 4 in the code
  Slots,      \* usable entries of ext_table: 23 in the code
  Foreign,    \* the tables a disk may come with, with other systems' partitions
  Faults,     \* bound on power cuts and failed writes
  Runs        \* bound on the runs of the program

PartIndexes == 0 .. Entries - 1
DriveIndexes == 0 .. Slots - 1
Disk == 0 .. TotalDisk - 1

PartEntry == [sys : {"none", "dos", "extended", "foreign"}, start : Disk, end : Disk,
              active : BOOLEAN]

Cylinders(e) == e.start .. e.end

ASSUME DiskAssumption ==
  /\ TotalDisk \in Nat /\ TotalDisk > 1
  /\ Entries \in Nat \ {0} /\ Slots \in Nat \ {0} /\ Faults \in Nat /\ Runs \in Nat
  /\ Foreign \subseteq [PartIndexes -> PartEntry]
  /\ \A table \in Foreign : \A i \in PartIndexes :
        /\ table[i].sys \in {"none", "foreign"}
        /\ table[i].start <= table[i].end
        /\ \A j \in PartIndexes \ {i} :
              table[i].sys # "none" /\ table[j].sys # "none" =>
                Cylinders(table[i]) \cap Cylinders(table[j]) = {}

VARIABLES
  master,       \* the table of the master boot record on the disk
  boot,         \* the boot records of the other cylinders on the disk
  part,         \* part_table
  ext,          \* ext_table; entry Slots is the spare one of the dummy record
  partChanged,  \* the entries of part_table whose changed flag is set
  extChanged,   \* whether an entry of ext_table has its changed flag set
  pc,           \* "off", "reading", "menu", "volumes" (VOLUME_CREATE's loop) or "writing"
  location,     \* partition_location: the record to read next
  count,        \* num_logical_drives: the entry of ext_table it goes to
  queue,        \* the records WRITE_INFO_TO_DISK has still to write
  intact,       \* whether this run's writes have all reached the disk
  runs,         \* the runs started so far
  faults        \* what has failed so far: the power, or the write of a record

reading == <<location, count>>

vars == <<master, boot, part, ext, partChanged, extChanged, pc, reading, queue, intact, runs,
          faults>>

-----------------------------------------------------------------------------
(* The tables and the records. *)

None == -1
Unused == [sys |-> "none", start |-> 0, end |-> 0, active |-> FALSE]
NoDrive == [start |-> 0, end |-> 0, used |-> FALSE]

\* A sector that is no extended boot record: data, or the 0xF6 of the sweep.
Junk == [drive |-> NoDrive, next |-> None]

Partitions == {i \in PartIndexes : part[i].sys # "none"}
Drives == {i \in DriveIndexes : ext[i].used}
OfType(type) == {i \in PartIndexes : part[i].sys = type}
Extended == part[Min(OfType("extended"))]

\* find_free_partition and find_free_ext: the first empty entry.
FreePartitions == PartIndexes \ Partitions
FreeDrives == DriveIndexes \ Drives

\* The members of S in ascending order of their keys, and of the members where
\* the keys are equal.
Sorted(S, key) ==
  LET Before(i) == {j \in S : key[j] < key[i] \/ (key[j] = key[i] /\ j < i)}
  IN  [k \in 1 .. Cardinality(S) |-> CHOOSE i \in S : Cardinality(Before(i)) = k - 1]

\* The used entries in the order of the disk (sort_part_table by the end
\* cylinder, sort_ext_table by the start).
PartitionOrder == Sorted(Partitions, [i \in PartIndexes |-> part[i].end])
DriveOrder == Sorted(Drives, [i \in DriveIndexes |-> ext[i].start])

-----------------------------------------------------------------------------
(* Free space. *)

Gap(first, last) == [start |-> first, end |-> last, space |-> last - first + 1]

\* Mutant: the gap behind a partition starts on the partition's last cylinder.
GapsTouch(table, order, end) ==
  [k \in 1 .. Len(order) |->
     Gap(table[order[k]].end,
         IF k = Len(order) THEN end ELSE table[order[k + 1]].start - 1)]

\* Between neighbours, and behind the last one.
Gaps(table, order, end) ==
  [k \in 1 .. Len(order) |->
     Gap(table[order[k]].end + 1,
         IF k = Len(order) THEN end ELSE table[order[k + 1]].start - 1)]

\* The first of the largest gaps.
Largest(gaps) ==
  gaps[CHOOSE k \in DOMAIN gaps :
         /\ \A j \in DOMAIN gaps : gaps[j].space <= gaps[k].space
         /\ \A j \in 1 .. k - 1 : gaps[j].space < gaps[k].space]

\* find_part_free_space.  An extended partition may not start on cylinder 0:
\* the start of the gap in front of the first partition is moved up, its size
\* is not.
PartFreeSpace(type) ==
  LET first == IF type = "extended" THEN 1 ELSE 0
  IN  IF Partitions = {} THEN Gap(first, TotalDisk - 1)
      ELSE LET head == [start |-> first, end |-> part[PartitionOrder[1]].start - 1,
                        space |-> part[PartitionOrder[1]].start]
           IN  Largest(<<head>> \o Gaps(part, PartitionOrder, TotalDisk - 1))

\* find_ext_free_space.
ExtFreeSpace ==
  IF Drives = {} THEN Gap(Extended.start, Extended.end)
  ELSE Largest(<<Gap(Extended.start, ext[DriveOrder[1]].start - 1)>>
               \o Gaps(ext, DriveOrder, Extended.end))

\* Its sizes are unsigned and wrap where a drive ends behind the extended
\* partition or in the next drive, which may be so after a failed write of the
\* master record.  What volume_create makes of such sizes is not modelled.
SizesHold ==
  Contains(faults, "master") =>
    \A i \in Drives : /\ ext[i].end <= Extended.end
                      /\ \A j \in Drives : ext[i].start < ext[j].start => ext[i].end < ext[j].start

\* verify_tracks writes 0xF6 over the tracks the system area would take; on
\* cylinder 0 it starts at head 1 and spares the master boot record.
Swept(gap) == [c \in DOMAIN boot |-> IF gap.space > 0 /\ c = gap.start THEN Junk ELSE boot[c]]

-----------------------------------------------------------------------------
(* Editing the tables. *)

\* Mutant: the last cylinder is one too many.
MakePartitionLong(gap, size, active, type) ==
  LET i == Min(FreePartitions)
  IN  /\ part' = [part EXCEPT ![i] = [sys |-> type, start |-> gap.start,
                                     end |-> gap.start + size, active |-> active]]
      /\ partChanged' = partChanged \cup {i}

\* make_partition.
MakePartition(gap, size, active, type) ==
  LET i == Min(FreePartitions)
      demoted == {j \in PartIndexes : active /\ part[j].active}
  IN  /\ part' = [j \in PartIndexes |->
                    IF j = i THEN [sys |-> type, start |-> gap.start,
                                   end |-> gap.start + size - 1, active |-> active]
                    ELSE [part[j] EXCEPT !.active = @ /\ j \notin demoted]]
      /\ partChanged' = partChanged \cup demoted \cup {i}

\* make_volume.
MakeVolume(gap, size) ==
  LET i == Min(FreeDrives)
  IN  /\ ext' = [ext EXCEPT ![i] = [start |-> gap.start, end |-> gap.start + size - 1,
                                    used |-> TRUE]]
      /\ extChanged' = TRUE

\* Size 0 stands for ESC: the sweep has been made all the same.
Sizes(gap) == 0 .. gap.space

\* dos_create_partition with the answer No: input_dos_create.
CreatePrimary ==
  /\ pc = "menu"
  /\ FreePartitions # {}
  /\ OfType("dos") = {}
  /\ LET gap == PartFreeSpace("dos")
     IN  /\ boot' = Swept(gap)
         /\ \E size \in Sizes(gap) :
              IF size = 0 THEN UNCHANGED <<part, partChanged>>
              ELSE MakePartition(gap, size, FALSE, "dos")
  /\ UNCHANGED <<master, ext, extChanged, pc, reading, queue, intact, runs, faults>>

\* ext_create_partition; it goes on to volume_create.
CreateExtended ==
  /\ pc = "menu"
  /\ FreePartitions # {}
  /\ OfType("dos") # {}
  /\ OfType("extended") = {}
  /\ LET gap == PartFreeSpace("extended")
     IN  /\ boot' = Swept(gap)
         /\ \E size \in Sizes(gap) :
              IF size = 0 THEN UNCHANGED <<part, partChanged, pc>>
              ELSE /\ MakePartition(gap, size, FALSE, "extended")
                   /\ pc' = "volumes"
  /\ UNCHANGED <<master, ext, extChanged, reading, queue, intact, runs, faults>>

\* create_partition asks for a free partition entry even for a logical drive.
OpenVolumes ==
  /\ pc = "menu"
  /\ FreePartitions # {}
  /\ OfType("extended") # {}
  /\ SizesHold
  /\ pc' = "volumes"
  /\ UNCHANGED <<master, boot, part, ext, partChanged, extChanged, reading, queue, intact, runs, faults>>

\* One turn of volume_create's loop; letters C to Z are 24 drives in all, the
\* primary partition's included.
CreateVolume ==
  LET letters == Cardinality(Drives) + (IF OfType("dos") = {} THEN 0 ELSE 1)
  IN  /\ pc = "volumes"
      /\ IF letters > Slots
         THEN pc' = "menu" /\ UNCHANGED <<boot, ext, extChanged>>
         ELSE LET gap == ExtFreeSpace
              IN  /\ boot' = Swept(gap)
                  /\ \E size \in Sizes(gap) :
                       IF size = 0 THEN pc' = "menu" /\ UNCHANGED <<ext, extChanged>>
                       ELSE MakeVolume(gap, size) /\ UNCHANGED pc
      /\ UNCHANGED <<master, part, partChanged, reading, queue, intact, runs, faults>>

\* The entries are cleared and marked (dos_delete and ext_delete).
Clear(indexes) ==
  /\ part' = [i \in PartIndexes |-> IF i \in indexes THEN Unused ELSE part[i]]
  /\ partChanged' = partChanged \cup indexes
  /\ UNCHANGED <<master, boot, ext, extChanged, pc, reading, queue, intact, runs, faults>>

\* dos_delete removes one partition; the first disk keeps its primary
\* partition as long as it has an extended one.
DeletePrimary ==
  /\ pc = "menu"
  /\ OfType("extended") = {}
  /\ OfType("dos") # {}
  /\ Clear({Min(OfType("dos"))})

\* ext_delete, once the logical drives are gone.
DeleteExtended ==
  /\ pc = "menu"
  /\ OfType("extended") # {}
  /\ Drives = {}
  /\ Clear(OfType("extended"))

\* volume_delete: the drives chosen on the screen are cleared when it is left.
DeleteVolumes ==
  /\ pc = "menu"
  /\ OfType("extended") # {}
  /\ \E chosen \in SUBSET Drives \ {{}} :
       /\ ext' = [i \in 0 .. Slots |-> IF i \in chosen THEN NoDrive ELSE ext[i]]
       /\ extChanged' = TRUE
  /\ UNCHANGED <<master, boot, part, partChanged, pc, reading, queue, intact, runs, faults>>

\* change_active_partition.
ChangeActive ==
  LET bootable == {i \in Partitions : part[i].sys # "extended"}
  IN  /\ pc = "menu"
      /\ ~ \E i \in bootable : bootable = {i} /\ part[i].active
      /\ \E i \in bootable :
           /\ part' = [j \in PartIndexes |-> [part[j] EXCEPT !.active = (j = i)]]
           /\ partChanged' = partChanged \cup {i} \cup {j \in PartIndexes : part[j].active}
      /\ UNCHANGED <<master, boot, ext, extChanged, pc, reading, queue, intact, runs, faults>>

-----------------------------------------------------------------------------
(* Writing the tables. *)

\* write_master_boot_to_disk: only the changed entries are copied.
MasterRecord(table, changed) == [i \in PartIndexes |-> IF i \in changed THEN table[i] ELSE master[i]]

\* Mutant: a record points at its own drive.
ExtRecordLoops(cylinder, drive, order, k) ==
  [at |-> cylinder,
   record |-> [drive |-> drive,
               next |-> IF k > Len(order) THEN None ELSE ext[order[Max({k - 1, 1})]].start]]

\* write_ext_boot_to_disk: the drive of one entry and the place of the k-th
\* drive of the order, which comes next on the disk.
ExtRecord(cylinder, drive, order, k) ==
  [at |-> cylinder,
   record |-> [drive |-> drive,
               next |-> IF k > Len(order) THEN None ELSE ext[order[k]].start]]

\* The records of the drives, in the order of the disk.
DriveRecords ==
  [k \in 1 .. Len(DriveOrder) |->
     LET drive == ext[DriveOrder[k]] IN ExtRecord(drive.start, drive, DriveOrder, k + 1)]

\* Mutant: it is written only when entry 0 is in use.
DummyRecordSkipped ==
  IF ext[0].used /\ DriveOrder[1] # 0 /\ ext[DriveOrder[1]].start # Extended.start
  THEN <<ExtRecord(Extended.start, ext[0], DriveOrder, 1)>> ELSE <<>>

\* A record that starts the chain when the first drive does not.  It is passed
\* as entry 23, whose place in the sort order is never set and so names entry
\* 0; entry 0 as the first drive, and no drive at all, both look like NUL.
DummyRecord ==
  LET temp == IF DriveOrder = <<>> THEN 0 ELSE DriveOrder[1]
  IN  IF temp # 0 /\ ext[temp].start # Extended.start
      THEN <<ExtRecord(Extended.start, ext[0], DriveOrder, 1)>> ELSE <<>>

\* write_info_to_disk.
InfoRecords(table, changed) ==
  (IF changed = {} THEN <<>> ELSE <<[at |-> 0, record |-> MasterRecord(table, changed)]>>)
  \o (IF OfType("extended") = {} \/ ~ extChanged THEN <<>> ELSE DriveRecords \o DummyRecord)

\* The main menu is left.
Leave ==
  /\ pc = "menu"
  /\ pc' = "writing"
  /\ queue' = InfoRecords(part, partChanged)
  /\ UNCHANGED <<master, boot, part, ext, partChanged, extChanged, reading, intact, runs, faults>>

\* dos_create_partition with the answer Yes: the largest space, active, and
\* written at once when the machine has one disk.
CreateMaximum ==
  /\ pc = "menu"
  /\ FreePartitions # {}
  /\ OfType("dos") = {}
  /\ LET gap == PartFreeSpace("dos")
     IN  boot' = Swept(gap) /\ MakePartition(gap, gap.space, TRUE, "dos")
  /\ pc' = "writing"
  /\ queue' = InfoRecords(part', partChanged')
  /\ UNCHANGED <<master, ext, extChanged, reading, intact, runs, faults>>

\* write_boot_record.
WriteRecord ==
  /\ pc = "writing" /\ queue # <<>>
  /\ IF Head(queue).at = 0
     THEN master' = Head(queue).record /\ UNCHANGED boot
     ELSE boot' = [boot EXCEPT ![Head(queue).at] = Head(queue).record] /\ UNCHANGED master
  /\ queue' = Tail(queue)
  /\ UNCHANGED <<part, ext, partChanged, extChanged, pc, reading, intact, runs, faults>>

\* A record cannot be written: nobody asks, and the next one is tried.
FailRecord ==
  /\ pc = "writing" /\ queue # <<>>
  /\ Len(faults) < Faults
  /\ queue' = Tail(queue)
  /\ intact' = FALSE
  /\ faults' = Append(faults, IF Head(queue).at = 0 THEN "master" ELSE "extended")
  /\ UNCHANGED <<master, boot, part, ext, partChanged, extChanged, pc, reading, runs>>

\* The program's memory is gone.
Forget ==
  /\ pc' = "off" /\ queue' = <<>> /\ location' = None /\ count' = 0
  /\ part' = [i \in PartIndexes |-> Unused]
  /\ ext' = [i \in 0 .. Slots |-> NoDrive]
  /\ partChanged' = {} /\ extChanged' = FALSE
  /\ intact' = TRUE

\* reboot_system, or the return to DOS.
Finish ==
  /\ pc = "writing" /\ queue = <<>>
  /\ Forget
  /\ UNCHANGED <<master, boot, runs, faults>>

\* The power fails.
PowerCut ==
  /\ pc # "off"
  /\ Len(faults) < Faults
  /\ Forget
  /\ faults' = Append(faults, "power")
  /\ UNCHANGED <<master, boot, runs>>

-----------------------------------------------------------------------------
(* Reading the tables. *)

\* The record the chain goes on from: after a drive has been loaded, the boot
\* record of the drive's own cylinder is in the buffer.
Followed(record) == IF record.drive.used THEN boot[record.drive.start] ELSE record

\* init_partition_tables: the master record, and where the chain starts.
Start ==
  /\ pc = "off"
  /\ runs < Runs
  /\ runs' = runs + 1
  /\ part' = master
  /\ LET extended == {i \in PartIndexes : master[i].sys = "extended"}
     IN  IF extended = {} THEN pc' = "menu" /\ UNCHANGED location
         ELSE pc' = "reading" /\ location' = master[Min(extended)].start
  /\ UNCHANGED <<master, boot, ext, partChanged, extChanged, count, queue, intact, faults>>

\* One turn of its loop; load_logical_drive leaves a dummy record's entry empty.
\* Entries past the spare one go to the second disk's table, which is not in use.
ReadRecord ==
  /\ pc = "reading"
  /\ LET record == boot[location]
         next == Followed(record).next
     IN  /\ ext' = [i \in 0 .. Slots |-> IF i = count THEN record.drive ELSE ext[i]]
         /\ location' = next
         /\ IF next = None THEN pc' = "menu" /\ count' = 0
                           ELSE count' = count + 1 /\ UNCHANGED pc
  /\ UNCHANGED <<master, boot, part, partChanged, extChanged, queue, intact, runs, faults>>

\* The drives that the loop finds on the disk as it is.
LoadedDrives(table) ==
  LET extended == {i \in PartIndexes : table[i].sys = "extended"}
      at[k \in 0 .. Slots] ==
        IF k = 0 THEN IF extended = {} THEN None ELSE table[Min(extended)].start
        ELSE IF at[k - 1] = None THEN None ELSE Followed(boot[at[k - 1]]).next
  IN  [k \in 0 .. Slots |-> IF at[k] = None THEN NoDrive ELSE boot[at[k]].drive]

\* The machine stays off when the bound on runs is reached.
Rest == pc = "off" /\ runs = Runs /\ UNCHANGED vars

-----------------------------------------------------------------------------

Init ==
  /\ master \in Foreign
  /\ boot = [c \in 1 .. TotalDisk - 1 |-> Junk]
  /\ part = [i \in PartIndexes |-> Unused]
  /\ ext = [i \in 0 .. Slots |-> NoDrive]
  /\ partChanged = {} /\ extChanged = FALSE
  /\ pc = "off" /\ location = None /\ count = 0 /\ queue = <<>> /\ intact = TRUE /\ runs = 0 /\ faults = <<>>

Next ==
  \/ Start \/ ReadRecord
  \/ CreatePrimary \/ CreateMaximum \/ CreateExtended \/ OpenVolumes \/ CreateVolume
  \/ DeletePrimary \/ DeleteExtended \/ DeleteVolumes \/ ChangeActive
  \/ Leave \/ WriteRecord \/ FailRecord \/ Finish \/ PowerCut
  \/ Rest

Spec == Init /\ [][Next]_vars

-----------------------------------------------------------------------------
(* Properties. *)

\* No two partitions of the table share a cylinder and none leaves the disk,
\* whatever was created, deleted, cut off or read back: find_part_free_space
\* hands out free cylinders only (SPACE.C).
PartitionsDisjoint ==
  /\ \A i \in Partitions : Cylinders(part[i]) \subseteq 0 .. TotalDisk - 1
  /\ \A i, j \in Partitions : i # j => Cylinders(part[i]) \cap Cylinders(part[j]) = {}

\* Logical drives share no cylinder and lie in the extended partition, also
\* when the chain was read from records of which only some had been rewritten
\* (find_ext_free_space, write_info_to_disk, init_partition_tables).  It does
\* not survive a failed write of the master record, after which the extended
\* records are written all the same.
DrivesInside ==
  OfType("extended") # {} /\ ~ Contains(faults, "master") =>
    /\ \A i \in Drives : Cylinders(ext[i]) \subseteq Cylinders(Extended)
    /\ \A i, j \in Drives : i # j => Cylinders(ext[i]) \cap Cylinders(ext[j]) = {}

\* Every record on the disk points further along the disk, so that the loop of
\* init_partition_tables, which counts nothing, comes to an end.
ChainAscends ==
  \A c \in DOMAIN boot : boot[c].next = None \/ boot[c].next > c

\* What find_part_free_space needs of other systems' partitions: some cylinder is
\* free, and one of them starts on cylinder 0 or no gap behind one of them is
\* larger than the gap in front, which then takes the primary partition.
FrontFits(table) ==
  LET others == {i \in PartIndexes : table[i].sys = "foreign"}
  IN  /\ \E c \in Disk : \A i \in others : c \notin Cylinders(table[i])
      /\ \/ \E i \in others : table[i].start = 0
         \/ \A i, first \in others :
              \/ TotalDisk - 1 - table[i].end <= table[first].start
              \/ \E next \in others :
                   table[next].start - table[i].end - 1 \in 0 .. table[first].start

LayoutsFit == \A table \in Foreign : FrontFits(table)

\* An entry that differs from the disk's is marked as changed, through every
\* sequence of creations, deletions and activations: write_master_boot_to_disk
\* copies the marked entries only.
UnsavedMarked ==
  pc \in {"menu", "volumes"} => \A i \in PartIndexes : part[i] # master[i] => i \in partChanged

\* "Screen can be exited via the ESC command before partition is created and
\* nothing will change" (C_MENUS.C): as long as no entry is marked as changed,
\* the next run reads the drives this one shows.
UnchangedKept ==
  pc = "menu" /\ partChanged = {} /\ ~ extChanged => LoadedDrives(master) = ext

\* When a run has written the chain, and all its writes have reached the disk,
\* the next run reads the drives this one showed, provided the first drive starts
\* the extended partition or entry 0 of ext_table is empty: the cases
\* write_info_to_disk gets right (DISKOUT.C).
SavedAsShown ==
  (/\ pc = "writing" /\ queue = <<>> /\ intact /\ extChanged /\ OfType("extended") # {} /\ Drives # {}
   /\ Min({ext[i].start : i \in Drives}) = Extended.start \/ ~ ext[0].used)
  => /\ part = master
     /\ {LoadedDrives(master)[i] : i \in 0 .. Slots} \ {NoDrive} = {ext[i] : i \in Drives}

=============================================================================
