------------------------------ MODULE BackupSet ------------------------------
(***************************************************************************)
(* The set BACKUP writes and RESTORE reads: on each target a control file  *)
(* CONTROL.nnn (a disk header, then directory blocks, each followed by the *)
(* file headers it counts) and a data file BACKUP.nnn with the parts of    *)
(* the files end to end.  A hard disk holds one target, in \BACKUP.        *)
(*                                                                         *)
(* A position in a control file is the number of a record, every record    *)
(* takes one unit and a cluster ClusterUnits of them: in the files the     *)
(* records have 139, 70 and 34 bytes.                                      *)
(***************************************************************************)
EXTENDS Integers, Sequences, FiniteSets

CONSTANTS
  Files,          \* 1 .. n, in the order the directories are searched
  DirOf,          \* the directory of each
  Size,           \* its length
  ClusterUnits    \* records, or units of data, in a cluster

RootDir == 0
LastBlock == 0          \* LAST_DB, as the position of the next block

ASSUME BackupSetAssumption ==
  /\ ClusterUnits \in Nat \ {0}
  /\ Files = 1 .. Cardinality(Files)
  /\ Size \in [Files -> Nat] /\ DirOf \in [Files -> Nat]
  /\ \A f, g \in Files : f <= g => DirOf[f] <= DirOf[g]

VARIABLE disks    \* the targets of the set; the number of a target is its position

DiskHeader == [kind |-> "disk", last |-> FALSE]
DirBlock(dir) == [kind |-> "block", dir |-> dir, entries |-> 0, next |-> LastBlock]
FileHeader(f, seq, off, part) ==
  [kind |-> "file", file |-> f, seq |-> seq, off |-> off, part |-> part,
   last |-> TRUE, complete |-> TRUE]

\* What a file holds when it was last written before session g.
Content(f, g) == [k \in 1 .. Size[f] |-> <<f, g, k>>]

Empty(room) == [room |-> room, ctl |-> <<>>, data |-> <<>>]
Eof(d) == Len(d.ctl) + 1

Clusters(n) == (n + ClusterUnits - 1) \div ClusterUnits
FreeClusters(d) == d.room - Clusters(Len(d.ctl)) - Clusters(Len(d.data))
Fits(d, length, n) == Clusters(length + n) - Clusters(length) <= FreeClusters(d)

\* A write that needs more clusters than are free writes nothing.
AddRecord(d, r) == IF Fits(d, Len(d.ctl), 1) THEN [d EXCEPT !.ctl = Append(@, r)] ELSE d
AddData(d, s) == IF Fits(d, Len(d.data), Len(s)) THEN [d EXCEPT !.data = @ \o s] ELSE d

\* A change of a record that was never written changes nothing.
SetEntries(d, i, n) == IF i \in DOMAIN d.ctl THEN [d EXCEPT !.ctl[i].entries = n] ELSE d
SetNext(d, i, n) == IF i \in DOMAIN d.ctl THEN [d EXCEPT !.ctl[i].next = n] ELSE d
SetLast(d, b) == [d EXCEPT !.ctl[1].last = b]

Blocks(d) == {i \in DOMAIN d.ctl : d.ctl[i].kind = "block"}

\* The blocks the links lead to, from the one behind the disk header.
RECURSIVE Chain(_, _)
Chain(d, i) == IF i \in Blocks(d) THEN {i} \cup Chain(d, d.ctl[i].next) ELSE {}
Linked(d) == Chain(d, 2)

-----------------------------------------------------------------------------
\* The faults a target can be left with: the first when no file of the first
\* directory could be opened, the others when its control file did not fit.
Full(d) == FreeClusters(d) = 0

\* The first block is empty and does not lead to the block behind it.
Orphaned(d) == d.ctl[2].entries = 0 /\ 3 \in Blocks(d) /\ d.ctl[2].next # 3

\* A link leads to the end of the file, or a block stands there alone.
Dangling(d) == Full(d) /\ \E i \in Blocks(d) : d.ctl[i].next > Len(d.ctl) \/ i = Len(d.ctl)

\* A block counts more file headers than follow it.
Counted(d, i) == (i + 1) .. (i + d.ctl[i].entries)
Headerless(d) == Full(d) /\ \E i \in Blocks(d) : ~(Counted(d, i) \subseteq DOMAIN d.ctl \ Blocks(d))

\* A file header follows a block that counts none.
Uncounted(d) == Full(d) /\ \E i \in Blocks(d) : /\ d.ctl[i].entries = 0
                                                 /\ i + 1 \in DOMAIN d.ctl \ Blocks(d)

\* What the format says of a file: the contents that can be put together from
\* the counted parts of f, of which the first is part s on target i.
Part(d, h) == SubSeq(d.data, h.off + 1, h.off + h.part)
Counts(d, f, s) ==
  {d.ctl[j] : j \in {j \in UNION {Counted(d, i) : i \in Linked(d)} \cap DOMAIN d.ctl :
                       /\ d.ctl[j].kind = "file" /\ d.ctl[j].file = f
                       /\ d.ctl[j].seq = s /\ d.ctl[j].complete}}
RECURSIVE Gathered(_, _, _)
Gathered(f, i, s) ==
  IF i > Len(disks) THEN {}
  ELSE UNION {IF h.last THEN {Part(disks[i], h)}
              ELSE {Part(disks[i], h) \o t : t \in Gathered(f, i + 1, s + 1)} :
                h \in Counts(disks[i], f, s)}
Holds(f, g) == \E i \in DOMAIN disks : Content(f, g) \in Gathered(f, i, 1)
=============================================================================
