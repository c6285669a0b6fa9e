----------------------------- MODULE FdiskProofs -----------------------------
(***************************************************************************)
(* Proofs about Fdisk for disks, tables and layouts of any size, any       *)
(* number of runs, power cuts and failed writes: the partitions that FDISK *)
(* makes are apart, the chain of boot records leads up the disk, the       *)
(* logical drives stay apart and inside the extended partition, and a      *)
(* chain that was written is read back as it was shown.                    *)
(***************************************************************************)
EXTENDS Fdisk, FiniteSetTheorems, FunctionTheorems, SequenceTheorems,
        WellFoundedInduction, TLAPS

-----------------------------------------------------------------------------
(* Least and greatest *)

LEMMA LeastExists ==
    ASSUME NEW S \in SUBSET Nat, S # {}
    PROVE  /\ \E m \in S : \A k \in S : m <= k
           /\ Min(S) \in S /\ \A k \in S : Min(S) <= k
<1>1. IsWellFoundedOn(OpToRel(<, Nat), Nat)
  BY NatLessThanWellFounded
<1>2. PICK m \in S : \A y \in S : ~ (<<y, m>> \in OpToRel(<, Nat))
  BY <1>1, WFMin
<1>3. \A y \in S : ~ (y < m)
  BY <1>2 DEF OpToRel
<1>4. \E x \in S : \A k \in S : x <= k
  BY <1>3
<1> QED BY <1>4 DEF Min

LEMMA GreatestExists ==
    ASSUME NEW n \in Nat, n > 0, NEW f \in [1 .. n -> Int]
    PROVE  \E k \in 1 .. n : \A j \in 1 .. n : f[j] <= f[k]
<1> DEFINE Has(m) == \E k \in 1 .. m : \A j \in 1 .. m : f[j] <= f[k]
           Bad == {m \in 1 .. n : ~ Has(m)}
<1>1. SUFFICES ASSUME Bad # {} PROVE FALSE
  <2>1. n \in 1 .. n
    OBVIOUS
  <2> QED BY <2>1
<1>2. Bad \in SUBSET Nat
  OBVIOUS
<1>3. PICK m \in Bad : \A k \in Bad : m <= k
  BY <1>1, <1>2, LeastExists
<1>4. m # 1
  <2>1. Has(1)
    OBVIOUS
  <2> QED BY <1>3, <2>1
<1>5. m - 1 \in 1 .. n /\ m - 1 \notin Bad
  <2>1. m \in 1 .. n
    BY <1>3
  <2> HIDE DEF Bad
  <2> QED BY <1>3, <1>4, <2>1
<1>6. PICK k \in 1 .. m - 1 : \A j \in 1 .. m - 1 : f[j] <= f[k]
  BY <1>5
<1>7. Has(m)
  <2>1. \A j \in 1 .. m : j \in 1 .. m - 1 \/ j = m
    BY <1>3
  <2>2. CASE f[m] <= f[k]
    BY <1>3, <1>6, <2>1, <2>2
  <2>3. CASE ~ (f[m] <= f[k])
    <3>1. m \in 1 .. m /\ m \in 1 .. n /\ k \in 1 .. n
      BY <1>3, <1>6
    <3>2. \A j \in 1 .. m : f[j] <= f[m]
      BY <1>3, <1>6, <2>1, <2>3, <3>1
    <3> QED BY <3>1, <3>2
  <2> QED BY <2>2, <2>3
<1> QED BY <1>3, <1>7

(* The first of the largest gaps is one of them. *)
LEMMA LargestIs ==
    ASSUME NEW n \in Nat, n > 0, NEW gaps, DOMAIN gaps = 1 .. n,
           \A k \in 1 .. n : gaps[k].space \in Int
    PROVE  \E k \in 1 .. n :
              /\ Largest(gaps) = gaps[k]
              /\ \A j \in 1 .. n : gaps[j].space <= gaps[k].space
              /\ \A j \in 1 .. k - 1 : gaps[j].space < gaps[k].space
<1> DEFINE f == [k \in 1 .. n |-> gaps[k].space]
           S == {k \in 1 .. n : \A j \in 1 .. n : gaps[j].space <= gaps[k].space}
           First(k) == /\ \A j \in DOMAIN gaps : gaps[j].space <= gaps[k].space
                       /\ \A j \in 1 .. k - 1 : gaps[j].space < gaps[k].space
<1>1. \E k \in 1 .. n : \A j \in 1 .. n : f[j] <= f[k]
  <2>1. f \in [1 .. n -> Int]
    OBVIOUS
  <2> HIDE DEF f
  <2> QED BY <2>1, GreatestExists
<1>2. S \in SUBSET Nat /\ S # {}
  BY <1>1
<1>3. PICK k \in S : \A j \in S : k <= j
  BY <1>2, LeastExists
<1>4. First(k)
  <2>1. ASSUME NEW j \in 1 .. k - 1 PROVE gaps[j].space < gaps[k].space
    <3>1. j \in 1 .. n /\ j \notin S
      BY <1>3
    <3>2. gaps[j].space <= gaps[k].space
      BY <1>3, <3>1
    <3>3. gaps[j].space # gaps[k].space
      BY <1>3, <3>1
    <3> QED BY <1>3, <3>1, <3>2, <3>3
  <2> QED BY <1>3, <2>1
<1>5. \E x \in DOMAIN gaps : First(x)
  BY <1>3, <1>4
<1>6. PICK x \in DOMAIN gaps : x = (CHOOSE y \in DOMAIN gaps : First(y)) /\ First(x)
  BY <1>5
<1>7. Largest(gaps) = gaps[x]
  BY <1>6 DEF Largest
<1> QED BY <1>6, <1>7

LEMMA IndexTypes ==
    /\ PartIndexes \in SUBSET Nat /\ DriveIndexes \in SUBSET Nat
    /\ IsFiniteSet(PartIndexes) /\ IsFiniteSet(DriveIndexes) /\ Cardinality(DriveIndexes) = Slots
    /\ Entries \in Nat /\ Slots \in Nat /\ Slots > 0 /\ TotalDisk \in Nat /\ TotalDisk > 1
    /\ 0 \in Disk
<1>1. Entries \in Nat /\ Slots \in Nat /\ Slots > 0 /\ TotalDisk \in Nat /\ TotalDisk > 1
  BY DiskAssumption
<1>2. 0 \in Int /\ Entries - 1 \in Int /\ Slots - 1 \in Int
  BY <1>1
<1>3. IsFiniteSet(PartIndexes)
  BY <1>2, FS_Interval DEF PartIndexes
<1>4. /\ IsFiniteSet(DriveIndexes)
      /\ Cardinality(DriveIndexes) = IF 0 > Slots - 1 THEN 0 ELSE Slots - 1 - 0 + 1
  BY <1>2, FS_Interval DEF DriveIndexes
<1> QED BY <1>1, <1>3, <1>4 DEF PartIndexes, DriveIndexes, Disk

-----------------------------------------------------------------------------
(* Sorting *)

LEMMA SortedIsOrder ==
    ASSUME NEW S, IsFiniteSet(S), NEW key, \A i \in S : i \in Int /\ key[i] \in Int,
           \A i, j \in S : i # j => key[i] # key[j]
    PROVE  /\ Cardinality(S) \in Nat
           /\ Sorted(S, key) \in [1 .. Cardinality(S) -> S]
           /\ Len(Sorted(S, key)) = Cardinality(S)
           /\ \A k, l \in 1 .. Cardinality(S) :
                 k < l => key[Sorted(S, key)[k]] < key[Sorted(S, key)[l]]
           /\ \A i \in S : \E k \in 1 .. Cardinality(S) : Sorted(S, key)[k] = i
<1> DEFINE n == Cardinality(S)
           Below(i) == {j \in S : key[j] < key[i]}
           rank == [i \in S |-> Cardinality(Below(i))]
           o == Sorted(S, key)
<1>1. n \in Nat
  BY FS_CardinalityType
<1>0. o = [k \in 1 .. n |-> CHOOSE i \in S : Cardinality(Below(i)) = k - 1]
  <2> DEFINE Before(i) == {j \in S : key[j] < key[i] \/ (key[j] = key[i] /\ j < i)}
  <2>1. \A i \in S : Before(i) = Below(i)
    <3> SUFFICES ASSUME NEW i \in S PROVE Before(i) = Below(i)
      OBVIOUS
    <3>1. \A j \in S : key[j] = key[i] => j = i
      OBVIOUS
    <3>2. \A j \in S : ~ (key[j] = key[i] /\ j < i)
      BY <3>1
    <3> QED BY <3>2
  <2>2. o = [k \in 1 .. n |-> CHOOSE i \in S : Cardinality(Before(i)) = k - 1]
    BY Zenon DEF Sorted
  <2> HIDE DEF Before, Below, n
  <2>3. \A k \in 1 .. n : (CHOOSE i \in S : Cardinality(Before(i)) = k - 1)
                           = (CHOOSE i \in S : Cardinality(Below(i)) = k - 1)
    BY <2>1
  <2> HIDE DEF o
  <2> QED BY <2>2, <2>3
<1>2. \A i \in S : IsFiniteSet(Below(i)) /\ rank[i] \in 0 .. n - 1
  <2> SUFFICES ASSUME NEW i \in S PROVE IsFiniteSet(Below(i)) /\ rank[i] \in 0 .. n - 1
    OBVIOUS
  <2>1. Below(i) \in SUBSET S /\ Below(i) # S
    <3>1. i \notin Below(i)
      OBVIOUS
    <3> QED BY <3>1
  <2>2. IsFiniteSet(Below(i)) /\ Cardinality(Below(i)) <= n /\ Cardinality(Below(i)) # n
    <3> HIDE DEF Below
    <3> QED BY <2>1, FS_Subset
  <2>3. Cardinality(Below(i)) \in Nat
    BY <2>2, FS_CardinalityType
  <2> QED BY <1>1, <2>2, <2>3
<1>3. ASSUME NEW i \in S, NEW j \in S, key[i] < key[j] PROVE rank[i] < rank[j]
  <2>1. Below(i) \in SUBSET Below(j) /\ i \in Below(j) /\ i \notin Below(i)
    BY <1>3
  <2>2. Below(i) # Below(j) /\ IsFiniteSet(Below(j))
    BY <1>2, <2>1
  <2>3. Cardinality(Below(i)) <= Cardinality(Below(j)) /\ Cardinality(Below(i)) # Cardinality(Below(j))
    <3> HIDE DEF Below
    <3> QED BY <2>1, <2>2, FS_Subset
  <2>4. rank[i] = Cardinality(Below(i)) /\ rank[j] = Cardinality(Below(j))
    OBVIOUS
  <2>5. rank[i] \in 0 .. n - 1 /\ rank[j] \in 0 .. n - 1
    BY <1>2
  <2> HIDE DEF rank, Below, n
  <2> QED BY <1>1, <2>3, <2>4, <2>5
<1>r. \A i \in S : rank[i] \in 0 .. n - 1
  BY <1>2
<1>i. \A i \in S : rank[i] \in Int /\ rank[i] + 1 \in 1 .. n
  <2> HIDE DEF rank, n
  <2> QED BY <1>1, <1>r
<1>d. \A i, j \in S : i # j => rank[i] # rank[j]
  <2> SUFFICES ASSUME NEW i \in S, NEW j \in S, i # j PROVE rank[i] # rank[j]
    OBVIOUS
  <2>1. key[i] < key[j] \/ key[j] < key[i]
    OBVIOUS
  <2>2. rank[i] < rank[j] \/ rank[j] < rank[i]
    BY <1>3, <2>1
  <2> HIDE DEF rank
  <2> QED BY <1>i, <2>2
<1>4. \A i, j \in S : rank[i] < rank[j] => key[i] < key[j]
  <2> SUFFICES ASSUME NEW i \in S, NEW j \in S, rank[i] < rank[j], ~ (key[i] < key[j])
               PROVE  FALSE
    OBVIOUS
  <2>0. rank[i] \in Int /\ rank[j] \in Int /\ key[i] \in Int /\ key[j] \in Int
    <3> HIDE DEF rank
    <3> QED BY <1>i
  <2>1. i # j
    <3> HIDE DEF rank
    <3> QED BY <2>0
  <2>2. key[j] < key[i]
    BY <2>0, <2>1
  <2>3. rank[j] < rank[i]
    BY <1>3, <2>2
  <2> HIDE DEF rank
  <2> QED BY <2>0, <2>3
<1>5. rank \in Surjection(S, 0 .. n - 1)
  <2>1. IsFiniteSet(0 .. n - 1) /\ Cardinality(0 .. n - 1) = n
    <3>1. 0 \in Int /\ n - 1 \in Int
      BY <1>1
    <3>2. IsFiniteSet(0 .. n - 1) /\ Cardinality(0 .. n - 1) = IF 0 > n - 1 THEN 0 ELSE n - 1 - 0 + 1
      BY <3>1, FS_Interval
    <3> HIDE DEF n
    <3> QED BY <1>1, <3>2
  <2>3. rank \in Injection(S, 0 .. n - 1)
    <3>1. rank \in [S -> 0 .. n - 1]
      BY <1>r
    <3> HIDE DEF rank
    <3> QED BY <1>d, <3>1 DEF Injection, IsInjective
  <2> HIDE DEF rank
  <2> QED BY <2>1, <2>3, FS_Injection
<1>6. \A m \in 0 .. n - 1 : \E i \in S : rank[i] = m
  <2> HIDE DEF rank, n
  <2> QED BY <1>5 DEF Surjection
<1>7. \A k \in 1 .. n : o[k] \in S /\ rank[o[k]] = k - 1
  <2> SUFFICES ASSUME NEW k \in 1 .. n PROVE o[k] \in S /\ rank[o[k]] = k - 1
    OBVIOUS
  <2>1. k - 1 \in 0 .. n - 1
    BY <1>1
  <2>2. \E i \in S : Cardinality(Below(i)) = k - 1
    BY <1>6, <2>1
  <2> HIDE DEF o, Below
  <2>3. o[k] = CHOOSE i \in S : Cardinality(Below(i)) = k - 1
    BY <1>0
  <2> QED BY <2>2, <2>3
<1>8. o \in [1 .. n -> S] /\ Len(o) = n
  <2> HIDE DEF o, rank, n, Below
  <2>1. o = [k \in 1 .. n |-> o[k]]
    BY <1>0
  <2>2. o \in [1 .. n -> S]
    BY <1>7, <2>1
  <2>3. o \in Seq(S) /\ Len(o) = n
    BY <1>1, <2>2
  <2> QED BY <2>2, <2>3
<1>9. \A k, l \in 1 .. n : k < l => key[o[k]] < key[o[l]]
  <2> HIDE DEF o, rank, n
  <2> QED BY <1>1, <1>4, <1>7
<1>10. \A i \in S : \E k \in 1 .. n : o[k] = i
  <2> SUFFICES ASSUME NEW i \in S PROVE \E k \in 1 .. n : o[k] = i
    OBVIOUS
  <2>1. rank[i] + 1 \in 1 .. n /\ rank[i] \in Int
    <3> HIDE DEF rank, n
    <3> QED BY <1>i
  <2> HIDE DEF o, rank, n
  <2>2. o[rank[i] + 1] \in S /\ rank[o[rank[i] + 1]] = rank[i]
    BY <1>7, <2>1
  <2>3. o[rank[i] + 1] = i
    BY <1>d, <2>2
  <2> QED BY <2>1, <2>3
<1> QED BY <1>1, <1>8, <1>9, <1>10

-----------------------------------------------------------------------------
(* The invariant *)

UsedIn(table) == {i \in PartIndexes : table[i].sys # "none"}

(* A partition table of the disk or in memory. *)
SoundTable(table) ==
    /\ table \in [PartIndexes -> PartEntry]
    /\ \A i \in UsedIn(table) : table[i].start <= table[i].end
    /\ \A i, j \in UsedIn(table) :
          i # j => table[i].end < table[j].start \/ table[j].end < table[i].start
    /\ \A i, j \in PartIndexes :
          table[i].sys = table[j].sys /\ table[i].sys \in {"dos", "extended"} => i = j
    /\ \A i \in PartIndexes : table[i].sys = "extended" =>
          table[i].start >= 1 /\ \E j \in PartIndexes : table[j].sys = "dos"
    /\ \A i \in PartIndexes : table[i].sys = "dos" =>
          \E j \in UsedIn(table) : table[j].start = 0
    /\ FrontFits(table)

Drive == [start : Disk, end : Disk, used : BOOLEAN]

Record == [drive : Drive, next : Disk \cup {None}]

(* What a boot record of cylinder c may say: it leads up the disk. *)
Onward(c, record) ==
    /\ record \in Record
    /\ record.next # None => c < record.next
    /\ record.drive.used => c <= record.drive.start /\ record.drive.start <= record.drive.end

TablesInv ==
    /\ SoundTable(master) /\ SoundTable(part)
    /\ partChanged \in SUBSET PartIndexes
    /\ pc \in {"reading", "menu", "volumes"} =>
          \A i \in PartIndexes : part[i] # master[i] => i \in partChanged

BootInv ==
    /\ boot \in [1 .. TotalDisk - 1 -> Record]
    /\ \A c \in 1 .. TotalDisk - 1 : Onward(c, boot[c])

(* The logical drives in memory: none starts where another does. *)
DrivesInv ==
    /\ ext \in [0 .. Slots -> Drive]
    /\ \A i \in Drives :
          /\ ext[i].start <= ext[i].end
          /\ OfType("extended") # {} /\ Extended.start <= ext[i].start
    /\ \A i, j \in Drives : i # j => ext[i].start # ext[j].start

ReadingInv ==
    /\ count \in Nat
    /\ pc = "volumes" => OfType("extended") # {}
    /\ pc = "reading" =>
          /\ location \in 1 .. TotalDisk - 1
          /\ OfType("extended") # {} /\ Extended.start <= location
          /\ \A i \in Drives : ext[i].start < location

Item == [at : Disk, record : [PartIndexes -> PartEntry] \cup Record]

(* A record on its way to the disk: the table in memory, or one of the chain. *)
Faithful(item) ==
    IF item.at = 0 THEN item.record = part ELSE Onward(item.at, item.record)

Sound(items) ==
    /\ items \in Seq(Item)
    /\ \A k \in 1 .. Len(items) : Faithful(items[k])

QueueInv ==
    /\ Sound(queue)
    /\ pc # "writing" => queue = <<>>
    /\ pc = "off" => ext = [i \in 0 .. Slots |-> NoDrive] /\ partChanged = {}

IInv == TablesInv /\ BootInv /\ DrivesInv /\ ReadingInv /\ QueueInv

-----------------------------------------------------------------------------
(* Free space for a partition *)

(* The space behind the m-th partition of the disk. *)
Behind(m) ==
    (IF m = Cardinality(Partitions) THEN TotalDisk ELSE part[PartitionOrder[m + 1]].start)
      - part[PartitionOrder[m]].end - 1

LEMMA PartitionTypes ==
    ASSUME SoundTable(part)
    PROVE  /\ Partitions = UsedIn(part) /\ IsFiniteSet(Partitions)
           /\ TotalDisk \in Nat /\ TotalDisk > 1 /\ Partitions \subseteq PartIndexes
           /\ \A i \in PartIndexes : part[i].start \in Disk /\ part[i].end \in Disk
           /\ \A i \in Partitions : part[i].start <= part[i].end
           /\ \A i, j \in Partitions : i # j =>
                 part[i].end < part[j].start \/ part[j].end < part[i].start
<1>1. Entries \in Nat /\ TotalDisk \in Nat /\ TotalDisk > 1
  BY DiskAssumption
<1>2. Partitions = UsedIn(part) /\ Partitions \in SUBSET PartIndexes
  BY DEF Partitions, UsedIn
<1>3. IsFiniteSet(PartIndexes)
  <2>1. 0 \in Int /\ Entries - 1 \in Int
    BY <1>1
  <2> QED BY <2>1, FS_Interval DEF PartIndexes
<1>4. IsFiniteSet(Partitions)
  BY <1>2, <1>3, FS_Subset
<1>5. \A i \in PartIndexes : part[i].start \in Disk /\ part[i].end \in Disk
  BY DEF SoundTable, PartEntry
<1> QED BY <1>1, <1>2, <1>4, <1>5 DEF SoundTable

LEMMA PartitionOrderIs ==
    ASSUME SoundTable(part)
    PROVE  /\ Cardinality(Partitions) \in Nat
           /\ PartitionOrder \in [1 .. Cardinality(Partitions) -> Partitions]
           /\ Len(PartitionOrder) = Cardinality(Partitions)
           /\ \A k, l \in 1 .. Cardinality(Partitions) :
                 k < l => part[PartitionOrder[k]].end < part[PartitionOrder[l]].start
           /\ \A i \in Partitions : \E k \in 1 .. Cardinality(Partitions) : PartitionOrder[k] = i
           /\ Partitions # {} => Cardinality(Partitions) > 0
<1> DEFINE key == [i \in PartIndexes |-> part[i].end]
           n == Cardinality(Partitions)
           o == PartitionOrder
<1>1. \A i \in Partitions : key[i] = part[i].end /\ key[i] \in Int
  BY PartitionTypes DEF Disk
<1>2. \A i, j \in Partitions : i # j => key[i] # key[j]
  BY <1>1, PartitionTypes DEF Disk
<1>3. o = Sorted(Partitions, key)
  BY DEF PartitionOrder
<1> HIDE DEF key, o
<1>4. /\ n \in Nat /\ o \in [1 .. n -> Partitions] /\ Len(o) = n
      /\ \A k, l \in 1 .. n : k < l => key[o[k]] < key[o[l]]
      /\ \A i \in Partitions : \E k \in 1 .. n : o[k] = i
  <2>1. PartIndexes \subseteq Int
    BY DiskAssumption DEF PartIndexes
  <2>2. \A i \in Partitions : i \in Int
    BY <2>1 DEF Partitions
  <2>3. IsFiniteSet(Partitions)
    BY PartitionTypes
  <2> QED BY <1>1, <1>2, <1>3, <2>2, <2>3, SortedIsOrder
<1> HIDE DEF n
<1>5. ASSUME NEW k \in 1 .. n, NEW l \in 1 .. n, k < l
      PROVE  part[o[k]].end < part[o[l]].start
  <2>1. o[k] \in Partitions /\ o[l] \in Partitions
    BY <1>4
  <2>2. part[o[k]].end < part[o[l]].end
    BY <1>1, <1>4, <1>5, <2>1
  <2>3. /\ part[o[k]].end \in Int /\ part[o[l]].end \in Int
        /\ part[o[k]].start \in Int /\ part[o[l]].start \in Int
        /\ part[o[k]].start <= part[o[k]].end
    BY <2>1, PartitionTypes DEF Disk
  <2>4. o[k] # o[l]
    BY <2>2, <2>3
  <2>5. part[o[k]].end < part[o[l]].start \/ part[o[l]].end < part[o[k]].start
    BY <2>1, <2>4, PartitionTypes
  <2> QED BY <2>2, <2>3, <2>5
<1>6. Partitions # {} => n > 0
  BY <1>4
<1> QED BY <1>4, <1>5, <1>6 DEF n, o

LEMMA PartFreeSpaceIs ==
    ASSUME SoundTable(part), Partitions # {}, NEW type
    PROVE  \E k \in 0 .. Cardinality(Partitions) :
              /\ k = 0 => /\ PartFreeSpace(type).start = IF type = "extended" THEN 1 ELSE 0
                          /\ PartFreeSpace(type).space = part[PartitionOrder[1]].start
              /\ k > 0 => /\ PartFreeSpace(type).start = part[PartitionOrder[k]].end + 1
                          /\ PartFreeSpace(type).space = Behind(k)
                          /\ part[PartitionOrder[1]].start < Behind(k)
              /\ part[PartitionOrder[1]].start <= PartFreeSpace(type).space
              /\ \A m \in 1 .. Cardinality(Partitions) : Behind(m) <= PartFreeSpace(type).space
<1> DEFINE n == Cardinality(Partitions)
           o == PartitionOrder
           first == IF type = "extended" THEN 1 ELSE 0
           head == [start |-> first, end |-> part[o[1]].start - 1, space |-> part[o[1]].start]
           behind == Gaps(part, o, TotalDisk - 1)
           gaps == <<head>> \o behind
<1>1. /\ n \in Nat /\ n > 0 /\ o \in [1 .. n -> Partitions] /\ Len(o) = n
      /\ 1 \in 1 .. n /\ o[1] \in Partitions
  BY PartitionOrderIs
<1>2. PartFreeSpace(type) = Largest(gaps)
  BY DEF PartFreeSpace
<1>3. head.start = first /\ head.space = part[o[1]].start /\ head.space \in Int
  BY <1>1, PartitionTypes DEF Disk
<1>4. \A k \in 1 .. n : /\ o[k] \in Partitions /\ part[o[k]].end \in Int /\ part[o[k]].start \in Int
  BY <1>1, PartitionTypes DEF Disk
<1>5. /\ DOMAIN behind = 1 .. n
      /\ \A k \in 1 .. n : /\ behind[k].start = part[o[k]].end + 1
                           /\ behind[k].space = Behind(k) /\ Behind(k) \in Int
  <2> HIDE DEF o
  <2>1. DOMAIN behind = 1 .. n
    BY <1>1 DEF Gaps
  <2>2. ASSUME NEW k \in 1 .. n
        PROVE  /\ behind[k].start = part[o[k]].end + 1
               /\ behind[k].space = Behind(k) /\ Behind(k) \in Int
    <3>1. behind[k] = Gap(part[o[k]].end + 1,
                          IF k = Len(o) THEN TotalDisk - 1 ELSE part[o[k + 1]].start - 1)
      BY <1>1 DEF Gaps
    <3>2. k # n => k + 1 \in 1 .. n
      BY <1>1
    <3>3. CASE k = n
      <4>1. behind[k].start = part[o[k]].end + 1
            /\ behind[k].space = TotalDisk - 1 - (part[o[k]].end + 1) + 1
        BY <1>1, <3>1, <3>3 DEF Gap
      <4>2. Behind(k) = TotalDisk - part[o[k]].end - 1
        BY <3>3 DEF Behind, o
      <4> QED BY <1>4, <4>1, <4>2, DiskAssumption
    <3>4. CASE k # n
      <4>1. behind[k].start = part[o[k]].end + 1
            /\ behind[k].space = part[o[k + 1]].start - 1 - (part[o[k]].end + 1) + 1
        BY <1>1, <3>1, <3>4 DEF Gap
      <4>2. Behind(k) = part[o[k + 1]].start - part[o[k]].end - 1
        BY <3>4 DEF Behind, o
      <4> QED BY <1>4, <3>2, <3>4, <4>1, <4>2
    <3> QED BY <3>3, <3>4
  <2> QED BY <2>1, <2>2
<1>6. /\ DOMAIN gaps = 1 .. n + 1 /\ gaps[1] = head
      /\ \A k \in 1 .. n : gaps[k + 1] = behind[k]
  <2>1. behind \in Seq({behind[k] : k \in 1 .. n}) /\ Len(behind) = n
    <3>1. behind = [k \in 1 .. n |-> behind[k]]
      BY <1>1 DEF Gaps
    <3> HIDE DEF behind, n, o, head
    <3>2. behind \in [1 .. n -> {behind[k] : k \in 1 .. n}]
      BY <3>1
    <3>3. n \in Nat
      BY <1>1
    <3> QED BY <3>2, <3>3
  <2> HIDE DEF behind, head, n
  <2>2. <<head>> \in Seq({head}) /\ Len(<<head>>) = 1 /\ <<head>>[1] = head
    OBVIOUS
  <2> QED BY <1>1, <2>1, <2>2
<1> HIDE DEF gaps, head, behind, o, n
<1>7. n + 1 \in Nat /\ n + 1 > 0 /\ \A k \in 1 .. n + 1 : gaps[k].space \in Int
  <2>1. ASSUME NEW k \in 1 .. n + 1 PROVE gaps[k].space \in Int
    <3>1. CASE k = 1
      BY <1>3, <1>6, <3>1
    <3>2. CASE k # 1
      <4>1. k - 1 \in 1 .. n /\ k = (k - 1) + 1
        BY <1>1, <3>2
      <4>2. gaps[k] = behind[k - 1]
        BY <1>6, <4>1
      <4> QED BY <1>5, <4>1, <4>2
    <3> QED BY <3>1, <3>2
  <2> QED BY <1>1, <2>1
<1>8. PICK x \in 1 .. n + 1 :
         /\ Largest(gaps) = gaps[x]
         /\ \A j \in 1 .. n + 1 : gaps[j].space <= gaps[x].space
         /\ \A j \in 1 .. x - 1 : gaps[j].space < gaps[x].space
  BY <1>6, <1>7, LargestIs
<1>9. part[o[1]].start <= gaps[x].space
      /\ \A m \in 1 .. n : Behind(m) <= gaps[x].space
  <2>1. 1 \in 1 .. n + 1 /\ \A m \in 1 .. n : m + 1 \in 1 .. n + 1
    BY <1>1
  <2> QED BY <1>3, <1>5, <1>6, <1>8, <2>1
<1>10. CASE x = 1
  <2>1. 0 \in 0 .. n /\ PartFreeSpace(type) = head /\ ~ (0 > 0)
    BY <1>1, <1>2, <1>6, <1>8, <1>10
  <2>2. head.start = IF type = "extended" THEN 1 ELSE 0
    BY <1>3
  <2> QED BY <1>3, <1>6, <1>9, <1>10, <2>1, <2>2 DEF o, n
<1>11. CASE x # 1
  <2>1. x - 1 \in 1 .. n /\ x = (x - 1) + 1 /\ 1 \in 1 .. x - 1
    BY <1>1, <1>11
  <2>2. PartFreeSpace(type) = behind[x - 1] /\ gaps[x] = behind[x - 1]
    BY <1>2, <1>6, <1>8, <2>1
  <2>3. head.space < gaps[x].space
    BY <1>6, <1>8, <2>1
  <2>4. x - 1 \in 0 .. n /\ x - 1 > 0 /\ x - 1 # 0
    BY <2>1
  <2>5. /\ behind[x - 1].start = part[o[x - 1]].end + 1
        /\ behind[x - 1].space = Behind(x - 1)
    BY <1>5, <2>1
  <2>6. part[o[1]].start < Behind(x - 1)
    BY <1>3, <2>2, <2>3, <2>5
  <2> QED BY <1>9, <2>2, <2>4, <2>5, <2>6 DEF o, n
<1> QED BY <1>10, <1>11

LEMMA BehindIs ==
    ASSUME SoundTable(part), NEW k \in 1 .. Cardinality(Partitions)
    PROVE  /\ Behind(k) \in Int
           /\ Behind(k) <= TotalDisk - part[PartitionOrder[k]].end - 1
           /\ \A m \in 1 .. Cardinality(Partitions) : m > k =>
                 Behind(k) <= part[PartitionOrder[m]].start - part[PartitionOrder[k]].end - 1
<1> DEFINE n == Cardinality(Partitions)
           o == PartitionOrder
<1>1. /\ n \in Nat /\ o \in [1 .. n -> Partitions]
      /\ \A l, m \in 1 .. n : l < m => part[o[l]].end < part[o[m]].start
  BY PartitionOrderIs
<1>2. \A m \in 1 .. n : /\ part[o[m]].end \in Disk /\ part[o[m]].start \in Disk
                        /\ part[o[m]].start <= part[o[m]].end
  BY <1>1, PartitionTypes
<1>3. TotalDisk \in Nat /\ Behind(k) = (IF k = n THEN TotalDisk ELSE part[o[k + 1]].start) - part[o[k]].end - 1
  BY DiskAssumption DEF Behind
<1>4. k # n => k + 1 \in 1 .. n
  BY <1>1
<1> HIDE DEF n, o
<1>5. ASSUME NEW m \in 1 .. n, m > k
      PROVE  k # n /\ part[o[k + 1]].start <= part[o[m]].start
  <2>1. k # n /\ k + 1 \in 1 .. n
    BY <1>1, <1>4, <1>5 DEF n
  <2>2. CASE m = k + 1
    BY <1>2, <2>1, <2>2 DEF Disk
  <2>3. CASE m # k + 1
    <3>1. k + 1 < m
      BY <1>1, <1>5, <2>3 DEF n
    <3>2. part[o[k + 1]].end < part[o[m]].start
      BY <1>1, <2>1, <3>1
    <3> QED BY <1>2, <2>1, <3>2 DEF Disk
  <2> QED BY <2>1, <2>2, <2>3
<1>6. k \in 1 .. n
  BY DEF n
<1>7. /\ Behind(k) \in Int /\ Behind(k) <= TotalDisk - part[o[k]].end - 1
  <2>1. CASE k = n
    BY <1>2, <1>3, <1>6, <2>1 DEF Disk
  <2>2. CASE k # n
    BY <1>2, <1>3, <1>4, <1>6, <2>2 DEF Disk
  <2> QED BY <2>1, <2>2
<1>8. ASSUME NEW m \in 1 .. n, m > k
      PROVE  Behind(k) <= part[o[m]].start - part[o[k]].end - 1
  <2>1. k # n /\ part[o[k + 1]].start <= part[o[m]].start /\ k + 1 \in 1 .. n
    BY <1>4, <1>5, <1>8
  <2>2. Behind(k) = part[o[k + 1]].start - part[o[k]].end - 1
    BY <1>3, <2>1
  <2> QED BY <1>2, <1>6, <2>1, <2>2 DEF Disk
<1> QED BY <1>7, <1>8 DEF n, o

(* What find_part_free_space hands out is free. *)
LEMMA FreeIsFree ==
    ASSUME SoundTable(part), NEW type, NEW size \in Nat, size > 0,
           size <= PartFreeSpace(type).space,
           type = "extended" => \E i \in Partitions : part[i].start = 0
    PROVE  /\ PartFreeSpace(type).start \in Disk
           /\ PartFreeSpace(type).start + size - 1 \in Disk
           /\ \A i \in Partitions : \/ part[i].end < PartFreeSpace(type).start
                                    \/ PartFreeSpace(type).start + size - 1 < part[i].start
           /\ type = "extended" => PartFreeSpace(type).start >= 1
<1> DEFINE n == Cardinality(Partitions)
           o == PartitionOrder
           gap == PartFreeSpace(type)
<1>0. TotalDisk \in Nat /\ TotalDisk > 1
  BY DiskAssumption
<1>1. CASE Partitions = {}
  <2>1. type # "extended"
    BY <1>1
  <2>2. gap = Gap(0, TotalDisk - 1)
    BY <1>1, <2>1 DEF PartFreeSpace
  <2>3. gap.start = 0 /\ gap.space = TotalDisk
    BY <1>0, <2>2 DEF Gap
  <2> HIDE DEF gap
  <2>4. size <= gap.space
    BY DEF gap
  <2>5. gap.start \in Disk /\ gap.start + size - 1 \in Disk
    BY <1>0, <2>3, <2>4 DEF Disk
  <2> QED BY <1>1, <2>1, <2>5 DEF gap
<1>2. CASE Partitions # {}
  <2>1. PICK k \in 0 .. n :
            /\ k = 0 => /\ gap.start = IF type = "extended" THEN 1 ELSE 0
                        /\ gap.space = part[o[1]].start
            /\ k > 0 => /\ gap.start = part[o[k]].end + 1
                        /\ gap.space = Behind(k)
                        /\ part[o[1]].start < Behind(k)
    BY <1>2, PartFreeSpaceIs
  <2>2. size <= gap.space
    OBVIOUS
  <2>3. /\ n \in Nat /\ n > 0 /\ o \in [1 .. n -> Partitions] /\ 1 \in 1 .. n
        /\ \A l, m \in 1 .. n : l < m => part[o[l]].end < part[o[m]].start
        /\ \A i \in Partitions : \E m \in 1 .. n : o[m] = i
    <3>1. /\ n \in Nat /\ n > 0 /\ o \in [1 .. n -> Partitions]
          /\ \A l, m \in 1 .. n : l < m => part[o[l]].end < part[o[m]].start
          /\ \A i \in Partitions : \E m \in 1 .. n : o[m] = i
      BY <1>2, PartitionOrderIs
    <3> HIDE DEF n, o
    <3> QED BY <3>1
  <2>4. \A m \in 1 .. n : /\ part[o[m]].end \in Disk /\ part[o[m]].start \in Disk
                          /\ part[o[m]].start <= part[o[m]].end
    BY <2>3, PartitionTypes
  <2>5. \A m \in 1 .. n : k > 0 =>
            /\ Behind(k) <= TotalDisk - part[o[k]].end - 1
            /\ m > k => Behind(k) <= part[o[m]].start - part[o[k]].end - 1
            /\ Behind(k) \in Int
    BY <2>1, <2>3, BehindIs
  <2> HIDE DEF gap, o, n
  <2>6. \A m \in 1 .. n : m # 1 => part[o[1]].end < part[o[m]].start
    BY <2>3
  <2>7. CASE k = 0
    <3>1. \A m \in 1 .. n : part[o[1]].start <= part[o[m]].start
      BY <2>3, <2>4, <2>6 DEF Disk
    <3>2. part[o[1]].start \in Disk /\ gap.space = part[o[1]].start /\ part[o[1]].start > 0
      BY <2>1, <2>2, <2>3, <2>4, <2>7 DEF Disk
    <3>3. type # "extended"
      <4> SUFFICES ASSUME type = "extended" PROVE FALSE
        OBVIOUS
      <4>1. PICK m \in 1 .. n : part[o[m]].start = 0
        BY <2>3
      <4> QED BY <2>4, <3>1, <3>2, <4>1 DEF Disk
    <3>4. gap.start = 0
      BY <2>1, <2>7, <3>3
    <3>5. gap.start \in Disk /\ gap.start + size - 1 \in Disk
      BY <1>0, <2>2, <3>2, <3>4 DEF Disk
    <3>6. \A m \in 1 .. n : gap.start + size - 1 < part[o[m]].start
      BY <2>2, <2>4, <3>1, <3>2, <3>4 DEF Disk
    <3> QED BY <2>3, <3>3, <3>5, <3>6 DEF gap
  <2>8. CASE k # 0
    <3>1. k \in 1 .. n /\ k > 0 /\ gap.start = part[o[k]].end + 1 /\ gap.space = Behind(k)
      BY <2>1, <2>3, <2>8
    <3>2. /\ Behind(k) \in Int /\ size <= Behind(k) /\ Behind(k) <= TotalDisk - part[o[k]].end - 1
          /\ part[o[k]].end \in Disk
      BY <2>2, <2>4, <2>5, <3>1
    <3>3. gap.start \in Disk /\ gap.start >= 1 /\ gap.start + size - 1 \in Disk
      BY <1>0, <3>1, <3>2 DEF Disk
    <3>4. ASSUME NEW m \in 1 .. n
          PROVE  part[o[m]].end < gap.start \/ gap.start + size - 1 < part[o[m]].start
      <4>1. CASE m = k
        BY <3>1, <3>2, <4>1 DEF Disk
      <4>2. CASE m < k
        <5>1. part[o[m]].end < part[o[k]].start
          BY <2>3, <3>1, <4>2
        <5> QED BY <2>4, <3>1, <5>1 DEF Disk
      <4>3. CASE m > k
        <5>1. Behind(k) <= part[o[m]].start - part[o[k]].end - 1
          BY <2>5, <3>1, <4>3
        <5> QED BY <2>4, <3>1, <3>2, <5>1 DEF Disk
      <4> QED BY <2>3, <3>1, <4>1, <4>2, <4>3
    <3> QED BY <2>3, <3>3, <3>4 DEF gap
  <2> QED BY <2>7, <2>8
<1> QED BY <1>1, <1>2

(* The primary partition leaves no gap in front of the first partition that  *)
(* an extended one could be given.                                           *)
LEMMA PrimaryInFront ==
    ASSUME SoundTable(part), OfType("dos") = {}
    PROVE  /\ PartFreeSpace("dos").space \in Nat /\ PartFreeSpace("dos").space > 0
           /\ PartFreeSpace("dos").start = 0 \/ \E i \in Partitions : part[i].start = 0
<1> DEFINE n == Cardinality(Partitions)
           o == PartitionOrder
           gap == PartFreeSpace("dos")
           others == {i \in PartIndexes : part[i].sys = "foreign"}
<1>0. TotalDisk \in Nat /\ TotalDisk > 1
  BY DiskAssumption
<1>1. Partitions = others
  <2>1. \A i \in PartIndexes : part[i].sys # "dos"
    BY DEF OfType
  <2>2. \A i \in PartIndexes : part[i].sys # "extended"
    BY <2>1 DEF SoundTable
  <2>3. \A i \in PartIndexes : part[i].sys \in {"none", "dos", "extended", "foreign"}
    BY DEF SoundTable, PartEntry
  <2> QED BY <2>1, <2>2, <2>3 DEF Partitions
<1>2. CASE Partitions = {}
  <2>1. gap = Gap(0, TotalDisk - 1)
    BY <1>2 DEF PartFreeSpace
  <2>2. gap.start = 0 /\ gap.space = TotalDisk
    BY <1>0, <2>1 DEF Gap
  <2> QED BY <1>0, <2>2
<1>3. CASE Partitions # {}
  <2>1. PICK k \in 0 .. n :
            /\ k = 0 => /\ gap.start = 0
                        /\ gap.space = part[o[1]].start
            /\ k > 0 => /\ gap.start = part[o[k]].end + 1
                        /\ gap.space = Behind(k)
                        /\ part[o[1]].start < Behind(k)
            /\ part[o[1]].start <= gap.space
            /\ \A m \in 1 .. n : Behind(m) <= gap.space
    BY <1>3, PartFreeSpaceIs
  <2>2. /\ n \in Nat /\ n > 0 /\ o \in [1 .. n -> Partitions] /\ 1 \in 1 .. n
        /\ \A l, m \in 1 .. n : l < m => part[o[l]].end < part[o[m]].start
        /\ \A i \in Partitions : \E m \in 1 .. n : o[m] = i
    BY <1>3, PartitionOrderIs
  <2>3. \A m \in 1 .. n : /\ part[o[m]].end \in Disk /\ part[o[m]].start \in Disk
                          /\ part[o[m]].start <= part[o[m]].end
    BY <2>2, PartitionTypes
  <2>4. \A l, m \in 1 .. n :
            /\ Behind(l) <= TotalDisk - part[o[l]].end - 1
            /\ m > l => Behind(l) <= part[o[m]].start - part[o[l]].end - 1
            /\ Behind(l) \in Int
    BY BehindIs
  <2>5. FrontFits(part)
    BY DEF SoundTable
  <2>n. Behind(n) = TotalDisk - part[o[n]].end - 1
    BY DEF Behind
  <2>p. \A m \in 1 .. n : m # n => Behind(m) = part[o[m + 1]].start - part[o[m]].end - 1
    BY DEF Behind
  <2> HIDE DEF gap, o, n
  <2>6. gap.space \in Int
    BY <2>1, <2>2, <2>3, <2>4 DEF Disk
  <2>7. gap.space > 0
    <3> SUFFICES ASSUME gap.space <= 0 PROVE FALSE
      BY <2>6
    <3>1. PICK c \in Disk : \A i \in others : c \notin Cylinders(part[i])
      BY <2>5 DEF FrontFits
    <3>2. \A m \in 1 .. n : c < part[o[m]].start \/ part[o[m]].end < c
      BY <1>1, <2>2, <2>3, <3>1 DEF Cylinders, Disk
    <3> DEFINE S == {m \in 1 .. n : c < part[o[m]].start}
    <3>3. CASE S = {}
      <4>1. n \in 1 .. n /\ part[o[n]].end < c
        BY <2>2, <3>2, <3>3
      <4>2. Behind(n) <= 0 /\ part[o[n]].end \in Disk
        BY <2>1, <2>3, <2>4, <2>6, <4>1
      <4> QED BY <1>0, <2>n, <4>1, <4>2 DEF Disk
    <3>4. CASE S # {}
      <4>1. S \in SUBSET Nat
        OBVIOUS
      <4>2. PICK m \in S : \A l \in S : m <= l
        BY <3>4, <4>1, LeastExists
      <4>3. CASE m = 1
        BY <2>1, <2>2, <2>3, <2>6, <4>2, <4>3 DEF Disk
      <4>4. CASE m # 1
        <5>1. m \in 1 .. n /\ m - 1 \in 1 .. n /\ m - 1 \notin S /\ m - 1 # n /\ (m - 1) + 1 = m
          BY <2>2, <4>2, <4>4
        <5>2. part[o[m - 1]].end < c /\ c < part[o[m]].start
          BY <3>2, <4>2, <5>1
        <5>3. Behind(m - 1) = part[o[m]].start - part[o[m - 1]].end - 1
          BY <2>p, <5>1
        <5>4. Behind(m - 1) <= 0
          BY <2>1, <2>4, <2>6, <5>1
        <5> QED BY <2>3, <5>1, <5>2, <5>3, <5>4 DEF Disk
      <4> QED BY <4>3, <4>4
    <3> QED BY <3>3, <3>4
  <2>8. gap.start = 0 \/ \E i \in Partitions : part[i].start = 0
    <3> SUFFICES ASSUME k # 0, ~ \E i \in Partitions : part[i].start = 0 PROVE FALSE
      BY <2>1
    <3>1. k \in 1 .. n /\ part[o[1]].start < Behind(k)
      BY <2>1, <2>2
    <3>2. o[k] \in others /\ o[1] \in others
      BY <1>1, <2>2, <3>1
    <3>3. \/ TotalDisk - 1 - part[o[k]].end <= part[o[1]].start
          \/ \E next \in others :
                part[next].start - part[o[k]].end - 1 \in 0 .. part[o[1]].start
      BY <1>1, <2>5, <3>2 DEF FrontFits
    <3>4. CASE TotalDisk - 1 - part[o[k]].end <= part[o[1]].start
      <4>1. Behind(k) <= TotalDisk - part[o[k]].end - 1 /\ Behind(k) \in Int
        BY <2>4, <3>1
      <4>2. part[o[k]].end \in Disk /\ part[o[1]].start \in Disk
        BY <2>2, <2>3, <3>1
      <4> QED BY <1>0, <3>1, <3>4, <4>1, <4>2 DEF Disk
    <3>5. ASSUME NEW next \in others,
                 part[next].start - part[o[k]].end - 1 \in 0 .. part[o[1]].start
          PROVE  FALSE
      <4>1. PICK m \in 1 .. n : o[m] = next
        BY <1>1, <2>2
      <4>2. m > k
        <5>1. CASE m = k
          BY <2>3, <3>1, <3>5, <4>1, <5>1 DEF Disk
        <5>2. CASE m < k
          <6>1. part[o[m]].end < part[o[k]].start
            BY <2>2, <3>1, <5>2
          <6> QED BY <2>3, <3>1, <3>5, <4>1, <6>1 DEF Disk
        <5> QED BY <2>2, <3>1, <5>1, <5>2
      <4>3. Behind(k) <= part[o[m]].start - part[o[k]].end - 1
        BY <2>4, <3>1, <4>2
      <4> QED BY <2>2, <2>3, <2>4, <3>1, <3>5, <4>1, <4>3 DEF Disk
    <3> QED BY <3>3, <3>4, <3>5
  <2> QED BY <2>6, <2>7, <2>8 DEF gap
<1> QED BY <1>2, <1>3

-----------------------------------------------------------------------------
(* Editing the partition table *)

LEMMA FrontFitsKept ==
    ASSUME NEW s, NEW t,
           \A i \in PartIndexes : (s[i].sys = "foreign") <=> (t[i].sys = "foreign"),
           \A i \in PartIndexes : s[i].sys = "foreign" =>
              t[i].start = s[i].start /\ t[i].end = s[i].end,
           FrontFits(s)
    PROVE  FrontFits(t)
<1> DEFINE others == {i \in PartIndexes : s[i].sys = "foreign"}
           others2 == {i \in PartIndexes : t[i].sys = "foreign"}
<1>1. others2 = others
  OBVIOUS
<1>2. \A i \in others : t[i].start = s[i].start /\ t[i].end = s[i].end
  OBVIOUS
<1>3. \E c \in Disk : \A i \in others : c \notin Cylinders(s[i])
  BY DEF FrontFits
<1>4. \/ \E i \in others : s[i].start = 0
      \/ \A i, first \in others :
           \/ TotalDisk - 1 - s[i].end <= s[first].start
           \/ \E next \in others : s[next].start - s[i].end - 1 \in 0 .. s[first].start
  BY DEF FrontFits
<1> HIDE DEF others
<1>5. \E c \in Disk : \A i \in others : c \notin Cylinders(t[i])
  BY <1>2, <1>3 DEF Cylinders
<1>6. \/ \E i \in others : t[i].start = 0
      \/ \A i, first \in others :
           \/ TotalDisk - 1 - t[i].end <= t[first].start
           \/ \E next \in others : t[next].start - t[i].end - 1 \in 0 .. t[first].start
  <2>1. CASE \E i \in others : s[i].start = 0
    BY <1>2, <2>1
  <2>2. CASE ~ \E i \in others : s[i].start = 0
    <3> SUFFICES ASSUME NEW i \in others, NEW first \in others
                 PROVE  \/ TotalDisk - 1 - t[i].end <= t[first].start
                        \/ \E next \in others :
                              t[next].start - t[i].end - 1 \in 0 .. t[first].start
      OBVIOUS
    <3>1. \/ TotalDisk - 1 - s[i].end <= s[first].start
          \/ \E next \in others : s[next].start - s[i].end - 1 \in 0 .. s[first].start
      BY <1>4, <2>2
    <3> QED BY <1>2, <3>1
  <2> QED BY <2>1, <2>2
<1> QED BY <1>1, <1>5, <1>6 DEF FrontFits

(* A partition of cylinders that were free. *)
LEMMA MadeSound ==
    ASSUME SoundTable(part), NEW i \in PartIndexes, part[i].sys = "none",
           NEW t \in [PartIndexes -> PartEntry], NEW type \in {"dos", "extended"},
           t[i].sys = type, t[i].start <= t[i].end,
           \A j \in PartIndexes \ {i} :
              t[j].sys = part[j].sys /\ t[j].start = part[j].start /\ t[j].end = part[j].end,
           \A j \in Partitions : part[j].end < t[i].start \/ t[i].end < part[j].start,
           OfType(type) = {},
           type = "dos" => t[i].start = 0 \/ \E j \in Partitions : part[j].start = 0,
           type = "extended" => t[i].start >= 1 /\ OfType("dos") # {}
    PROVE  SoundTable(t)
<1>1. Partitions = UsedIn(part) /\ i \notin Partitions /\ Partitions \subseteq PartIndexes
  BY DEF Partitions, UsedIn
<1>2. UsedIn(t) = Partitions \cup {i}
  BY <1>1 DEF Partitions, UsedIn
<1>3. \A j \in Partitions : /\ t[j].sys = part[j].sys /\ t[j].start = part[j].start
                            /\ t[j].end = part[j].end /\ j # i /\ j \in PartIndexes
  BY <1>1
<1>4. \A j \in UsedIn(t) : t[j].start <= t[j].end
  BY <1>1, <1>2, <1>3 DEF SoundTable
<1>5. \A j, k \in UsedIn(t) : j # k => t[j].end < t[k].start \/ t[k].end < t[j].start
  <2> SUFFICES ASSUME NEW j \in UsedIn(t), NEW k \in UsedIn(t), j # k
               PROVE  t[j].end < t[k].start \/ t[k].end < t[j].start
    OBVIOUS
  <2>1. CASE j \in Partitions /\ k \in Partitions
    BY <1>1, <1>3, <2>1 DEF SoundTable
  <2>2. CASE j = i /\ k \in Partitions
    BY <1>3, <2>2
  <2>3. CASE j \in Partitions /\ k = i
    BY <1>3, <2>3
  <2> QED BY <1>2, <2>1, <2>2, <2>3
<1>6. \A j \in PartIndexes : part[j].sys # type
  BY DEF OfType
<1>7. \A j, k \in PartIndexes :
         t[j].sys = t[k].sys /\ t[j].sys \in {"dos", "extended"} => j = k
  BY <1>6 DEF SoundTable
<1>8. ASSUME NEW j \in PartIndexes, t[j].sys = "extended"
      PROVE  t[j].start >= 1 /\ \E k \in PartIndexes : t[k].sys = "dos"
  <2>1. CASE j = i
    <3>1. type = "extended" /\ t[i].start >= 1
      BY <1>8, <2>1
    <3>2. PICK k \in PartIndexes : part[k].sys = "dos"
      BY <3>1 DEF OfType
    <3> QED BY <2>1, <3>1, <3>2
  <2>2. CASE j # i
    <3>1. part[j].sys = "extended" /\ t[j].start = part[j].start
      BY <1>8, <2>2
    <3>2. part[j].start >= 1 /\ \E k \in PartIndexes : part[k].sys = "dos"
      BY <3>1 DEF SoundTable
    <3>3. PICK k \in PartIndexes : part[k].sys = "dos"
      BY <3>2
    <3> QED BY <3>1, <3>2, <3>3
  <2> QED BY <2>1, <2>2
<1>9. ASSUME NEW j \in PartIndexes, t[j].sys = "dos"
      PROVE  \E k \in UsedIn(t) : t[k].start = 0
  <2>1. CASE j = i
    BY <1>2, <1>3, <1>9, <2>1
  <2>2. CASE j # i
    <3>1. part[j].sys = "dos"
      BY <1>9, <2>2
    <3>2. PICK k \in UsedIn(part) : part[k].start = 0
      BY <3>1 DEF SoundTable
    <3> QED BY <1>1, <1>2, <1>3, <3>2
  <2> QED BY <2>1, <2>2
<1>10. FrontFits(t)
  <2>1. FrontFits(part)
    BY DEF SoundTable
  <2>2. \A j \in PartIndexes : (part[j].sys = "foreign") <=> (t[j].sys = "foreign")
    OBVIOUS
  <2>3. \A j \in PartIndexes : part[j].sys = "foreign" =>
           t[j].start = part[j].start /\ t[j].end = part[j].end
    OBVIOUS
  <2> QED BY <2>1, <2>2, <2>3, FrontFitsKept
<1> QED BY <1>4, <1>5, <1>7, <1>8, <1>9, <1>10 DEF SoundTable

(* make_partition with a size find_part_free_space allows. *)
LEMMA Made ==
    ASSUME SoundTable(part), partChanged \in SUBSET PartIndexes, FreePartitions # {},
           NEW type \in {"dos", "extended"}, NEW active \in BOOLEAN,
           NEW size \in Nat, size > 0, size <= PartFreeSpace(type).space,
           OfType(type) = {}, type = "extended" => OfType("dos") # {},
           MakePartition(PartFreeSpace(type), size, active, type)
    PROVE  /\ SoundTable(part')
           /\ partChanged' \in SUBSET PartIndexes
           /\ partChanged \subseteq partChanged'
           /\ \A j \in PartIndexes : part'[j] # part[j] => j \in partChanged'
           /\ \E j \in PartIndexes : part'[j].sys = type
           /\ \E j \in PartIndexes :
                 /\ part'[j].sys = type /\ part'[j].start = PartFreeSpace(type).start
                 /\ \A k \in PartIndexes : k # j => part'[k].sys = part[k].sys
<1> DEFINE gap == PartFreeSpace(type)
           i == Min(FreePartitions)
           demoted == {j \in PartIndexes : active /\ part[j].active}
           new == [sys |-> type, start |-> gap.start, end |-> gap.start + size - 1, active |-> active]
           t == [j \in PartIndexes |->
                   IF j = i THEN new ELSE [part[j] EXCEPT !.active = @ /\ j \notin demoted]]
<1>1. i \in PartIndexes /\ part[i].sys = "none"
  <2>1. FreePartitions \in SUBSET Nat /\ FreePartitions \subseteq PartIndexes
    BY IndexTypes DEF FreePartitions
  <2>2. i \in FreePartitions
    BY <2>1, LeastExists
  <2> HIDE DEF i
  <2> QED BY <2>1, <2>2 DEF FreePartitions, Partitions
<1>2. part' = t /\ partChanged' = partChanged \cup demoted \cup {i}
  BY DEF MakePartition
<1>3. /\ gap.start \in Disk /\ gap.start + size - 1 \in Disk
      /\ \A j \in Partitions : part[j].end < gap.start \/ gap.start + size - 1 < part[j].start
      /\ type = "extended" => gap.start >= 1
  <2>1. type = "extended" => \E j \in Partitions : part[j].start = 0
    <3> SUFFICES ASSUME type = "extended" PROVE \E j \in Partitions : part[j].start = 0
      OBVIOUS
    <3>1. PICK d \in PartIndexes : part[d].sys = "dos"
      BY DEF OfType
    <3> QED BY <3>1, PartitionTypes DEF SoundTable
  <2> QED BY <2>1, FreeIsFree
<1>4. type = "dos" => gap.start = 0 \/ \E j \in Partitions : part[j].start = 0
  BY PrimaryInFront
<1>5. \A j \in PartIndexes : part[j] \in PartEntry
  BY DEF SoundTable
<1> HIDE DEF gap, i
<1>6. new \in PartEntry /\ new.sys = type /\ new.start = gap.start /\ new.end = gap.start + size - 1
  BY <1>3 DEF PartEntry
<1>7. \A j \in PartIndexes \ {i} :
         /\ t[j] \in PartEntry
         /\ t[j].sys = part[j].sys /\ t[j].start = part[j].start /\ t[j].end = part[j].end
         /\ j \notin demoted => t[j] = part[j]
  <2> SUFFICES ASSUME NEW j \in PartIndexes, j # i
               PROVE  /\ t[j] \in PartEntry
                      /\ t[j].sys = part[j].sys /\ t[j].start = part[j].start
                      /\ t[j].end = part[j].end
                      /\ j \notin demoted => t[j] = part[j]
    OBVIOUS
  <2> DEFINE e == part[j]
             d == (j \notin demoted)
  <2>1. t[j] = [e EXCEPT !.active = e.active /\ d]
    OBVIOUS
  <2>2. e \in PartEntry
    BY <1>5
  <2>3. d \in BOOLEAN
    OBVIOUS
  <2> HIDE DEF e, d, t, new
  <2>4. /\ [e EXCEPT !.active = e.active /\ d] \in PartEntry
        /\ [e EXCEPT !.active = e.active /\ d].sys = e.sys
        /\ [e EXCEPT !.active = e.active /\ d].start = e.start
        /\ [e EXCEPT !.active = e.active /\ d].end = e.end
    BY <2>2, <2>3 DEF PartEntry
  <2>5. d => [e EXCEPT !.active = e.active /\ d] = e
    BY <2>2 DEF PartEntry
  <2> QED BY <2>1, <2>4, <2>5 DEF e, d
<1>8. t[i] = new
  BY <1>1
<1>9. t \in [PartIndexes -> PartEntry]
  <2>1. \A j \in PartIndexes : t[j] \in PartEntry
    <3> HIDE DEF t, new
    <3> QED BY <1>6, <1>7, <1>8
  <2>2. t = [j \in PartIndexes |-> t[j]]
    OBVIOUS
  <2> HIDE DEF t
  <2> QED BY <2>1, <2>2
<1> HIDE DEF t, new, demoted
<1>10. SoundTable(t)
  <2>1. t[i].sys = type /\ t[i].start = gap.start /\ t[i].end = gap.start + size - 1
    BY <1>6, <1>8
  <2>2. t[i].start <= t[i].end
    BY <1>3, <2>1 DEF Disk
  <2>3. \A j \in Partitions : part[j].end < t[i].start \/ t[i].end < part[j].start
    BY <1>3, <2>1
  <2>4. type = "dos" => t[i].start = 0 \/ \E j \in Partitions : part[j].start = 0
    BY <1>4, <2>1
  <2>5. type = "extended" => t[i].start >= 1 /\ OfType("dos") # {}
    BY <1>3, <2>1
  <2>6. \A j \in PartIndexes \ {i} :
           t[j].sys = part[j].sys /\ t[j].start = part[j].start /\ t[j].end = part[j].end
    BY <1>7
  <2> QED BY <1>1, <1>9, <2>1, <2>2, <2>3, <2>4, <2>5, <2>6, MadeSound
<1>11. partChanged' \in SUBSET PartIndexes
  BY <1>1, <1>2 DEF demoted
<1>12. /\ part'[i].sys = type /\ part'[i].start = PartFreeSpace(type).start
       /\ \A k \in PartIndexes : k # i => part'[k].sys = part[k].sys
  BY <1>2, <1>6, <1>7, <1>8 DEF gap
<1> QED BY <1>1, <1>2, <1>6, <1>7, <1>8, <1>10, <1>11, <1>12

LEMMA UnusedIs ==
    Unused \in PartEntry /\ Unused.sys = "none" /\ NoDrive \in Drive /\ ~ NoDrive.used
BY IndexTypes DEF Unused, NoDrive, PartEntry, Drive

(* dos_delete of the one primary partition and ext_delete. *)
LEMMA Cleared ==
    ASSUME SoundTable(part), partChanged \in SUBSET PartIndexes, NEW indexes,
           \/ indexes = OfType("extended")
           \/ indexes = OfType("dos") /\ OfType("extended") = {},
           Clear(indexes)
    PROVE  /\ SoundTable(part')
           /\ partChanged' \in SUBSET PartIndexes
           /\ partChanged \subseteq partChanged'
           /\ \A j \in PartIndexes : part'[j] # part[j] => j \in partChanged'
<1> DEFINE t == [i \in PartIndexes |-> IF i \in indexes THEN Unused ELSE part[i]]
<1>1. part' = t /\ partChanged' = partChanged \cup indexes
  BY DEF Clear
<1>2. indexes \subseteq PartIndexes /\ \A i \in indexes : part[i].sys \in {"dos", "extended"}
  BY DEF OfType
<1>3. \A i \in PartIndexes : part[i] \in PartEntry
  BY DEF SoundTable
<1>4. /\ \A i \in PartIndexes \ indexes : t[i] = part[i]
      /\ \A i \in indexes : t[i] = Unused
  BY <1>2
<1>5. t \in [PartIndexes -> PartEntry]
  BY <1>3, UnusedIs
<1> HIDE DEF t
<1>6. UsedIn(t) = UsedIn(part) \ indexes
  BY <1>2, <1>4, UnusedIs DEF UsedIn
<1>7. \A i \in UsedIn(t) : i \in UsedIn(part) /\ t[i] = part[i]
  BY <1>4, <1>6 DEF UsedIn
<1>8. \A i \in PartIndexes : t[i].sys # "none" => t[i] = part[i] /\ i \notin indexes
  BY <1>2, <1>4, UnusedIs
<1>9. \A i \in UsedIn(t) : t[i].start <= t[i].end
  BY <1>7 DEF SoundTable
<1>10. \A i, j \in UsedIn(t) : i # j => t[i].end < t[j].start \/ t[j].end < t[i].start
  BY <1>7 DEF SoundTable
<1>11. \A i, j \in PartIndexes :
          t[i].sys = t[j].sys /\ t[i].sys \in {"dos", "extended"} => i = j
  BY <1>8 DEF SoundTable
<1>12. \A i \in PartIndexes : t[i].sys # "extended"
  BY <1>8 DEF OfType
<1>13. ASSUME NEW i \in PartIndexes, t[i].sys = "dos"
       PROVE  \E j \in UsedIn(t) : t[j].start = 0
  <2>1. part[i].sys = "dos" /\ i \notin indexes
    BY <1>8, <1>13
  <2>2. indexes = OfType("extended")
    BY <2>1 DEF OfType
  <2>3. PICK j \in UsedIn(part) : part[j].start = 0
    BY <2>1 DEF SoundTable
  <2>4. j \notin indexes
    <3>1. \A k \in indexes : part[k].start >= 1
      BY <2>2 DEF OfType, SoundTable
    <3> QED BY <2>3, <3>1
  <2> QED BY <1>6, <1>7, <2>3, <2>4
<1>14. FrontFits(t)
  <2>1. \A i \in PartIndexes : (part[i].sys = "foreign") <=> (t[i].sys = "foreign")
    BY <1>2, <1>4, UnusedIs
  <2>2. \A i \in PartIndexes : part[i].sys = "foreign" =>
           t[i].start = part[i].start /\ t[i].end = part[i].end
    BY <1>2, <1>4
  <2>3. FrontFits(part)
    BY DEF SoundTable
  <2> QED BY <2>1, <2>2, <2>3, FrontFitsKept
<1>15. SoundTable(t)
  BY <1>5, <1>9, <1>10, <1>11, <1>12, <1>13, <1>14 DEF SoundTable
<1> QED BY <1>1, <1>2, <1>4, <1>15

(* change_active_partition moves no partition. *)
LEMMA Activated ==
    ASSUME SoundTable(part), partChanged \in SUBSET PartIndexes, ChangeActive
    PROVE  /\ SoundTable(part')
           /\ partChanged' \in SUBSET PartIndexes
           /\ partChanged \subseteq partChanged'
           /\ \A j \in PartIndexes : part'[j] # part[j] => j \in partChanged'
           /\ \A j \in PartIndexes :
                 /\ part'[j].sys = part[j].sys /\ part'[j].start = part[j].start
                 /\ part'[j].end = part[j].end
<1> DEFINE bootable == {i \in Partitions : part[i].sys # "extended"}
<1>1. PICK i \in bootable :
         /\ part' = [j \in PartIndexes |-> [part[j] EXCEPT !.active = (j = i)]]
         /\ partChanged' = partChanged \cup {i} \cup {j \in PartIndexes : part[j].active}
  BY DEF ChangeActive
<1>2. i \in PartIndexes
  BY <1>1 DEF Partitions
<1>3. \A j \in PartIndexes : part[j] \in PartEntry
  BY DEF SoundTable
<1>4. \A j \in PartIndexes :
         /\ part'[j] \in PartEntry
         /\ part'[j].sys = part[j].sys /\ part'[j].start = part[j].start
         /\ part'[j].end = part[j].end
         /\ part[j].active = (j = i) => part'[j] = part[j]
  <2> SUFFICES ASSUME NEW j \in PartIndexes
               PROVE  /\ part'[j] \in PartEntry
                      /\ part'[j].sys = part[j].sys /\ part'[j].start = part[j].start
                      /\ part'[j].end = part[j].end
                      /\ part[j].active = (j = i) => part'[j] = part[j]
    OBVIOUS
  <2> DEFINE e == part[j]
             d == (j = i)
  <2>1. part'[j] = [e EXCEPT !.active = d]
    BY <1>1
  <2>2. e \in PartEntry /\ d \in BOOLEAN
    BY <1>3
  <2> HIDE DEF e, d
  <2>3. /\ [e EXCEPT !.active = d] \in PartEntry
        /\ [e EXCEPT !.active = d].sys = e.sys
        /\ [e EXCEPT !.active = d].start = e.start
        /\ [e EXCEPT !.active = d].end = e.end
    BY <2>2 DEF PartEntry
  <2>4. e.active = d => [e EXCEPT !.active = d] = e
    BY <2>2 DEF PartEntry
  <2> QED BY <2>1, <2>3, <2>4 DEF e, d
<1>5. part' \in [PartIndexes -> PartEntry]
  <2>1. part' = [j \in PartIndexes |-> part'[j]]
    BY <1>1
  <2> QED BY <1>4, <2>1
<1>6. UsedIn(part') = UsedIn(part)
  BY <1>4 DEF UsedIn
<1>7. FrontFits(part')
  <2>1. FrontFits(part)
    BY DEF SoundTable
  <2> QED BY <1>4, <2>1, FrontFitsKept
<1>8. \A j, k \in PartIndexes :
         part'[j].sys = part'[k].sys /\ part'[j].sys \in {"dos", "extended"} => j = k
  BY <1>4 DEF SoundTable
<1>9. \A j \in PartIndexes : part'[j].sys = "extended" =>
         part'[j].start >= 1 /\ \E k \in PartIndexes : part'[k].sys = "dos"
  BY <1>4 DEF SoundTable
<1>10. \A j \in PartIndexes : part'[j].sys = "dos" =>
          \E k \in UsedIn(part') : part'[k].start = 0
  <2>1. \A k \in UsedIn(part) : k \in PartIndexes
    BY DEF UsedIn
  <2> QED BY <1>4, <1>6, <2>1 DEF SoundTable
<1>11. /\ \A j \in UsedIn(part') : part'[j].start <= part'[j].end
       /\ \A j, k \in UsedIn(part') :
             j # k => part'[j].end < part'[k].start \/ part'[k].end < part'[j].start
  <2>1. \A k \in UsedIn(part) : k \in PartIndexes
    BY DEF UsedIn
  <2> QED BY <1>4, <1>6, <2>1 DEF SoundTable
<1>12. SoundTable(part')
  BY <1>5, <1>7, <1>8, <1>9, <1>10, <1>11 DEF SoundTable
<1>13. \A j \in PartIndexes : part'[j] # part[j] => j \in partChanged'
  <2> SUFFICES ASSUME NEW j \in PartIndexes, j \notin partChanged' PROVE part'[j] = part[j]
    OBVIOUS
  <2>1. j # i /\ ~ part[j].active
    BY <1>1
  <2>2. part[j].active \in BOOLEAN
    BY <1>3 DEF PartEntry
  <2>3. part[j].active = (j = i)
    BY <2>1, <2>2
  <2> QED BY <1>4, <2>3
<1> QED BY <1>1, <1>2, <1>4, <1>12, <1>13

-----------------------------------------------------------------------------
(* The extended partition and its drives *)

(* There is one extended partition. *)
LEMMA ExtendedIs ==
    ASSUME SoundTable(part)
    PROVE  \A e \in OfType("extended") :
              /\ Extended = part[e] /\ e \in PartIndexes
              /\ Extended.start >= 1 /\ Extended.start \in Disk /\ Extended.end \in Disk
              /\ Extended.start <= Extended.end
              /\ OfType("dos") # {}
<1> SUFFICES ASSUME NEW e \in OfType("extended")
             PROVE  /\ Extended = part[e] /\ e \in PartIndexes
                    /\ Extended.start >= 1 /\ Extended.start \in Disk /\ Extended.end \in Disk
                    /\ Extended.start <= Extended.end
                    /\ OfType("dos") # {}
  OBVIOUS
<1>1. e \in PartIndexes /\ part[e].sys = "extended"
  BY DEF OfType
<1>2. OfType("extended") \in SUBSET Nat
  BY IndexTypes DEF OfType
<1>3. Min(OfType("extended")) \in OfType("extended")
  BY <1>2, LeastExists
<1>4. \A j \in OfType("extended") : j = e
  <2>1. \A j \in PartIndexes : part[j].sys = "extended" => j = e
    BY <1>1 DEF SoundTable
  <2> QED BY <2>1 DEF OfType
<1>5. Extended = part[e]
  BY <1>3, <1>4 DEF Extended
<1>6. part[e].start \in Disk /\ part[e].end \in Disk
  BY <1>1, PartitionTypes
<1>7. part[e].start <= part[e].end
  BY <1>1 DEF SoundTable, UsedIn
<1>8. part[e].start >= 1 /\ OfType("dos") # {}
  BY <1>1 DEF SoundTable, OfType
<1> QED BY <1>1, <1>5, <1>6, <1>7, <1>8

LEMMA DriveOrderIs ==
    ASSUME DrivesInv
    PROVE  /\ Cardinality(Drives) \in Nat /\ IsFiniteSet(Drives) /\ Drives \subseteq DriveIndexes
           /\ DriveOrder \in [1 .. Cardinality(Drives) -> Drives]
           /\ Len(DriveOrder) = Cardinality(Drives)
           /\ \A k, l \in 1 .. Cardinality(Drives) :
                 k < l => ext[DriveOrder[k]].start < ext[DriveOrder[l]].start
           /\ \A i \in Drives : \E k \in 1 .. Cardinality(Drives) : DriveOrder[k] = i
           /\ Drives # {} => Cardinality(Drives) > 0
           /\ \A i \in Drives : ext[i] \in Drive
<1> DEFINE key == [i \in DriveIndexes |-> ext[i].start]
           n == Cardinality(Drives)
           o == DriveOrder
<1>1. Drives \in SUBSET DriveIndexes /\ IsFiniteSet(Drives)
  <2>1. Drives \in SUBSET DriveIndexes
    BY DEF Drives
  <2> QED BY <2>1, IndexTypes, FS_Subset
<1>2. \A i \in Drives : ext[i] \in Drive /\ key[i] = ext[i].start /\ key[i] \in Int
  <2>1. \A i \in DriveIndexes : i \in 0 .. Slots
    BY IndexTypes DEF DriveIndexes
  <2>2. \A i \in Drives : ext[i] \in Drive
    BY <1>1, <2>1 DEF DrivesInv
  <2>3. \A i \in Drives : ext[i].start \in Int
    BY <2>2 DEF Drive, Disk
  <2> QED BY <1>1, <2>2, <2>3
<1>3. \A i, j \in Drives : i # j => key[i] # key[j]
  <2> HIDE DEF key
  <2> QED BY <1>2 DEF DrivesInv
<1>4. o = Sorted(Drives, key)
  BY DEF DriveOrder
<1> HIDE DEF key, o
<1>5. /\ n \in Nat /\ o \in [1 .. n -> Drives] /\ Len(o) = n
      /\ \A k, l \in 1 .. n : k < l => key[o[k]] < key[o[l]]
      /\ \A i \in Drives : \E k \in 1 .. n : o[k] = i
  <2>1. \A i \in Drives : i \in Int
    BY <1>1, IndexTypes
  <2> QED BY <1>1, <1>2, <1>3, <1>4, <2>1, SortedIsOrder
<1> HIDE DEF n
<1>6. \A k, l \in 1 .. n : k < l => ext[o[k]].start < ext[o[l]].start
  BY <1>2, <1>5
<1>7. Drives # {} => n > 0
  BY <1>5
<1> QED BY <1>1, <1>2, <1>5, <1>6, <1>7 DEF n, o

(* What find_ext_free_space hands out starts the extended partition or lies  *)
(* behind a drive, no drive starts in it, and it ends with the partition or  *)
(* in front of a drive.                                                      *)
LEMMA ExtFreeIs ==
    ASSUME SoundTable(part), DrivesInv, OfType("extended") # {},
           NEW size \in Nat, size > 0, size <= ExtFreeSpace.space
    PROVE  /\ ExtFreeSpace.start \in Int /\ ExtFreeSpace.space \in Int
           /\ \/ ExtFreeSpace.start = Extended.start
              \/ \E i \in Drives : ExtFreeSpace.start = ext[i].end + 1
           /\ \A i \in Drives : \/ ext[i].start < ExtFreeSpace.start
                               \/ ExtFreeSpace.start + size - 1 < ext[i].start
           /\ \/ ExtFreeSpace.start + size - 1 <= Extended.end
              \/ \E i \in Drives : ExtFreeSpace.start + size - 1 < ext[i].start
<1> DEFINE n == Cardinality(Drives)
           o == DriveOrder
           gap == ExtFreeSpace
           first == Extended.start
           last == Extended.end
           head == Gap(first, ext[o[1]].start - 1)
           behind == Gaps(ext, o, last)
           gaps == <<head>> \o behind
<1>0. /\ TotalDisk \in Nat /\ TotalDisk > 1 /\ first \in Disk /\ last \in Disk
      /\ first >= 1 /\ first <= last
  <2>1. PICK e : e \in OfType("extended")
    OBVIOUS
  <2> QED BY <2>1, ExtendedIs, IndexTypes
<1>1. size <= gap.space
  OBVIOUS
<1>2. CASE Drives = {}
  <2>1. gap = Gap(first, last)
    BY <1>2 DEF ExtFreeSpace
  <2>2. gap.start = first /\ gap.space = last - first + 1
    BY <2>1 DEF Gap
  <2> HIDE DEF gap, first, last
  <2>3. /\ gap.start \in Int /\ gap.space \in Int /\ gap.start = first
        /\ gap.start + size - 1 <= last
    BY <1>0, <1>1, <2>2 DEF Disk
  <2> QED BY <1>2, <2>3 DEF gap, first, last
<1>3. CASE Drives # {}
  <2>1. gap = Largest(gaps)
    BY <1>3 DEF ExtFreeSpace
  <2>2. /\ n \in Nat /\ n > 0 /\ o \in [1 .. n -> Drives] /\ Len(o) = n
        /\ \A k, l \in 1 .. n : k < l => ext[o[k]].start < ext[o[l]].start
        /\ \A i \in Drives : \E k \in 1 .. n : o[k] = i
        /\ \A i \in Drives : ext[i] \in Drive
    BY <1>3, DriveOrderIs
  <2> HIDE DEF n, o, gap, first, last
  <2>3. \A k \in 1 .. n : /\ ext[o[k]].start \in Disk /\ ext[o[k]].end \in Disk
                          /\ ext[o[k]].start <= ext[o[k]].end
                          /\ first <= ext[o[k]].start
    <3> SUFFICES ASSUME NEW k \in 1 .. n
                 PROVE  /\ ext[o[k]].start \in Disk /\ ext[o[k]].end \in Disk
                        /\ ext[o[k]].start <= ext[o[k]].end
                        /\ first <= ext[o[k]].start
      OBVIOUS
    <3>1. o[k] \in Drives
      BY <2>2
    <3>2. ext[o[k]] \in Drive
      BY <2>2, <3>1
    <3>3. ext[o[k]].start <= ext[o[k]].end /\ first <= ext[o[k]].start
      BY <3>1 DEF DrivesInv, first
    <3> QED BY <3>2, <3>3 DEF Drive
  <2>4. 1 \in 1 .. n
    BY <2>2
  <2>5. head.start = first /\ head.space = ext[o[1]].start - first
    <3>1. head.start = first /\ head.space = ext[o[1]].start - 1 - first + 1
      BY DEF Gap
    <3> QED BY <1>0, <2>3, <2>4, <3>1 DEF Disk
  <2>6. /\ DOMAIN behind = 1 .. n
        /\ \A k \in 1 .. n :
              /\ behind[k].start = ext[o[k]].end + 1
              /\ behind[k].space =
                   (IF k = n THEN last ELSE ext[o[k + 1]].start - 1) - (ext[o[k]].end + 1) + 1
    BY <2>2 DEF Gaps, Gap
  <2>7. /\ DOMAIN gaps = 1 .. n + 1 /\ gaps[1] = head
        /\ \A k \in 1 .. n : gaps[k + 1] = behind[k]
    <3>1. behind \in Seq({behind[k] : k \in 1 .. n}) /\ Len(behind) = n
      <4>1. behind = [k \in 1 .. n |-> behind[k]]
        BY <2>2 DEF Gaps
      <4> HIDE DEF behind, head
      <4>2. behind \in [1 .. n -> {behind[k] : k \in 1 .. n}]
        BY <4>1
      <4> QED BY <2>2, <4>2
    <3> HIDE DEF behind, head
    <3>2. <<head>> \in Seq({head}) /\ Len(<<head>>) = 1 /\ <<head>>[1] = head
      OBVIOUS
    <3> QED BY <2>2, <3>1, <3>2
  <2> HIDE DEF head, behind, gaps
  <2>8. \A k \in 1 .. n : k # n => k + 1 \in 1 .. n
    BY <2>2
  <2>9. \A k \in 1 .. n : behind[k].space \in Int
    <3> SUFFICES ASSUME NEW k \in 1 .. n PROVE behind[k].space \in Int
      OBVIOUS
    <3>1. CASE k = n
      <4>1. behind[k].space = last - (ext[o[k]].end + 1) + 1
        BY <2>6, <3>1
      <4> QED BY <1>0, <2>3, <4>1 DEF Disk
    <3>2. CASE k # n
      <4>1. k + 1 \in 1 .. n /\ behind[k].space = ext[o[k + 1]].start - 1 - (ext[o[k]].end + 1) + 1
        BY <2>6, <2>8, <3>2
      <4>2. ext[o[k + 1]].start \in Disk /\ ext[o[k]].end \in Disk
        BY <2>3, <4>1
      <4> QED BY <1>0, <4>1, <4>2 DEF Disk
    <3> QED BY <3>1, <3>2
  <2>10. n + 1 \in Nat /\ n + 1 > 0 /\ \A k \in 1 .. n + 1 : gaps[k].space \in Int
    <3>1. ASSUME NEW k \in 1 .. n + 1 PROVE gaps[k].space \in Int
      <4>1. CASE k = 1
        BY <1>0, <2>3, <2>4, <2>5, <2>7, <4>1 DEF Disk
      <4>2. CASE k # 1
        <5>1. k - 1 \in 1 .. n /\ k = (k - 1) + 1
          BY <2>2, <4>2
        <5>2. gaps[k] = behind[k - 1]
          BY <2>7, <5>1
        <5> QED BY <2>9, <5>1, <5>2
      <4> QED BY <4>1, <4>2
    <3> QED BY <2>2, <3>1
  <2>11. PICK x \in 1 .. n + 1 : Largest(gaps) = gaps[x]
    BY <2>7, <2>10, LargestIs
  <2>s. gap.space \in Int
    BY <2>1, <2>10, <2>11
  <2>12. CASE x = 1
    <3>1. gap.start = first /\ size <= ext[o[1]].start - first
      BY <1>1, <2>1, <2>5, <2>7, <2>11, <2>12
    <3>2. \A k \in 1 .. n : ext[o[1]].start <= ext[o[k]].start
      <4> SUFFICES ASSUME NEW k \in 1 .. n PROVE ext[o[1]].start <= ext[o[k]].start
        OBVIOUS
      <4>1. CASE k = 1
        BY <2>3, <2>4, <4>1 DEF Disk
      <4>2. CASE k # 1
        <5>1. 1 < k
          BY <2>2, <4>2
        <5>2. ext[o[1]].start < ext[o[k]].start
          BY <2>2, <2>4, <5>1
        <5> QED BY <2>3, <2>4, <5>2 DEF Disk
      <4> QED BY <4>1, <4>2
    <3>3. gap.start \in Int
      BY <1>0, <3>1 DEF Disk
    <3>4. \A k \in 1 .. n : gap.start + size - 1 < ext[o[k]].start
      BY <1>0, <2>3, <2>4, <3>1, <3>2 DEF Disk
    <3>5. o[1] \in Drives /\ gap.start + size - 1 < ext[o[1]].start
      BY <2>2, <2>4, <3>4
    <3> QED BY <2>2, <2>s, <3>1, <3>3, <3>4, <3>5 DEF gap, first, last
  <2>13. CASE x # 1
    <3>1. x - 1 \in 1 .. n /\ x = (x - 1) + 1
      BY <2>2, <2>13
    <3> DEFINE k == x - 1
    <3>2. k \in 1 .. n /\ gap = behind[k]
      BY <2>1, <2>7, <2>11, <3>1
    <3> HIDE DEF k
    <3>3. /\ gap.start = ext[o[k]].end + 1
          /\ gap.space =
               (IF k = n THEN last ELSE ext[o[k + 1]].start - 1) - (ext[o[k]].end + 1) + 1
      BY <2>6, <3>2
    <3>4. gap.start \in Int
      BY <2>3, <3>2, <3>3 DEF Disk
    <3>5. /\ k = n => gap.start + size - 1 <= last
          /\ k # n => k + 1 \in 1 .. n /\ gap.start + size - 1 < ext[o[k + 1]].start
      <4>1. CASE k = n
        BY <1>0, <1>1, <2>3, <3>2, <3>3, <4>1 DEF Disk
      <4>2. CASE k # n
        <5>1. k + 1 \in 1 .. n /\ gap.space = ext[o[k + 1]].start - 1 - (ext[o[k]].end + 1) + 1
          BY <2>8, <3>2, <3>3, <4>2
        <5>2. ext[o[k + 1]].start \in Int /\ ext[o[k]].end \in Int
          BY <2>3, <3>2, <5>1 DEF Disk
        <5> QED BY <1>1, <3>3, <4>2, <5>1, <5>2
      <4> QED BY <4>1, <4>2
    <3>6. ASSUME NEW l \in 1 .. n
          PROVE  ext[o[l]].start < gap.start \/ gap.start + size - 1 < ext[o[l]].start
      <4>1. CASE l = k
        BY <2>3, <3>2, <3>3, <4>1 DEF Disk
      <4>2. CASE l < k
        <5>1. ext[o[l]].start < ext[o[k]].start
          BY <2>2, <3>2, <4>2
        <5> QED BY <2>3, <3>2, <3>3, <5>1 DEF Disk
      <4>3. CASE l > k
        <5>1. k # n /\ k + 1 \in 1 .. n /\ gap.start + size - 1 < ext[o[k + 1]].start
          BY <2>2, <3>2, <3>5, <4>3
        <5>2. l = k + 1 \/ k + 1 < l
          BY <3>2, <4>3
        <5>3. ext[o[k + 1]].start <= ext[o[l]].start
          <6>1. CASE l = k + 1
            BY <2>3, <5>1, <6>1 DEF Disk
          <6>2. CASE k + 1 < l
            <7>1. ext[o[k + 1]].start < ext[o[l]].start
              BY <2>2, <5>1, <6>2
            <7> QED BY <2>3, <5>1, <7>1 DEF Disk
          <6> QED BY <5>2, <6>1, <6>2
        <5> QED BY <2>3, <3>4, <5>1, <5>3 DEF Disk
      <4> QED BY <3>2, <4>1, <4>2, <4>3
    <3>7. gap.start = ext[o[k]].end + 1 /\ o[k] \in Drives
      BY <2>2, <3>2, <3>3
    <3>8. gap.start + size - 1 <= last \/ \E i \in Drives : gap.start + size - 1 < ext[i].start
      <4>1. k # n => o[k + 1] \in Drives
        BY <2>2, <3>5
      <4> QED BY <3>5, <4>1
    <3>9. \A i \in Drives : ext[i].start < gap.start \/ gap.start + size - 1 < ext[i].start
      BY <2>2, <3>6
    <3> QED BY <2>s, <3>4, <3>7, <3>8, <3>9 DEF gap, first, last
  <2> QED BY <2>12, <2>13
<1> QED BY <1>2, <1>3

(* It is on the disk, in the extended partition or behind it, and begins    *)
(* where no drive does.                                                     *)
LEMMA ExtFreeIsFree ==
    ASSUME SoundTable(part), DrivesInv, OfType("extended") # {},
           NEW size \in Nat, size > 0, size <= ExtFreeSpace.space
    PROVE  /\ ExtFreeSpace.start \in Disk /\ ExtFreeSpace.start + size - 1 \in Disk
           /\ Extended.start <= ExtFreeSpace.start
           /\ \A i \in Drives : ext[i].start # ExtFreeSpace.start
<1> DEFINE gap == ExtFreeSpace
<1>1. /\ gap.start \in Int
      /\ gap.start = Extended.start \/ \E i \in Drives : gap.start = ext[i].end + 1
      /\ \A i \in Drives : ext[i].start < gap.start \/ gap.start + size - 1 < ext[i].start
      /\ gap.start + size - 1 <= Extended.end
         \/ \E i \in Drives : gap.start + size - 1 < ext[i].start
  BY ExtFreeIs
<1> HIDE DEF gap
<1>2. /\ TotalDisk \in Nat /\ TotalDisk > 1
      /\ Extended.start \in 0 .. TotalDisk - 1 /\ Extended.end \in 0 .. TotalDisk - 1
  <2>1. PICK e : e \in OfType("extended")
    OBVIOUS
  <2> QED BY <2>1, ExtendedIs, IndexTypes DEF Disk
<1>3. ASSUME NEW i \in Drives
      PROVE  /\ ext[i].start \in 0 .. TotalDisk - 1 /\ ext[i].end \in 0 .. TotalDisk - 1
             /\ Extended.start <= ext[i].start /\ ext[i].start <= ext[i].end
  <2>1. ext[i] \in Drive
    BY DriveOrderIs
  <2> QED BY <2>1 DEF DrivesInv, Drive, Disk
<1>4. Extended.start <= gap.start
  BY <1>1, <1>2, <1>3
<1>5. gap.start + size - 1 \in 0 .. TotalDisk - 1
  BY <1>1, <1>2, <1>3, <1>4
<1>6. gap.start \in 0 .. TotalDisk - 1
  BY <1>1, <1>2, <1>4, <1>5
<1>7. \A i \in Drives : ext[i].start # gap.start
  BY <1>1, <1>3
<1> QED BY <1>4, <1>5, <1>6, <1>7 DEF gap, Disk

(* make_volume. *)
LEMMA VolumeMade ==
    ASSUME SoundTable(part), DrivesInv, OfType("extended") # {}, FreeDrives # {},
           NEW size \in Nat, size > 0, size <= ExtFreeSpace.space,
           MakeVolume(ExtFreeSpace, size), UNCHANGED part
    PROVE  /\ DrivesInv'
           /\ \E i : /\ Drives' = Drives \cup {i} /\ i \notin Drives
                     /\ ext'[i].start = ExtFreeSpace.start
                     /\ ext'[i].end = ExtFreeSpace.start + size - 1
                     /\ \A j \in Drives : ext'[j] = ext[j]
<1> DEFINE gap == ExtFreeSpace
           i == Min(FreeDrives)
           new == [start |-> gap.start, end |-> gap.start + size - 1, used |-> TRUE]
<1>1. i \in DriveIndexes /\ i \notin Drives /\ i \in 0 .. Slots
  <2>1. FreeDrives \in SUBSET Nat /\ FreeDrives \subseteq DriveIndexes
    BY IndexTypes DEF FreeDrives
  <2>2. i \in FreeDrives
    BY <2>1, LeastExists
  <2> HIDE DEF i
  <2> QED BY <2>1, <2>2, IndexTypes DEF FreeDrives, DriveIndexes
<1>2. ext' = [ext EXCEPT ![i] = new]
  BY DEF MakeVolume
<1>3. /\ gap.start \in Disk /\ gap.start + size - 1 \in Disk /\ Extended.start <= gap.start
      /\ \A j \in Drives : ext[j].start # gap.start
  BY ExtFreeIsFree
<1> HIDE DEF gap, i
<1>4. /\ new \in Drive /\ new.start = gap.start /\ new.end = gap.start + size - 1 /\ new.used
  BY <1>3 DEF Drive
<1> HIDE DEF new
<1>5. ext \in [0 .. Slots -> Drive]
  BY DEF DrivesInv
<1>6. /\ ext' \in [0 .. Slots -> Drive] /\ ext'[i] = new
      /\ \A j \in 0 .. Slots : j # i => ext'[j] = ext[j]
  BY <1>1, <1>2, <1>4, <1>5
<1>7. Drives' = Drives \cup {i}
  <2>1. \A j \in DriveIndexes : j \in 0 .. Slots
    BY IndexTypes DEF DriveIndexes
  <2> QED BY <1>1, <1>4, <1>6, <2>1 DEF Drives
<1>8. \A j \in Drives : j # i /\ ext'[j] = ext[j]
  <2>1. \A j \in Drives : j \in 0 .. Slots
    BY IndexTypes DEF DriveIndexes, Drives
  <2> QED BY <1>1, <1>6, <2>1
<1>9. OfType("extended")' = OfType("extended") /\ Extended' = Extended
  BY DEF OfType, Extended
<1>10. new.start <= new.end
  BY <1>3, <1>4 DEF Disk
<1>11. \A j \in Drives' : /\ ext'[j].start <= ext'[j].end
                          /\ OfType("extended") # {} /\ Extended.start <= ext'[j].start
  <2> SUFFICES ASSUME NEW j \in Drives'
               PROVE  ext'[j].start <= ext'[j].end /\ Extended.start <= ext'[j].start
    OBVIOUS
  <2>1. CASE j = i
    BY <1>3, <1>4, <1>6, <1>10, <2>1
  <2>2. CASE j \in Drives
    BY <1>8, <2>2 DEF DrivesInv
  <2> QED BY <1>7, <2>1, <2>2
<1>12. \A j, k \in Drives' : j # k => ext'[j].start # ext'[k].start
  <2> SUFFICES ASSUME NEW j \in Drives', NEW k \in Drives', j # k
               PROVE  ext'[j].start # ext'[k].start
    OBVIOUS
  <2>1. CASE j \in Drives /\ k \in Drives
    BY <1>8, <2>1 DEF DrivesInv
  <2>2. CASE j = i
    <3>1. k \in Drives
      BY <1>7, <2>2
    <3> QED BY <1>3, <1>4, <1>6, <1>8, <2>2, <3>1
  <2>3. CASE k = i
    <3>1. j \in Drives
      BY <1>7, <2>3
    <3> QED BY <1>3, <1>4, <1>6, <1>8, <2>3, <3>1
  <2> QED BY <1>7, <2>1, <2>2, <2>3
<1>13. DrivesInv'
  BY <1>6, <1>9, <1>11, <1>12 DEF DrivesInv
<1> QED BY <1>1, <1>4, <1>6, <1>7, <1>8, <1>13 DEF gap

(* volume_create stops before ext_table is full. *)
LEMMA DriveLeft ==
    ASSUME DrivesInv, Cardinality(Drives) < Slots
    PROVE  FreeDrives # {}
<1>1. Drives \in SUBSET DriveIndexes
  BY DriveOrderIs
<1>2. Drives # DriveIndexes
  BY IndexTypes, DriveOrderIs
<1> QED BY <1>1, <1>2 DEF FreeDrives

(* Fewer drives. *)
LEMMA DrivesFewer ==
    ASSUME DrivesInv, NEW chosen,
           ext' = [i \in 0 .. Slots |-> IF i \in chosen THEN NoDrive ELSE ext[i]],
           UNCHANGED part
    PROVE  DrivesInv'
<1>1. ext \in [0 .. Slots -> Drive] /\ NoDrive \in Drive /\ ~ NoDrive.used
  BY UnusedIs DEF DrivesInv
<1>2. ext' \in [0 .. Slots -> Drive]
  BY <1>1
<1>3. \A i \in Drives' : i \in Drives /\ ext'[i] = ext[i]
  <2>1. \A i \in DriveIndexes : i \in 0 .. Slots
    BY IndexTypes DEF DriveIndexes
  <2> SUFFICES ASSUME NEW i \in Drives' PROVE i \in Drives /\ ext'[i] = ext[i]
    OBVIOUS
  <2>2. i \in DriveIndexes /\ ext'[i].used
    BY DEF Drives
  <2>3. i \notin chosen
    BY <1>1, <2>1, <2>2
  <2> QED BY <2>1, <2>2, <2>3 DEF Drives
<1>4. OfType("extended")' = OfType("extended") /\ Extended' = Extended
  BY DEF OfType, Extended
<1>5. \A i \in Drives' : /\ ext'[i].start <= ext'[i].end
                          /\ OfType("extended")' # {} /\ Extended'.start <= ext'[i].start
  <2> SUFFICES ASSUME NEW i \in Drives'
               PROVE  /\ ext'[i].start <= ext'[i].end
                      /\ OfType("extended")' # {} /\ Extended'.start <= ext'[i].start
    OBVIOUS
  <2>1. i \in Drives /\ ext'[i] = ext[i]
    BY <1>3
  <2>2. /\ ext[i].start <= ext[i].end
        /\ OfType("extended") # {} /\ Extended.start <= ext[i].start
    BY <2>1 DEF DrivesInv
  <2> QED BY <1>4, <2>1, <2>2
<1>6. \A i, j \in Drives' : i # j => ext'[i].start # ext'[j].start
  BY <1>3 DEF DrivesInv
<1> QED BY <1>2, <1>5, <1>6 DEF DrivesInv

-----------------------------------------------------------------------------
(* The records *)

LEMMA JunkIs == Junk \in Record /\ \A c : Onward(c, Junk)
BY UnusedIs DEF Junk, Record, Onward

(* The sweep leaves the chain as it was or cuts it. *)
LEMMA SweptKeeps ==
    ASSUME BootInv, NEW gap, boot' = Swept(gap)
    PROVE  BootInv'
<1>1. DOMAIN boot = 1 .. TotalDisk - 1
  BY DEF BootInv
<1>2. \A c \in 1 .. TotalDisk - 1 : boot'[c] = Junk \/ boot'[c] = boot[c]
  BY <1>1 DEF Swept
<1>3. boot' = [c \in 1 .. TotalDisk - 1 |-> boot'[c]]
  BY <1>1 DEF Swept
<1>4. \A c \in 1 .. TotalDisk - 1 : boot'[c] \in Record /\ Onward(c, boot'[c])
  BY <1>2, JunkIs DEF BootInv
<1> QED BY <1>3, <1>4 DEF BootInv

(* The records that write_ext_boot_to_disk makes. *)
LEMMA ExtRecordIs ==
    ASSUME DrivesInv, NEW drive \in Drive, NEW cylinder \in Disk, cylinder # 0,
           NEW k \in Nat, k > 0,
           drive.used => cylinder <= drive.start /\ drive.start <= drive.end,
           k <= Cardinality(Drives) => cylinder < ext[DriveOrder[k]].start
    PROVE  /\ ExtRecord(cylinder, drive, DriveOrder, k) \in Item
           /\ Faithful(ExtRecord(cylinder, drive, DriveOrder, k))
<1> DEFINE n == Cardinality(Drives)
           next == IF k > n THEN None ELSE ext[DriveOrder[k]].start
           r == [drive |-> drive, next |-> next]
           item == [at |-> cylinder, record |-> r]
<1>1. ExtRecord(cylinder, drive, DriveOrder, k) = item
  BY DriveOrderIs DEF ExtRecord
<1>2. next \in Disk \cup {None} /\ (next # None => cylinder < next)
  <2>1. CASE k > n
    BY <2>1
  <2>2. CASE ~ (k > n)
    <3>1. k \in 1 .. n /\ k <= n
      BY <2>2, DriveOrderIs
    <3>2. DriveOrder[k] \in Drives
      BY <3>1, DriveOrderIs
    <3>3. ext[DriveOrder[k]].start \in Disk
      BY <3>2, DriveOrderIs DEF Drive
    <3> QED BY <2>2, <3>1, <3>3
  <2> QED BY <2>1, <2>2
<1> HIDE DEF next
<1>3. r \in Record /\ r.next = next /\ r.drive = drive
  BY <1>2 DEF Record
<1> HIDE DEF r
<1>4. item \in Item /\ item.at = cylinder /\ item.record = r
  BY <1>3 DEF Item
<1>5. Onward(cylinder, r)
  BY <1>2, <1>3 DEF Onward
<1> QED BY <1>1, <1>4, <1>5 DEF Faithful

(* What write_info_to_disk queues. *)
LEMMA SoundConcat ==
    ASSUME NEW s, NEW t, Sound(s), Sound(t)
    PROVE  Sound(s \o t)
<1>1. s \in Seq(Item) /\ t \in Seq(Item)
  BY DEF Sound
<1>2. s \o t \in Seq(Item) /\ Len(s \o t) = Len(s) + Len(t) /\ Len(s) \in Nat /\ Len(t) \in Nat
  BY <1>1
<1>3. ASSUME NEW k \in 1 .. Len(s \o t) PROVE Faithful((s \o t)[k])
  <2>1. CASE k <= Len(s)
    <3>1. k \in 1 .. Len(s) /\ (s \o t)[k] = s[k]
      BY <1>1, <1>2, <2>1
    <3> QED BY <3>1 DEF Sound
  <2>2. CASE ~ (k <= Len(s))
    <3>1. k - Len(s) \in 1 .. Len(t) /\ (s \o t)[k] = t[k - Len(s)]
      BY <1>1, <1>2, <2>2
    <3> QED BY <3>1 DEF Sound
  <2> QED BY <2>1, <2>2
<1> QED BY <1>2, <1>3 DEF Sound

LEMMA SoundNone == Sound(<<>>)
BY DEF Sound

LEMMA SoundOne ==
    ASSUME NEW item \in Item, Faithful(item)
    PROVE  Sound(<<item>>)
<1>1. <<item>> \in Seq(Item) /\ Len(<<item>>) = 1 /\ <<item>>[1] = item
  OBVIOUS
<1> QED BY <1>1 DEF Sound

LEMMA DriveRecordsSound ==
    ASSUME SoundTable(part), DrivesInv, OfType("extended") # {}
    PROVE  Sound(DriveRecords)
<1> DEFINE n == Cardinality(Drives)
           o == DriveOrder
<1>1. /\ n \in Nat /\ o \in [1 .. n -> Drives] /\ Len(o) = n
      /\ \A k, l \in 1 .. n : k < l => ext[o[k]].start < ext[o[l]].start
      /\ \A i \in Drives : ext[i] \in Drive
  BY DriveOrderIs
<1>2. PICK e : e \in OfType("extended")
  OBVIOUS
<1>3. Extended.start >= 1 /\ Extended.start \in Disk
  BY <1>2, ExtendedIs
<1>4. ASSUME NEW k \in 1 .. n
      PROVE  /\ ExtRecord(ext[o[k]].start, ext[o[k]], o, k + 1) \in Item
             /\ Faithful(ExtRecord(ext[o[k]].start, ext[o[k]], o, k + 1))
  <2>1. o[k] \in Drives
    BY <1>1
  <2>2. ext[o[k]] \in Drive
    BY <1>1, <2>1
  <2>3. ext[o[k]].start \in Disk /\ Extended.start <= ext[o[k]].start
        /\ ext[o[k]].start <= ext[o[k]].end
    BY <2>1, <2>2 DEF DrivesInv, Drive
  <2>4. ext[o[k]].start # 0 /\ ext[o[k]].start <= ext[o[k]].start
    BY <1>3, <2>3, IndexTypes DEF Disk
  <2>5. k + 1 \in Nat /\ k + 1 > 0
    BY <1>1
  <2>6. k + 1 <= n => ext[o[k]].start < ext[o[k + 1]].start
    <3>1. k + 1 <= n => k + 1 \in 1 .. n /\ k < k + 1
      BY <1>1
    <3> HIDE DEF n, o
    <3> QED BY <1>1, <3>1
  <2> QED BY <2>2, <2>3, <2>4, <2>5, <2>6, ExtRecordIs
<1>5. DriveRecords = [k \in 1 .. n |-> ExtRecord(ext[o[k]].start, ext[o[k]], o, k + 1)]
  BY <1>1 DEF DriveRecords
<1> HIDE DEF n, o
<1>6. /\ DriveRecords \in [1 .. n -> Item]
      /\ \A k \in 1 .. n : Faithful(DriveRecords[k])
  BY <1>4, <1>5
<1>7. DriveRecords \in Seq(Item) /\ Len(DriveRecords) = n
  BY <1>1, <1>6
<1> QED BY <1>6, <1>7 DEF Sound

LEMMA DummyRecordSound ==
    ASSUME SoundTable(part), DrivesInv, OfType("extended") # {}
    PROVE  Sound(DummyRecord)
<1> DEFINE n == Cardinality(Drives)
           o == DriveOrder
           temp == IF o = <<>> THEN 0 ELSE o[1]
           item == ExtRecord(Extended.start, ext[0], o, 1)
<1>1. /\ n \in Nat /\ o \in [1 .. n -> Drives] /\ Len(o) = n
      /\ \A k, l \in 1 .. n : k < l => ext[o[k]].start < ext[o[l]].start
  BY DriveOrderIs
<1>2. PICK e : e \in OfType("extended")
  OBVIOUS
<1>3. Extended.start >= 1 /\ Extended.start \in Disk /\ Extended.start # 0
  BY <1>2, ExtendedIs, IndexTypes DEF Disk
<1>4. CASE temp # 0 /\ ext[temp].start # Extended.start
  <2>1. o # <<>> /\ temp = o[1]
    BY <1>4
  <2>2. n > 0
    <3> SUFFICES ASSUME ~ (n > 0) PROVE FALSE
      OBVIOUS
    <3>1. 1 .. n = {}
      BY <1>1
    <3>2. Len(o) = 0 /\ o \in Seq(Drives)
      BY <1>1, <3>1
    <3> QED BY <2>1, <3>2
  <2>3. 1 \in 1 .. n /\ temp \in Drives
    BY <1>1, <2>1, <2>2
  <2>4. Extended.start < ext[o[1]].start
    <3>1. Extended.start <= ext[temp].start /\ ext[temp] \in Drive
      BY <2>3, DriveOrderIs DEF DrivesInv
    <3>2. ext[temp].start \in Disk
      BY <3>1 DEF Drive
    <3> HIDE DEF temp, o
    <3> QED BY <1>3, <1>4, <2>1, <3>1, <3>2, IndexTypes DEF Disk
  <2>5. 0 \in 0 .. Slots /\ 0 \in DriveIndexes
    BY IndexTypes DEF DriveIndexes
  <2>6. ext[0] \in Drive
    BY <2>5 DEF DrivesInv
  <2>7. ext[0].used => Extended.start <= ext[0].start /\ ext[0].start <= ext[0].end
    BY <2>5 DEF DrivesInv, Drives
  <2>8. 1 \in Nat /\ 1 > 0
    OBVIOUS
  <2>9. item \in Item /\ Faithful(item)
    BY <1>3, <2>4, <2>6, <2>7, <2>8, ExtRecordIs
  <2>10. DummyRecord = <<item>>
    BY <1>4 DEF DummyRecord
  <2> QED BY <2>9, <2>10, SoundOne
<1>5. CASE ~ (temp # 0 /\ ext[temp].start # Extended.start)
  <2>1. DummyRecord = <<>>
    BY <1>5 DEF DummyRecord
  <2> QED BY <2>1, SoundNone
<1> QED BY <1>4, <1>5

(* The changed entries copied to the disk's table make it the one in memory. *)
LEMMA MasterRecordIs ==
    ASSUME NEW table \in [PartIndexes -> PartEntry], NEW changed,
           \A i \in PartIndexes : table[i] # master[i] => i \in changed
    PROVE  MasterRecord(table, changed) = table
BY DEF MasterRecord

(* The records of a chain that is written, or none. *)
LEMMA ChainRecordsSound ==
    ASSUME SoundTable(part), DrivesInv
    PROVE  Sound(IF OfType("extended") = {} \/ ~ extChanged THEN <<>> ELSE DriveRecords \o DummyRecord)
<1>1. CASE OfType("extended") = {} \/ ~ extChanged
  BY <1>1, SoundNone
<1>2. CASE ~ (OfType("extended") = {} \/ ~ extChanged)
  <2>1. Sound(DriveRecords) /\ Sound(DummyRecord)
    BY <1>2, DriveRecordsSound, DummyRecordSound
  <2>2. Sound(DriveRecords \o DummyRecord)
    BY <2>1, SoundConcat
  <2> QED BY <1>2, <2>2
<1> QED BY <1>1, <1>2

-----------------------------------------------------------------------------
(* The steps *)

LEMMA BlankTable == SoundTable([i \in PartIndexes |-> Unused])
<1> DEFINE t == [i \in PartIndexes |-> Unused]
<1>1. \A i \in PartIndexes : t[i] = Unused
  OBVIOUS
<1>2. t \in [PartIndexes -> PartEntry]
  BY UnusedIs
<1> HIDE DEF t
<1>3. UsedIn(t) = {}
  BY <1>1, UnusedIs DEF UsedIn
<1>4. \A i \in PartIndexes : t[i].sys = "none"
  BY <1>1, UnusedIs
<1>5. FrontFits(t)
  BY <1>4, IndexTypes DEF FrontFits
<1>6. SoundTable(t)
  BY <1>2, <1>3, <1>4, <1>5 DEF SoundTable
<1> QED BY <1>6 DEF t

LEMMA BlankDrives ==
    ASSUME ext = [i \in 0 .. Slots |-> NoDrive]
    PROVE  Drives = {} /\ ext \in [0 .. Slots -> Drive]
<1>1. \A i \in DriveIndexes : i \in 0 .. Slots
  BY IndexTypes DEF DriveIndexes
<1>2. \A i \in DriveIndexes : ext[i] = NoDrive
  BY <1>1
<1>3. ext \in [0 .. Slots -> Drive]
  BY UnusedIs
<1> QED BY <1>2, <1>3, UnusedIs DEF Drives

LEMMA NoExtendedNoDrive ==
    ASSUME DrivesInv, OfType("extended") = {}
    PROVE  Drives = {}
BY DEF DrivesInv

LEMMA NoDosNoExtended ==
    ASSUME SoundTable(part), OfType("dos") = {}
    PROVE  OfType("extended") = {}
BY DEF SoundTable, OfType

(* Without drives the extended partition may come and go. *)
LEMMA NoDrivesKept ==
    ASSUME DrivesInv, Drives = {}, UNCHANGED ext
    PROVE  DrivesInv'
<1>1. Drives' = Drives
  BY DEF Drives
<1> QED BY <1>1 DEF DrivesInv

(* An edit of the partition table in one of the menus. *)
LEMMA EditKept ==
    ASSUME TablesInv, ReadingInv, QueueInv, pc \in {"menu", "volumes"},
           SoundTable(part'), partChanged' \in SUBSET PartIndexes,
           partChanged \subseteq partChanged',
           \A j \in PartIndexes : part'[j] # part[j] => j \in partChanged',
           pc' \in {"menu", "volumes"}, UNCHANGED <<master, queue, count>>,
           pc' = "volumes" => \E j \in PartIndexes : part'[j].sys = "extended"
    PROVE  TablesInv' /\ ReadingInv' /\ QueueInv'
<1>1. TablesInv'
  <2>1. \A j \in PartIndexes : part'[j] # master'[j] => j \in partChanged'
    BY DEF TablesInv
  <2>2. SoundTable(master')
    BY DEF TablesInv
  <2> QED BY <2>1, <2>2 DEF TablesInv
<1>2. queue = <<>> /\ queue' = <<>>
  BY DEF QueueInv
<1>3. QueueInv'
  <2>1. Sound(queue')
    BY <1>2, SoundNone
  <2>2. Sound(queue)'
    BY <1>2 DEF Sound
  <2> QED BY <1>2, <2>2 DEF QueueInv
<1>4. ReadingInv'
  <2>1. OfType("extended")' = {j \in PartIndexes : part'[j].sys = "extended"}
    BY DEF OfType
  <2>2. pc' = "volumes" => OfType("extended")' # {}
    BY <2>1
  <2> QED BY <2>2 DEF ReadingInv
<1> QED BY <1>1, <1>3, <1>4

LEMMA CreatePrimaryStep ==
    ASSUME IInv, CreatePrimary
    PROVE  IInv'
<1> USE DEF IInv
<1> DEFINE gap == PartFreeSpace("dos")
<1>1. /\ pc = "menu" /\ FreePartitions # {} /\ OfType("dos") = {} /\ boot' = Swept(gap)
      /\ UNCHANGED <<master, ext, pc, queue, count>>
  BY DEF CreatePrimary, reading
<1>2. PICK size \in Sizes(gap) : IF size = 0 THEN UNCHANGED <<part, partChanged>>
                                 ELSE MakePartition(gap, size, FALSE, "dos")
  BY DEF CreatePrimary
<1>3. SoundTable(part) /\ partChanged \in SUBSET PartIndexes
  BY DEF TablesInv
<1>4. /\ SoundTable(part') /\ partChanged' \in SUBSET PartIndexes
      /\ partChanged \subseteq partChanged'
      /\ \A j \in PartIndexes : part'[j] # part[j] => j \in partChanged'
  <2>1. CASE size = 0
    BY <1>2, <1>3, <2>1
  <2>2. CASE size # 0
    <3>1. gap.space \in Nat
      BY <1>1, <1>3, PrimaryInFront
    <3>2. size \in Nat /\ size > 0 /\ size <= gap.space
      <4> HIDE DEF gap
      <4> QED BY <2>2, <3>1 DEF Sizes
    <3>3. MakePartition(gap, size, FALSE, "dos")
      BY <1>2, <2>2
    <3> QED BY <1>1, <1>3, <3>2, <3>3, Made
  <2> QED BY <2>1, <2>2
<1>5. TablesInv' /\ ReadingInv' /\ QueueInv'
  BY <1>1, <1>4, EditKept
<1>6. BootInv'
  BY <1>1, SweptKeeps
<1>7. DrivesInv'
  BY <1>1, <1>3, NoDosNoExtended, NoExtendedNoDrive, NoDrivesKept
<1> QED BY <1>5, <1>6, <1>7

LEMMA CreateExtendedStep ==
    ASSUME IInv, CreateExtended
    PROVE  IInv'
<1> USE DEF IInv
<1> DEFINE gap == PartFreeSpace("extended")
<1>1. /\ pc = "menu" /\ FreePartitions # {} /\ OfType("dos") # {} /\ OfType("extended") = {}
      /\ boot' = Swept(gap) /\ UNCHANGED <<master, ext, queue, count>>
  BY DEF CreateExtended, reading
<1>2. PICK size \in Sizes(gap) : IF size = 0 THEN UNCHANGED <<part, partChanged, pc>>
                                 ELSE /\ MakePartition(gap, size, FALSE, "extended")
                                      /\ pc' = "volumes"
  BY DEF CreateExtended
<1>3. SoundTable(part) /\ partChanged \in SUBSET PartIndexes
  BY DEF TablesInv
<1>4. /\ SoundTable(part') /\ partChanged' \in SUBSET PartIndexes
      /\ partChanged \subseteq partChanged'
      /\ \A j \in PartIndexes : part'[j] # part[j] => j \in partChanged'
      /\ pc' \in {"menu", "volumes"}
      /\ pc' = "volumes" => \E j \in PartIndexes : part'[j].sys = "extended"
  <2>1. CASE size = 0
    BY <1>1, <1>2, <1>3, <2>1
  <2>2. CASE size # 0
    <3>1. size \in Nat /\ size > 0 /\ size <= gap.space
      <4> HIDE DEF gap
      <4> QED BY <2>2 DEF Sizes
    <3>2. MakePartition(gap, size, FALSE, "extended") /\ pc' = "volumes"
      BY <1>2, <2>2
    <3> QED BY <1>1, <1>3, <3>1, <3>2, Made
  <2> QED BY <2>1, <2>2
<1>5. TablesInv' /\ ReadingInv' /\ QueueInv'
  BY <1>1, <1>4, EditKept
<1>6. BootInv'
  BY <1>1, SweptKeeps
<1>7. DrivesInv'
  BY <1>1, NoExtendedNoDrive, NoDrivesKept
<1> QED BY <1>5, <1>6, <1>7

LEMMA CreateMaximumStep ==
    ASSUME IInv, CreateMaximum
    PROVE  IInv'
<1> USE DEF IInv
<1> DEFINE gap == PartFreeSpace("dos")
<1>1. /\ pc = "menu" /\ FreePartitions # {} /\ OfType("dos") = {}
      /\ boot' = Swept(gap) /\ MakePartition(gap, gap.space, TRUE, "dos")
      /\ pc' = "writing" /\ queue' = InfoRecords(part', partChanged')
      /\ UNCHANGED <<master, ext, count>>
  BY DEF CreateMaximum, reading
<1>2. SoundTable(part) /\ partChanged \in SUBSET PartIndexes
  BY DEF TablesInv
<1>3. /\ SoundTable(part') /\ partChanged' \in SUBSET PartIndexes
      /\ partChanged \subseteq partChanged'
      /\ \A j \in PartIndexes : part'[j] # part[j] => j \in partChanged'
  <2>1. gap.space \in Nat /\ gap.space > 0 /\ gap.space <= gap.space
    <3>1. gap.space \in Nat /\ gap.space > 0
      BY <1>1, <1>2, PrimaryInFront
    <3> HIDE DEF gap
    <3> QED BY <3>1
  <2> QED BY <1>1, <1>2, <2>1, Made
<1>4. \A j \in PartIndexes : part'[j] # master[j] => j \in partChanged'
  BY <1>1, <1>3 DEF TablesInv
<1>5. TablesInv'
  <2>1. SoundTable(master')
    BY <1>1 DEF TablesInv
  <2> QED BY <1>1, <1>3, <2>1 DEF TablesInv
<1>6. part' \in [PartIndexes -> PartEntry]
  BY <1>3 DEF SoundTable
<1>7. MasterRecord(part', partChanged') = part'
  BY <1>4, <1>6, MasterRecordIs
<1>8. Sound(queue)'
  <2> DEFINE item == [at |-> 0, record |-> part']
  <2>1. OfType("extended") = {}
    BY <1>1, <1>2, NoDosNoExtended
  <2>2. queue' = (IF partChanged' = {} THEN <<>> ELSE <<item>>) \o <<>>
    BY <1>1, <1>7, <2>1 DEF InfoRecords
  <2>3. item \in Item /\ item.at = 0 /\ item.record = part'
    BY <1>6, IndexTypes DEF Item
  <2> HIDE DEF item
  <2>4. CASE partChanged' = {}
    <3>1. queue' = <<>>
      BY <2>2, <2>4
    <3> QED BY <3>1 DEF Sound
  <2>5. CASE partChanged' # {}
    <3>1. queue' = <<item>>
      BY <2>2, <2>5
    <3>2. queue' \in Seq(Item) /\ Len(queue') = 1 /\ queue'[1] = item
      BY <2>3, <3>1
    <3>3. \A k \in 1 .. Len(queue') : queue'[k] = item
      BY <3>2
    <3> QED BY <2>3, <3>2, <3>3 DEF Sound, Faithful
  <2> QED BY <2>4, <2>5
<1>9. QueueInv'
  BY <1>1, <1>8 DEF QueueInv
<1>10. ReadingInv'
  BY <1>1 DEF ReadingInv
<1>11. BootInv'
  BY <1>1, SweptKeeps
<1>12. DrivesInv'
  BY <1>1, <1>2, NoDosNoExtended, NoExtendedNoDrive, NoDrivesKept
<1> QED BY <1>5, <1>9, <1>10, <1>11, <1>12

LEMMA OpenVolumesStep ==
    ASSUME IInv, OpenVolumes
    PROVE  IInv'
<1> USE DEF IInv
<1>1. /\ pc = "menu" /\ OfType("extended") # {} /\ pc' = "volumes"
      /\ UNCHANGED <<master, boot, part, ext, partChanged, queue, count>>
  BY DEF OpenVolumes, reading
<1>2. \E j \in PartIndexes : part'[j].sys = "extended"
  BY <1>1 DEF OfType
<1>3. SoundTable(part') /\ partChanged' \in SUBSET PartIndexes
  BY <1>1 DEF TablesInv
<1>4. TablesInv' /\ ReadingInv' /\ QueueInv'
  BY <1>1, <1>2, <1>3, EditKept
<1>5. BootInv'
  BY <1>1 DEF BootInv
<1>6. DrivesInv'
  BY <1>1 DEF DrivesInv, Drives, OfType, Extended
<1> QED BY <1>4, <1>5, <1>6

LEMMA CreateVolumeStep ==
    ASSUME IInv, CreateVolume
    PROVE  IInv'
<1> USE DEF IInv
<1> DEFINE dos == IF OfType("dos") = {} THEN 0 ELSE 1
           letters == Cardinality(Drives) + dos
           gap == ExtFreeSpace
<1>1. /\ pc = "volumes" /\ UNCHANGED <<master, part, partChanged, queue, count>>
      /\ IF letters > Slots THEN pc' = "menu" /\ UNCHANGED <<boot, ext>>
         ELSE /\ boot' = Swept(gap)
              /\ \E size \in Sizes(gap) : IF size = 0 THEN pc' = "menu" /\ UNCHANGED ext
                                          ELSE MakeVolume(gap, size) /\ UNCHANGED pc
  BY DEF CreateVolume, reading
<1>2. SoundTable(part) /\ partChanged \in SUBSET PartIndexes
  BY DEF TablesInv
<1>3. OfType("extended") # {}
  BY <1>1 DEF ReadingInv
<1>4. SoundTable(part') /\ partChanged' \in SUBSET PartIndexes
      /\ \E j \in PartIndexes : part'[j].sys = "extended"
  BY <1>1, <1>2, <1>3 DEF OfType
<1>5. pc' \in {"menu", "volumes"}
  BY <1>1
<1>6. TablesInv' /\ ReadingInv' /\ QueueInv'
  BY <1>1, <1>4, <1>5, EditKept
<1>7. BootInv'
  <2>1. CASE letters > Slots
    BY <1>1, <2>1 DEF BootInv
  <2>2. CASE ~ (letters > Slots)
    BY <1>1, <2>2, SweptKeeps
  <2> QED BY <2>1, <2>2
<1>8. UNCHANGED ext => DrivesInv'
  BY <1>1 DEF DrivesInv, Drives, OfType, Extended
<1>9. DrivesInv'
  <2>1. CASE letters > Slots
    BY <1>1, <1>8, <2>1
  <2>2. CASE ~ (letters > Slots)
    <3>1. PICK size \in Sizes(gap) : IF size = 0 THEN pc' = "menu" /\ UNCHANGED ext
                                     ELSE MakeVolume(gap, size) /\ UNCHANGED pc
      BY <1>1, <2>2
    <3>2. CASE size = 0
      BY <1>8, <3>1, <3>2
    <3>3. CASE size # 0
      <4>1. MakeVolume(gap, size) /\ UNCHANGED part
        BY <1>1, <3>1, <3>3
      <4>2. size \in Nat /\ size > 0 /\ size <= gap.space
        <5> HIDE DEF gap
        <5> QED BY <3>3 DEF Sizes
      <4>3. OfType("dos") # {}
        <5>1. PICK e : e \in OfType("extended")
          BY <1>3
        <5> QED BY <1>2, <5>1, ExtendedIs
      <4>4. Cardinality(Drives) < Slots
        <5>1. Cardinality(Drives) \in Nat /\ Slots \in Nat
          BY DriveOrderIs, IndexTypes
        <5> QED BY <2>2, <4>3, <5>1
      <4>5. FreeDrives # {}
        BY <4>4, DriveLeft
      <4> QED BY <1>2, <1>3, <4>1, <4>2, <4>5, VolumeMade
    <3> QED BY <3>2, <3>3
  <2> QED BY <2>1, <2>2
<1> QED BY <1>6, <1>7, <1>9

LEMMA DeletePartitionStep ==
    ASSUME IInv, DeletePrimary \/ DeleteExtended
    PROVE  IInv'
<1> USE DEF IInv
<1>1. SoundTable(part) /\ partChanged \in SUBSET PartIndexes
  BY DEF TablesInv
<1>2. /\ pc = "menu" /\ Drives = {}
      /\ \E indexes : /\ Clear(indexes)
                      /\ \/ indexes = OfType("extended")
                         \/ indexes = OfType("dos") /\ OfType("extended") = {}
  <2>1. CASE DeletePrimary
    <3>1. /\ pc = "menu" /\ OfType("extended") = {} /\ OfType("dos") # {}
          /\ Clear({Min(OfType("dos"))})
      BY <2>1 DEF DeletePrimary
    <3>2. OfType("dos") \in SUBSET Nat
      BY IndexTypes DEF OfType
    <3>3. Min(OfType("dos")) \in OfType("dos")
      BY <3>1, <3>2, LeastExists
    <3>4. \A i, j \in OfType("dos") : i = j
      BY <1>1 DEF OfType, SoundTable
    <3>5. {Min(OfType("dos"))} = OfType("dos")
      BY <3>3, <3>4
    <3> QED BY <3>1, <3>5, NoExtendedNoDrive
  <2>2. CASE DeleteExtended
    BY <2>2 DEF DeleteExtended
  <2> QED BY <2>1, <2>2
<1>3. PICK indexes : /\ Clear(indexes)
                     /\ \/ indexes = OfType("extended")
                        \/ indexes = OfType("dos") /\ OfType("extended") = {}
  BY <1>2
<1>4. UNCHANGED <<master, boot, ext, pc, queue, count>>
  BY <1>3 DEF Clear, reading
<1>5. /\ SoundTable(part') /\ partChanged' \in SUBSET PartIndexes
      /\ partChanged \subseteq partChanged'
      /\ \A j \in PartIndexes : part'[j] # part[j] => j \in partChanged'
  BY <1>1, <1>3, Cleared
<1>6. TablesInv' /\ ReadingInv' /\ QueueInv'
  BY <1>2, <1>4, <1>5, EditKept
<1>7. BootInv'
  BY <1>4 DEF BootInv
<1>8. DrivesInv'
  BY <1>2, <1>4, NoDrivesKept
<1> QED BY <1>6, <1>7, <1>8

LEMMA DeleteVolumesStep ==
    ASSUME IInv, DeleteVolumes
    PROVE  IInv'
<1> USE DEF IInv
<1>1. /\ pc = "menu" /\ UNCHANGED <<master, boot, part, partChanged, pc, queue, count>>
      /\ \E chosen : ext' = [i \in 0 .. Slots |-> IF i \in chosen THEN NoDrive ELSE ext[i]]
  BY DEF DeleteVolumes, reading
<1>2. SoundTable(part') /\ partChanged' \in SUBSET PartIndexes
  BY <1>1 DEF TablesInv
<1>3. TablesInv' /\ ReadingInv' /\ QueueInv'
  BY <1>1, <1>2, EditKept
<1>4. BootInv'
  BY <1>1 DEF BootInv
<1>5. DrivesInv'
  BY <1>1, DrivesFewer
<1> QED BY <1>3, <1>4, <1>5

LEMMA ChangeActiveStep ==
    ASSUME IInv, ChangeActive
    PROVE  IInv'
<1> USE DEF IInv
<1>1. pc = "menu" /\ UNCHANGED <<master, boot, ext, pc, queue, count>>
  BY DEF ChangeActive, reading
<1>2. SoundTable(part) /\ partChanged \in SUBSET PartIndexes
  BY DEF TablesInv
<1>3. /\ SoundTable(part') /\ partChanged' \in SUBSET PartIndexes
      /\ partChanged \subseteq partChanged'
      /\ \A j \in PartIndexes : part'[j] # part[j] => j \in partChanged'
      /\ \A j \in PartIndexes : part'[j].sys = part[j].sys /\ part'[j].start = part[j].start
  BY <1>2, Activated
<1>4. TablesInv' /\ ReadingInv' /\ QueueInv'
  BY <1>1, <1>3, EditKept
<1>5. BootInv'
  BY <1>1 DEF BootInv
<1>6. OfType("extended")' = OfType("extended")
  BY <1>3 DEF OfType
<1>7. OfType("extended") # {} => Extended'.start = Extended.start
  <2> SUFFICES ASSUME OfType("extended") # {} PROVE Extended'.start = Extended.start
    OBVIOUS
  <2>1. Min(OfType("extended")) \in PartIndexes
    <3>1. OfType("extended") \in SUBSET Nat /\ OfType("extended") \subseteq PartIndexes
      BY IndexTypes DEF OfType
    <3> QED BY <3>1, LeastExists
  <2>2. Extended' = part'[Min(OfType("extended"))]
    BY <1>6 DEF Extended
  <2> QED BY <1>3, <2>1, <2>2 DEF Extended
<1>8. Drives' = Drives
  BY <1>1 DEF Drives
<1>9. DrivesInv'
  BY <1>1, <1>6, <1>7, <1>8 DEF DrivesInv
<1> QED BY <1>4, <1>5, <1>9

LEMMA StartStep ==
    ASSUME IInv, Start
    PROVE  IInv'
<1> USE DEF IInv
<1> DEFINE extended == {i \in PartIndexes : master[i].sys = "extended"}
<1>1. /\ pc = "off" /\ part' = master /\ UNCHANGED <<master, boot, ext, partChanged, count, queue>>
      /\ IF extended = {} THEN pc' = "menu"
         ELSE pc' = "reading" /\ location' = master[Min(extended)].start
  BY DEF Start
<1>2. ext = [i \in 0 .. Slots |-> NoDrive] /\ queue = <<>>
  BY <1>1 DEF QueueInv
<1>3. TablesInv'
  BY <1>1 DEF TablesInv
<1>4. BootInv'
  BY <1>1 DEF BootInv
<1>5. Drives = {}
  BY <1>2, BlankDrives
<1>6. DrivesInv'
  BY <1>1, <1>5, NoDrivesKept
<1>7. QueueInv'
  <2>1. Sound(queue)'
    BY <1>1, <1>2 DEF Sound
  <2>2. pc' # "off" /\ queue' = <<>>
    BY <1>1, <1>2
  <2> QED BY <2>1, <2>2 DEF QueueInv
<1>8. ReadingInv'
  <2>1. count' \in Nat
    BY <1>1 DEF ReadingInv
  <2>2. CASE extended = {}
    BY <1>1, <2>1, <2>2 DEF ReadingInv
  <2>3. CASE extended # {}
    <3>1. OfType("extended")' = extended
      BY <1>1 DEF OfType
    <3>2. Extended' = master[Min(extended)]
      BY <1>1, <3>1 DEF Extended
    <3>3. Min(extended) \in extended
      <4>1. extended \in SUBSET Nat
        BY IndexTypes
      <4> QED BY <2>3, <4>1, LeastExists
    <3>4. master[Min(extended)].start \in Disk /\ master[Min(extended)].start >= 1
      BY <3>3 DEF TablesInv, SoundTable, PartEntry
    <3>5. location' \in 1 .. TotalDisk - 1 /\ Extended'.start <= location'
      BY <1>1, <2>3, <3>2, <3>4, IndexTypes DEF Disk
    <3>6. Drives' = {}
      BY <1>1, <1>5 DEF Drives
    <3> QED BY <1>1, <2>1, <2>3, <3>1, <3>5, <3>6 DEF ReadingInv
  <2> QED BY <2>2, <2>3
<1> QED BY <1>3, <1>4, <1>6, <1>7, <1>8

LEMMA ReadRecordStep ==
    ASSUME IInv, ReadRecord
    PROVE  IInv'
<1> USE DEF IInv
<1> DEFINE record == boot[location]
           next == Followed(record).next
<1>1. /\ pc = "reading"
      /\ ext' = [i \in 0 .. Slots |-> IF i = count THEN record.drive ELSE ext[i]]
      /\ location' = next
      /\ IF next = None THEN pc' = "menu" /\ count' = 0 ELSE count' = count + 1 /\ UNCHANGED pc
      /\ UNCHANGED <<master, boot, part, partChanged, queue>>
  BY DEF ReadRecord
<1>2. /\ location \in 1 .. TotalDisk - 1 /\ count \in Nat
      /\ OfType("extended") # {} /\ Extended.start <= location
      /\ \A i \in Drives : ext[i].start < location
  BY <1>1 DEF ReadingInv
<1>3. record \in Record /\ Onward(location, record)
  BY <1>2 DEF BootInv
<1>4. /\ record.drive \in Drive /\ record.next \in Disk \cup {None}
      /\ record.drive.start \in Disk /\ record.drive.used \in BOOLEAN
  BY <1>3 DEF Record, Drive
<1>5. /\ record.next # None => location < record.next
      /\ record.drive.used =>
            location <= record.drive.start /\ record.drive.start <= record.drive.end
  BY <1>3 DEF Onward
<1> HIDE DEF record
<1>6. /\ next \in Disk \cup {None}
      /\ next # None => location < next /\ (record.drive.used => record.drive.start < next)
  <2>1. CASE record.drive.used
    <3> DEFINE c == record.drive.start
    <3>1. c \in 1 .. TotalDisk - 1 /\ location <= c
      BY <1>2, <1>4, <1>5, <2>1, IndexTypes DEF Disk
    <3>2. next = boot[c].next
      BY <2>1 DEF Followed
    <3>3. boot[c] \in Record /\ Onward(c, boot[c])
      BY <3>1 DEF BootInv
    <3>4. boot[c].next \in Disk \cup {None} /\ (boot[c].next # None => c < boot[c].next)
      BY <3>3 DEF Record, Onward
    <3> HIDE DEF c, next
    <3>5. CASE next = None
      BY <3>5
    <3>6. CASE next # None
      <4>1. next \in Disk /\ c < next
        BY <3>2, <3>4, <3>6
      <4> QED BY <1>2, <3>1, <4>1, IndexTypes DEF Disk, c
    <3> QED BY <3>5, <3>6
  <2>2. CASE ~ record.drive.used
    BY <1>4, <1>5, <2>2 DEF Followed
  <2> QED BY <2>1, <2>2
<1> HIDE DEF next
<1>7. OfType("extended")' = OfType("extended") /\ Extended' = Extended
  BY <1>1 DEF OfType, Extended
<1>8. ext' \in [0 .. Slots -> Drive]
  BY <1>1, <1>4 DEF DrivesInv
<1>9. \A i \in Drives' :
         \/ i = count /\ ext'[i] = record.drive /\ record.drive.used
         \/ i # count /\ i \in Drives /\ ext'[i] = ext[i]
  <2> SUFFICES ASSUME NEW i \in Drives'
               PROVE  \/ i = count /\ ext'[i] = record.drive /\ record.drive.used
                      \/ i # count /\ i \in Drives /\ ext'[i] = ext[i]
    OBVIOUS
  <2>1. i \in DriveIndexes /\ ext'[i].used
    BY DEF Drives
  <2>2. i \in 0 .. Slots
    BY <2>1, IndexTypes DEF DriveIndexes
  <2>3. ext'[i] = IF i = count THEN record.drive ELSE ext[i]
    BY <1>1, <2>2
  <2> QED BY <2>1, <2>3 DEF Drives
<1>10. \A i \in Drives : ext[i].start \in Int
  <2>1. \A i \in Drives : ext[i] \in Drive
    BY DriveOrderIs
  <2> QED BY <2>1, IndexTypes DEF Drive, Disk
<1>11. Extended.start \in Int /\ location \in Int /\ record.drive.start \in Int
  <2>1. PICK e : e \in OfType("extended")
    BY <1>2
  <2>2. Extended.start \in Disk
    BY <2>1, ExtendedIs DEF TablesInv
  <2> QED BY <1>2, <1>4, <2>2, IndexTypes DEF Disk
<1>12. DrivesInv'
  <2>1. ASSUME NEW i \in Drives'
        PROVE  /\ ext'[i].start <= ext'[i].end
               /\ OfType("extended") # {} /\ Extended.start <= ext'[i].start
    <3>1. CASE ext'[i] = record.drive /\ record.drive.used
      <4>1. location <= record.drive.start /\ record.drive.start <= record.drive.end
        BY <1>5, <3>1
      <4>2. Extended.start <= record.drive.start
        BY <1>2, <1>11, <4>1
      <4> QED BY <1>2, <3>1, <4>1, <4>2
    <3>2. CASE i \in Drives /\ ext'[i] = ext[i]
      BY <3>2 DEF DrivesInv
    <3> QED BY <1>9, <3>1, <3>2
  <2>2. ASSUME NEW i \in Drives', NEW j \in Drives', i # j
        PROVE  ext'[i].start # ext'[j].start
    <3>1. CASE i = count
      <4>1. ext'[i] = record.drive /\ record.drive.used /\ j \in Drives /\ ext'[j] = ext[j]
        BY <1>9, <2>2, <3>1
      <4>2. ext[j].start < location /\ location <= record.drive.start
        BY <1>2, <1>5, <4>1
      <4> QED BY <1>10, <1>11, <4>1, <4>2
    <3>2. CASE j = count
      <4>1. ext'[j] = record.drive /\ record.drive.used /\ i \in Drives /\ ext'[i] = ext[i]
        BY <1>9, <2>2, <3>2
      <4>2. ext[i].start < location /\ location <= record.drive.start
        BY <1>2, <1>5, <4>1
      <4> QED BY <1>10, <1>11, <4>1, <4>2
    <3>3. CASE i # count /\ j # count
      <4>1. i \in Drives /\ ext'[i] = ext[i] /\ j \in Drives /\ ext'[j] = ext[j]
        BY <1>9, <3>3
      <4> QED BY <2>2, <4>1 DEF DrivesInv
    <3> QED BY <3>1, <3>2, <3>3
  <2> QED BY <1>7, <1>8, <2>1, <2>2 DEF DrivesInv
<1>13. ReadingInv'
  <2>1. count' \in Nat
    BY <1>1, <1>2
  <2>2. CASE next = None
    BY <1>1, <2>1, <2>2 DEF ReadingInv
  <2>3. CASE next # None
    <3>1. next \in Disk /\ location < next /\ (record.drive.used => record.drive.start < next)
      BY <1>6, <2>3
    <3>2. next \in Int
      BY <3>1, IndexTypes DEF Disk
    <3>3. next \in 1 .. TotalDisk - 1 /\ Extended.start <= next
      BY <1>2, <1>11, <3>1, <3>2, IndexTypes DEF Disk
    <3>4. ASSUME NEW i \in Drives' PROVE ext'[i].start < next
      <4>1. CASE ext'[i] = record.drive /\ record.drive.used
        BY <3>1, <4>1
      <4>2. CASE i \in Drives /\ ext'[i] = ext[i]
        <5>1. ext[i].start < location
          BY <1>2, <4>2
        <5> QED BY <1>10, <1>11, <3>1, <3>2, <4>2, <5>1
      <4> QED BY <1>9, <4>1, <4>2
    <3>5. location' = next /\ pc' = "reading"
      BY <1>1, <2>3
    <3> QED BY <1>2, <1>7, <2>1, <3>3, <3>4, <3>5 DEF ReadingInv
  <2> QED BY <2>2, <2>3
<1>14. TablesInv'
  BY <1>1 DEF TablesInv
<1>15. BootInv'
  BY <1>1 DEF BootInv
<1>16. QueueInv'
  <2>1. queue = <<>> /\ queue' = <<>>
    BY <1>1 DEF QueueInv
  <2>2. Sound(queue)'
    BY <2>1 DEF Sound
  <2>3. pc' # "off"
    BY <1>1
  <2> QED BY <2>1, <2>2, <2>3 DEF QueueInv
<1> QED BY <1>12, <1>13, <1>14, <1>15, <1>16

LEMMA LeaveStep ==
    ASSUME IInv, Leave
    PROVE  IInv'
<1> USE DEF IInv
<1>1. /\ pc = "menu" /\ pc' = "writing" /\ queue' = InfoRecords(part, partChanged)
      /\ UNCHANGED <<master, boot, part, ext, partChanged, count>>
  BY DEF Leave, reading
<1>2. SoundTable(part) /\ part \in [PartIndexes -> PartEntry]
  BY DEF TablesInv, SoundTable
<1>3. MasterRecord(part, partChanged) = part
  <2>1. \A i \in PartIndexes : part[i] # master[i] => i \in partChanged
    BY <1>1 DEF TablesInv
  <2> QED BY <1>2, <2>1, MasterRecordIs
<1>4. Sound(queue')
  <2> DEFINE item == [at |-> 0, record |-> part]
             chain == IF OfType("extended") = {} \/ ~ extChanged THEN <<>>
                      ELSE DriveRecords \o DummyRecord
             first == IF partChanged = {} THEN <<>> ELSE <<item>>
  <2>1. item \in Item /\ Faithful(item)
    BY <1>2, IndexTypes DEF Item, Faithful
  <2>2. queue' = first \o chain
    BY <1>1, <1>3 DEF InfoRecords
  <2>3. Sound(chain)
    BY <1>2, ChainRecordsSound
  <2> HIDE DEF item, chain
  <2>4. Sound(first)
    <3>1. CASE partChanged = {}
      BY <3>1, SoundNone
    <3>2. CASE partChanged # {}
      BY <2>1, <3>2, SoundOne
    <3> QED BY <3>1, <3>2
  <2> HIDE DEF first
  <2> QED BY <2>2, <2>3, <2>4, SoundConcat
<1>5. Sound(queue)'
  BY <1>1, <1>4 DEF Sound, Faithful
<1>6. QueueInv'
  BY <1>1, <1>5 DEF QueueInv
<1>7. TablesInv'
  BY <1>1 DEF TablesInv
<1>8. BootInv'
  BY <1>1 DEF BootInv
<1>9. DrivesInv'
  BY <1>1 DEF DrivesInv, Drives, OfType, Extended
<1>10. ReadingInv'
  BY <1>1 DEF ReadingInv
<1> QED BY <1>6, <1>7, <1>8, <1>9, <1>10

LEMMA SoundTail ==
    ASSUME Sound(queue), queue # <<>>
    PROVE  Head(queue) \in Item /\ Faithful(Head(queue)) /\ Sound(Tail(queue))
<1>1. queue \in Seq(Item)
  BY DEF Sound
<1>2. /\ Len(queue) \in Nat /\ Len(queue) > 0 /\ Head(queue) = queue[1] /\ Head(queue) \in Item
      /\ Tail(queue) \in Seq(Item) /\ Len(Tail(queue)) = Len(queue) - 1
      /\ \A k \in 1 .. Len(queue) - 1 : Tail(queue)[k] = queue[k + 1]
  BY <1>1
<1>3. 1 \in 1 .. Len(queue) /\ \A k \in 1 .. Len(queue) - 1 : k + 1 \in 1 .. Len(queue)
  BY <1>2
<1> QED BY <1>2, <1>3 DEF Sound

LEMMA WriteStep ==
    ASSUME IInv, WriteRecord \/ FailRecord
    PROVE  IInv'
<1> USE DEF IInv
<1> DEFINE item == Head(queue)
<1>1. /\ pc = "writing" /\ queue # <<>> /\ queue' = Tail(queue)
      /\ UNCHANGED <<part, ext, partChanged, pc, count>>
      /\ \/ UNCHANGED <<master, boot>>
         \/ item.at = 0 /\ master' = item.record /\ UNCHANGED boot
         \/ item.at # 0 /\ boot' = [boot EXCEPT ![item.at] = item.record] /\ UNCHANGED master
  BY DEF WriteRecord, FailRecord, reading
<1>2. item \in Item /\ Faithful(item) /\ Sound(Tail(queue))
  BY <1>1, SoundTail DEF QueueInv
<1>3. QueueInv'
  <2>1. Sound(queue)'
    BY <1>1, <1>2 DEF Sound, Faithful
  <2> QED BY <1>1, <2>1 DEF QueueInv
<1> HIDE DEF item
<1>4. TablesInv'
  <2>1. SoundTable(master')
    <3>1. item.at = 0 => item.record = part
      BY <1>2 DEF Faithful
    <3> QED BY <1>1, <3>1 DEF TablesInv
  <2> QED BY <1>1, <2>1 DEF TablesInv
<1>5. BootInv'
  <2>1. CASE UNCHANGED boot
    BY <2>1 DEF BootInv
  <2>2. CASE item.at # 0 /\ boot' = [boot EXCEPT ![item.at] = item.record]
    <3>1. item.at \in 1 .. TotalDisk - 1
      <4>1. item.at \in Disk
        BY <1>2 DEF Item
      <4> QED BY <2>2, <4>1, IndexTypes DEF Disk
    <3>2. Onward(item.at, item.record) /\ item.record \in Record
      BY <1>2, <2>2 DEF Faithful, Onward
    <3>3. boot \in [1 .. TotalDisk - 1 -> Record]
          /\ \A c \in 1 .. TotalDisk - 1 : Onward(c, boot[c])
      BY DEF BootInv
    <3>4. boot' \in [1 .. TotalDisk - 1 -> Record]
      BY <2>2, <3>1, <3>2, <3>3
    <3>5. \A c \in 1 .. TotalDisk - 1 :
             boot'[c] = IF c = item.at THEN item.record ELSE boot[c]
      BY <2>2, <3>1, <3>3
    <3>6. \A c \in 1 .. TotalDisk - 1 : Onward(c, boot'[c])
      BY <3>2, <3>3, <3>5
    <3> QED BY <3>4, <3>6 DEF BootInv
  <2> QED BY <1>1, <2>1, <2>2
<1>6. DrivesInv'
  BY <1>1 DEF DrivesInv, Drives, OfType, Extended
<1>7. ReadingInv'
  BY <1>1 DEF ReadingInv
<1> QED BY <1>3, <1>4, <1>5, <1>6, <1>7

LEMMA ForgetStep ==
    ASSUME IInv, Finish \/ PowerCut
    PROVE  IInv'
<1> USE DEF IInv
<1>1. /\ pc' = "off" /\ queue' = <<>> /\ count' = 0
      /\ part' = [i \in PartIndexes |-> Unused]
      /\ ext' = [i \in 0 .. Slots |-> NoDrive]
      /\ partChanged' = {} /\ UNCHANGED <<master, boot>>
  BY DEF Finish, PowerCut, Forget
<1>2. SoundTable(part')
  BY <1>1, BlankTable
<1>3. TablesInv'
  BY <1>1, <1>2 DEF TablesInv
<1>4. BootInv'
  BY <1>1 DEF BootInv
<1>5. Drives' = {} /\ ext' \in [0 .. Slots -> Drive]
  <2>1. \A i \in DriveIndexes : i \in 0 .. Slots
    BY IndexTypes DEF DriveIndexes
  <2>2. \A i \in DriveIndexes : ext'[i] = NoDrive
    BY <1>1, <2>1
  <2>3. ext' \in [0 .. Slots -> Drive]
    BY <1>1, UnusedIs
  <2> QED BY <2>2, <2>3, UnusedIs DEF Drives
<1>6. DrivesInv'
  BY <1>5 DEF DrivesInv
<1>7. ReadingInv'
  BY <1>1 DEF ReadingInv
<1>8. QueueInv'
  <2>1. Sound(queue)'
    BY <1>1 DEF Sound
  <2> QED BY <1>1, <2>1 DEF QueueInv
<1> QED BY <1>3, <1>4, <1>6, <1>7, <1>8

LEMMA StutterStep ==
    ASSUME IInv, UNCHANGED vars
    PROVE  IInv'
<1>1. UNCHANGED <<master, boot, part, ext, partChanged, pc, location, count, queue>>
  BY DEF vars, reading
<1>2. TablesInv'
  BY <1>1 DEF IInv, TablesInv
<1>3. BootInv'
  BY <1>1 DEF IInv, BootInv
<1>4. DrivesInv'
  BY <1>1 DEF IInv, DrivesInv, Drives, OfType, Extended
<1>5. ReadingInv'
  BY <1>1 DEF IInv, ReadingInv, Drives, OfType, Extended
<1>6. QueueInv'
  BY <1>1 DEF IInv, QueueInv, Sound, Faithful
<1> QED BY <1>2, <1>3, <1>4, <1>5, <1>6 DEF IInv

-----------------------------------------------------------------------------
(* The theorems *)

(* The tables a disk may come with. *)
LEMMA ForeignSound ==
    ASSUME LayoutsFit, NEW table \in Foreign
    PROVE  SoundTable(table)
<1>1. /\ table \in [PartIndexes -> PartEntry]
      /\ \A i \in PartIndexes :
            /\ table[i].sys \in {"none", "foreign"} /\ table[i].start <= table[i].end
            /\ \A j \in PartIndexes \ {i} :
                  table[i].sys # "none" /\ table[j].sys # "none" =>
                    Cylinders(table[i]) \cap Cylinders(table[j]) = {}
  BY DiskAssumption
<1>2. FrontFits(table)
  BY DEF LayoutsFit
<1>3. \A i \in UsedIn(table) : i \in PartIndexes /\ table[i].start <= table[i].end
  BY <1>1 DEF UsedIn
<1>4. ASSUME NEW i \in UsedIn(table), NEW j \in UsedIn(table), i # j
      PROVE  table[i].end < table[j].start \/ table[j].end < table[i].start
  <2>1. i \in PartIndexes /\ j \in PartIndexes \ {i}
        /\ table[i].sys # "none" /\ table[j].sys # "none"
    BY <1>4 DEF UsedIn
  <2>2. Cylinders(table[i]) \cap Cylinders(table[j]) = {}
    BY <1>1, <2>1
  <2>3. table[i] \in PartEntry /\ table[j] \in PartEntry
    BY <1>1, <2>1
  <2>4. /\ table[i].start \in Int /\ table[i].end \in Int
        /\ table[j].start \in Int /\ table[j].end \in Int
    BY <2>3, IndexTypes DEF PartEntry, Disk
  <2>5. table[i].start <= table[i].end /\ table[j].start <= table[j].end
    BY <1>1, <2>1
  <2>6. table[i].start \notin Cylinders(table[j]) \/ table[i].start \notin Cylinders(table[i])
    BY <2>2
  <2>7. table[j].start \notin Cylinders(table[i]) \/ table[j].start \notin Cylinders(table[j])
    BY <2>2
  <2> QED BY <2>4, <2>5, <2>6, <2>7 DEF Cylinders
<1>5. \A i \in PartIndexes : table[i].sys # "dos" /\ table[i].sys # "extended"
  BY <1>1
<1> QED BY <1>1, <1>2, <1>3, <1>4, <1>5 DEF SoundTable

LEMMA InitInv ==
    ASSUME LayoutsFit, Init
    PROVE  IInv
<1>1. /\ master \in Foreign
      /\ boot = [c \in 1 .. TotalDisk - 1 |-> Junk]
      /\ part = [i \in PartIndexes |-> Unused]
      /\ ext = [i \in 0 .. Slots |-> NoDrive]
      /\ partChanged = {} /\ pc = "off" /\ count = 0 /\ queue = <<>>
  BY DEF Init
<1>2. TablesInv
  <2>1. SoundTable(part)
    BY <1>1, BlankTable
  <2>2. SoundTable(master)
    BY <1>1, ForeignSound
  <2> QED BY <1>1, <2>1, <2>2 DEF TablesInv
<1>3. BootInv
  BY <1>1, JunkIs DEF BootInv
<1>4. DrivesInv
  <2>1. Drives = {} /\ ext \in [0 .. Slots -> Drive]
    BY <1>1, BlankDrives
  <2> QED BY <2>1 DEF DrivesInv
<1>5. ReadingInv
  BY <1>1 DEF ReadingInv
<1>6. QueueInv
  <2>1. Sound(queue)
    BY <1>1, SoundNone
  <2> QED BY <1>1, <2>1 DEF QueueInv
<1> QED BY <1>2, <1>3, <1>4, <1>5, <1>6 DEF IInv

LEMMA NextInv ==
    ASSUME IInv, [Next]_vars
    PROVE  IInv'
<1>1. CASE Start
  BY <1>1, StartStep
<1>2. CASE ReadRecord
  BY <1>2, ReadRecordStep
<1>3. CASE CreatePrimary
  BY <1>3, CreatePrimaryStep
<1>4. CASE CreateMaximum
  BY <1>4, CreateMaximumStep
<1>5. CASE CreateExtended
  BY <1>5, CreateExtendedStep
<1>6. CASE OpenVolumes
  BY <1>6, OpenVolumesStep
<1>7. CASE CreateVolume
  BY <1>7, CreateVolumeStep
<1>8. CASE DeletePrimary \/ DeleteExtended
  BY <1>8, DeletePartitionStep
<1>9. CASE DeleteVolumes
  BY <1>9, DeleteVolumesStep
<1>10. CASE ChangeActive
  BY <1>10, ChangeActiveStep
<1>11. CASE Leave
  BY <1>11, LeaveStep
<1>12. CASE WriteRecord \/ FailRecord
  BY <1>12, WriteStep
<1>13. CASE Finish \/ PowerCut
  BY <1>13, ForgetStep
<1>14. CASE Rest \/ UNCHANGED vars
  BY <1>14, StutterStep DEF Rest
<1> QED BY <1>1, <1>2, <1>3, <1>4, <1>5, <1>6, <1>7, <1>8, <1>9, <1>10, <1>11, <1>12, <1>13,
           <1>14 DEF Next

LEMMA IInvHolds ==
    ASSUME LayoutsFit
    PROVE  Spec => []IInv
<1>1. Init => IInv
  BY InitInv
<1>2. IInv /\ [Next]_vars => IInv'
  BY NextInv
<1> QED BY <1>1, <1>2, PTL DEF Spec

(* On a disk whose other partitions leave room (LayoutsFit), no two         *)
(* partitions of the table ever share a cylinder and none leaves the disk,  *)
(* through every run, power cut and failed write (find_part_free_space,     *)
(* make_partition, init_partition_tables).                                  *)
THEOREM PartitionsStayDisjoint ==
    ASSUME LayoutsFit
    PROVE  Spec => []PartitionsDisjoint
<1>1. ASSUME IInv PROVE PartitionsDisjoint
  <2>1. SoundTable(part)
    BY <1>1 DEF IInv, TablesInv
  <2>2. /\ \A i \in Partitions : /\ part[i].start \in Disk /\ part[i].end \in Disk
        /\ \A i, j \in Partitions : i # j =>
              part[i].end < part[j].start \/ part[j].end < part[i].start
    BY <2>1, PartitionTypes
  <2>3. \A i \in Partitions : Cylinders(part[i]) \subseteq 0 .. TotalDisk - 1
    BY <2>2, IndexTypes DEF Cylinders, Disk
  <2>4. \A i, j \in Partitions : i # j => Cylinders(part[i]) \cap Cylinders(part[j]) = {}
    <3> SUFFICES ASSUME NEW i \in Partitions, NEW j \in Partitions, i # j
                 PROVE  Cylinders(part[i]) \cap Cylinders(part[j]) = {}
      OBVIOUS
    <3>1. /\ part[i].start \in Int /\ part[i].end \in Int
          /\ part[j].start \in Int /\ part[j].end \in Int
      BY <2>2, IndexTypes DEF Disk
    <3>2. part[i].end < part[j].start \/ part[j].end < part[i].start
      BY <2>2
    <3> QED BY <3>1, <3>2 DEF Cylinders
  <2> QED BY <2>3, <2>4 DEF PartitionsDisjoint
<1> QED BY <1>1, IInvHolds, PTL

(* Every boot record of the chain points further along the disk, whichever  *)
(* records of an interrupted run were written, so that the loop of          *)
(* init_partition_tables comes to an end (write_ext_boot_to_disk).          *)
THEOREM ChainAlwaysAscends ==
    ASSUME LayoutsFit
    PROVE  Spec => []ChainAscends
<1>1. ASSUME IInv PROVE ChainAscends
  <2>1. /\ DOMAIN boot = 1 .. TotalDisk - 1
        /\ \A c \in 1 .. TotalDisk - 1 : Onward(c, boot[c])
    BY <1>1 DEF IInv, BootInv
  <2>2. \A c \in 1 .. TotalDisk - 1 : boot[c].next = None \/ c < boot[c].next
    BY <2>1 DEF Onward
  <2>3. \A c \in 1 .. TotalDisk - 1 : boot[c].next # None => boot[c].next > c
    BY <2>2
  <2> QED BY <2>1, <2>3 DEF ChainAscends
<1> QED BY <1>1, IInvHolds, PTL

(* A table entry that differs from the disk's is marked as changed, so that *)
(* write_master_boot_to_disk, which copies the marked entries only, writes  *)
(* the table that was shown.                                                *)
THEOREM UnsavedAlwaysMarked ==
    ASSUME LayoutsFit
    PROVE  Spec => []UnsavedMarked
<1>1. ASSUME IInv PROVE UnsavedMarked
  BY <1>1 DEF IInv, TablesInv, UnsavedMarked
<1> QED BY <1>1, IInvHolds, PTL

-----------------------------------------------------------------------------
(* The chain on the disk *)

(* The record of a drive's first cylinder is the drive's own, or swept.     *)
Matches(b, d) == b[d.start] = Junk \/ b[d.start].drive = d

(* The cylinders C hold every record that a chain from the cylinder first   *)
(* can come to.  The records other than the first are swept or stand where  *)
(* their drive starts; each leads past its drive, and the drive of a dummy  *)
(* record has a record of its own.                                          *)
Closed(b, first, last, C) ==
    /\ C \subseteq first .. last /\ first \in C
    /\ \A c \in C :
          /\ b[c].next # None => b[c].next \in C
          /\ c # first => b[c] = Junk \/ (b[c].drive.used /\ b[c].drive.start = c)
          /\ b[c].drive.used =>
                /\ b[c].drive.end <= last
                /\ IF b[c].drive.start = c
                   THEN b[c].next # None => b[c].drive.end < b[c].next
                   ELSE b[c].drive.start \in C /\ Matches(b, b[c].drive)

DrivesFit ==
    /\ \A i \in Drives : ext[i].end <= Extended.end
    /\ \A i, j \in Drives : i # j => ext[i].end < ext[j].start \/ ext[j].end < ext[i].start

(* The chain of the disk starts with a dummy record, and with which drive.  *)
Dummy == boot[Extended.start].drive.used /\ boot[Extended.start].drive.start # Extended.start
First == boot[Extended.start].drive

(* What the chain on the disk and the drives in memory have in common: no   *)
(* drive in memory starts within the dummy record's, unless it is that one, *)
(* so that no drive can take its place while the dummy record stays.        *)
Linked(C) ==
    /\ Closed(boot, Extended.start, Extended.end, C)
    /\ \A i \in Drives : ext[i].start \in C /\ Matches(boot, ext[i])
    /\ Dummy /\ (pc = "writing" => queue # <<>>) =>
          \A i \in Drives : ext[i] = First \/ First.end < ext[i].start
    /\ pc = "reading" =>
          /\ location \in C
          /\ \A i \in Drives : ext[i].end < location
          /\ Dummy /\ location # Extended.start => First.end < location

MemoryInv == OfType("extended") # {} => DrivesFit /\ \E C : Linked(C)

DiskInv ==
    \A i \in PartIndexes :
       master[i].sys = "extended" => \E C : Closed(boot, master[i].start, master[i].end, C)

(* The records on their way to the disk: the table, the drives, the dummy.  *)
DriveItem(item) ==
    \E i \in Drives :
       /\ item.at = ext[i].start /\ item.record.drive = ext[i]
       /\ item.record.next # None =>
             \E j \in Drives : item.record.next = ext[j].start /\ ext[i].end < ext[j].start

DummyItem(item) ==
    /\ item.at = Extended.start
    /\ \A i \in Drives : ext[i].start # Extended.start
    /\ item.record.drive = ext[0]
    /\ item.record.next # None => \E j \in Drives : item.record.next = ext[j].start

OrderInv ==
    /\ \A k \in 1 .. Len(queue) :
          IF queue[k].at = 0 THEN k = 1
          ELSE /\ OfType("extended") # {}
               /\ DriveItem(queue[k]) \/ (k = Len(queue) /\ DummyItem(queue[k]))
    /\ pc = "writing" /\ (queue = <<>> \/ queue[1].at # 0) => part = master

FaultsInv == faults \in Seq({"power", "master", "extended"})

MasterWritten == ~ Contains(faults, "master")

LinkInv == MemoryInv /\ DiskInv /\ OrderInv

ChainInv == FaultsInv /\ (MasterWritten => LinkInv)

(* A master record that could not be written is never forgotten.            *)
LEMMA FaultsKept ==
    ASSUME FaultsInv, [Next]_vars
    PROVE  FaultsInv' /\ (MasterWritten' => MasterWritten)
<1>1. \/ UNCHANGED faults
      \/ \E f \in {"power", "master", "extended"} : faults' = Append(faults, f)
  <2>1. CASE FailRecord
    BY <2>1 DEF FailRecord
  <2>2. CASE PowerCut
    BY <2>2 DEF PowerCut
  <2>3. CASE ~ FailRecord /\ ~ PowerCut
    BY <2>3 DEF Next, vars, Start, ReadRecord, CreatePrimary, CreateMaximum, CreateExtended,
                OpenVolumes, CreateVolume, DeletePrimary, DeleteExtended, DeleteVolumes,
                ChangeActive, Clear, Leave, WriteRecord, Finish, Rest
  <2> QED BY <2>1, <2>2, <2>3
<1>2. CASE UNCHANGED faults
  BY <1>2 DEF FaultsInv, MasterWritten
<1>3. ASSUME NEW f \in {"power", "master", "extended"}, faults' = Append(faults, f)
      PROVE  FaultsInv' /\ (MasterWritten' => MasterWritten)
  <2>1. /\ faults' \in Seq({"power", "master", "extended"}) /\ Len(faults) \in Nat
        /\ Len(faults') = Len(faults) + 1
        /\ \A k \in 1 .. Len(faults) : faults'[k] = faults[k]
    BY <1>3 DEF FaultsInv
  <2>2. \A k \in 1 .. Len(faults) : k \in 1 .. Len(faults')
    BY <2>1
  <2> QED BY <2>1, <2>2 DEF FaultsInv, MasterWritten, Contains
<1> QED BY <1>1, <1>2, <1>3

LEMMA JunkHas == Junk.next = None /\ ~ Junk.drive.used
BY UnusedIs DEF Junk

(* A sweep cuts the chain, at most.                                         *)
LEMMA SweptClosed ==
    ASSUME NEW b, NEW b2, NEW first, NEW last, NEW C, Closed(b, first, last, C),
           \A c \in C : b2[c] = b[c] \/ b2[c] = Junk
    PROVE  Closed(b2, first, last, C)
<1>1. ASSUME NEW c \in C
      PROVE  /\ b2[c].next # None => b2[c].next \in C
             /\ c # first => b2[c] = Junk \/ (b2[c].drive.used /\ b2[c].drive.start = c)
             /\ b2[c].drive.used =>
                   /\ b2[c].drive.end <= last
                   /\ IF b2[c].drive.start = c
                      THEN b2[c].next # None => b2[c].drive.end < b2[c].next
                      ELSE b2[c].drive.start \in C /\ Matches(b2, b2[c].drive)
  <2>1. CASE b2[c] = Junk
    BY <2>1, JunkHas
  <2>2. CASE b2[c] = b[c]
    <3>1. /\ b[c].next # None => b[c].next \in C
          /\ c # first => b[c] = Junk \/ (b[c].drive.used /\ b[c].drive.start = c)
          /\ b[c].drive.used =>
                /\ b[c].drive.end <= last
                /\ IF b[c].drive.start = c
                   THEN b[c].next # None => b[c].drive.end < b[c].next
                   ELSE b[c].drive.start \in C /\ Matches(b, b[c].drive)
      BY DEF Closed
    <3> QED BY <2>2, <3>1 DEF Matches
  <2> QED BY <2>1, <2>2
<1> QED BY <1>1 DEF Closed

LEMMA Cut ==
    ASSUME BootInv, NEW gap, boot' = Swept(gap)
    PROVE  /\ \A c \in 1 .. TotalDisk - 1 : boot'[c] = boot[c] \/ boot'[c] = Junk
           /\ gap.space > 0 => \A c \in 1 .. TotalDisk - 1 : c = gap.start => boot'[c] = Junk
BY DEF BootInv, Swept

(* The cylinders of a partition have records.                               *)
LEMMA PartitionOnDisk ==
    ASSUME NEW table, SoundTable(table), NEW i \in PartIndexes, table[i].sys = "extended"
    PROVE  /\ table[i].start \in Int /\ table[i].end \in Int
           /\ 1 <= table[i].start /\ table[i].start <= table[i].end
           /\ \A c \in table[i].start .. table[i].end : c \in 1 .. TotalDisk - 1
<1>1. table[i].start \in Disk /\ table[i].end \in Disk /\ table[i].start >= 1
  BY DEF SoundTable, PartEntry
<1>2. table[i].start <= table[i].end
  BY DEF SoundTable, UsedIn
<1> QED BY <1>1, <1>2, IndexTypes DEF Disk

LEMMA ExtendedOnDisk ==
    ASSUME SoundTable(part), OfType("extended") # {}
    PROVE  /\ Extended.start \in Int /\ Extended.end \in Int
           /\ 1 <= Extended.start /\ Extended.start <= Extended.end
           /\ \A c \in Extended.start .. Extended.end : c \in 1 .. TotalDisk - 1
<1>1. PICK e : e \in OfType("extended")
  OBVIOUS
<1>2. Extended = part[e] /\ e \in PartIndexes /\ part[e].sys = "extended"
  BY <1>1, ExtendedIs DEF OfType
<1> QED BY <1>2, PartitionOnDisk

(* The disk's own chain under a sweep.                                      *)
LEMMA DiskKept ==
    ASSUME DiskInv, TablesInv, UNCHANGED master,
           \A c \in 1 .. TotalDisk - 1 : boot'[c] = boot[c] \/ boot'[c] = Junk
    PROVE  DiskInv'
<1> SUFFICES ASSUME NEW i \in PartIndexes, master[i].sys = "extended"
             PROVE  \E C : Closed(boot', master[i].start, master[i].end, C)
  BY DEF DiskInv
<1>1. PICK C : Closed(boot, master[i].start, master[i].end, C)
  BY DEF DiskInv
<1>2. \A c \in C : c \in 1 .. TotalDisk - 1
  BY <1>1, PartitionOnDisk DEF Closed, TablesInv
<1>3. Closed(boot', master[i].start, master[i].end, C)
  BY <1>1, <1>2, SweptClosed
<1> QED BY <1>3

(* The drives in memory under a sweep, with no drive added.                 *)
LEMMA MemoryKept ==
    ASSUME MemoryInv, SoundTable(part), pc # "writing", pc' # "reading",
           \A c \in 1 .. TotalDisk - 1 : boot'[c] = boot[c] \/ boot'[c] = Junk,
           OfType("extended")' # {} =>
              /\ OfType("extended") # {}
              /\ Extended'.start = Extended.start /\ Extended'.end = Extended.end,
           \A i \in Drives' : i \in Drives /\ ext'[i] = ext[i]
    PROVE  MemoryInv'
<1> SUFFICES ASSUME OfType("extended")' # {}
             PROVE  DrivesFit' /\ \E C : Linked(C)'
  BY DEF MemoryInv
<1>1. /\ OfType("extended") # {}
      /\ Extended'.start = Extended.start /\ Extended'.end = Extended.end
  OBVIOUS
<1>2. DrivesFit'
  BY <1>1 DEF MemoryInv, DrivesFit
<1>3. PICK C : Linked(C)
  BY <1>1 DEF MemoryInv
<1>4. Closed(boot, Extended.start, Extended.end, C)
  BY <1>3 DEF Linked
<1>5. Extended.start \in C /\ \A c \in C : c \in 1 .. TotalDisk - 1
  BY <1>1, <1>4, ExtendedOnDisk DEF Closed
<1>6. Closed(boot', Extended'.start, Extended'.end, C)
  BY <1>1, <1>4, <1>5, SweptClosed
<1>7. \A i \in Drives' : ext'[i].start \in C /\ Matches(boot', ext'[i])
  <2> SUFFICES ASSUME NEW i \in Drives' PROVE ext'[i].start \in C /\ Matches(boot', ext'[i])
    OBVIOUS
  <2>1. ext'[i] = ext[i] /\ ext[i].start \in C /\ Matches(boot, ext[i])
    BY <1>3 DEF Linked
  <2>2. boot'[ext[i].start] = boot[ext[i].start] \/ boot'[ext[i].start] = Junk
    BY <1>5, <2>1
  <2> QED BY <2>1, <2>2 DEF Matches
<1>8. Dummy' => \A i \in Drives' : ext'[i] = First' \/ First'.end < ext'[i].start
  <2> SUFFICES ASSUME Dummy', NEW i \in Drives'
               PROVE  ext'[i] = First' \/ First'.end < ext'[i].start
    OBVIOUS
  <2>1. boot'[Extended.start] = boot[Extended.start]
    <3>1. boot'[Extended.start].drive.used
      BY <1>1 DEF Dummy
    <3> QED BY <1>5, <3>1, JunkHas
  <2>2. Dummy /\ First' = First
    BY <1>1, <2>1 DEF Dummy, First
  <2>3. ext[i] = First \/ First.end < ext[i].start
    BY <1>3, <2>2 DEF Linked
  <2> QED BY <2>2, <2>3
<1>9. Linked(C)'
  BY <1>6, <1>7, <1>8 DEF Linked
<1> QED BY <1>2, <1>9

-----------------------------------------------------------------------------
(* The steps that make no drive and write no record *)

(* With nothing to write, nothing has an order.                             *)
LEMMA NothingOrdered ==
    ASSUME queue' = <<>>, pc' # "writing"
    PROVE  OrderInv'
<1>1. Len(queue') = 0
  OBVIOUS
<1> QED BY <1>1 DEF OrderInv

(* A table without an extended partition.                                   *)
LEMMA NoMemory ==
    ASSUME \A i \in PartIndexes : part'[i].sys # "extended"
    PROVE  MemoryInv'
BY DEF MemoryInv, OfType

LEMMA NoneExtended ==
    ASSUME OfType("extended") = {}
    PROVE  \A i \in PartIndexes : part[i].sys # "extended"
BY DEF OfType

LEMMA OneExtended ==
    ASSUME NEW table, SoundTable(table), NEW e \in PartIndexes, table[e].sys = "extended"
    PROVE  Min({i \in PartIndexes : table[i].sys = "extended"}) = e
<1> DEFINE S == {i \in PartIndexes : table[i].sys = "extended"}
<1>1. S \in SUBSET Nat /\ S # {}
  BY IndexTypes
<1>2. Min(S) \in S
  <2> HIDE DEF S
  <2> QED BY <1>1, LeastExists
<1>3. \A i \in S : i = e
  BY DEF SoundTable
<1> QED BY <1>2, <1>3

LEMMA JunkClosed ==
    ASSUME NEW b, NEW first \in Int, NEW last \in Int, first <= last, b[first] = Junk
    PROVE  Closed(b, first, last, {first})
BY JunkHas DEF Closed

LEMMA SpaceIsInt ==
    ASSUME SoundTable(part), Partitions # {}, NEW type
    PROVE  PartFreeSpace(type).space \in Int
<1> DEFINE n == Cardinality(Partitions)
           space == PartFreeSpace(type).space
<1>1. PICK k \in 0 .. n :
         /\ k = 0 => space = part[PartitionOrder[1]].start
         /\ k > 0 => space = Behind(k)
  BY PartFreeSpaceIs
<1> HIDE DEF space
<1>2. CASE k = 0
  <2>1. 1 \in 1 .. n
    BY PartitionOrderIs
  <2>2. part[PartitionOrder[1]].start \in Int
    BY <2>1, PartitionOrderIs, PartitionTypes DEF Disk
  <2> QED BY <1>1, <1>2, <2>2 DEF space
<1>3. CASE k # 0
  <2>1. k \in 1 .. n /\ k > 0
    BY <1>3, PartitionOrderIs
  <2> QED BY <1>1, <2>1, BehindIs DEF space
<1> QED BY <1>2, <1>3

LEMMA CreatePrimaryLink ==
    ASSUME IInv, LinkInv, CreatePrimary
    PROVE  LinkInv'
<1> USE DEF IInv, LinkInv
<1> DEFINE gap == PartFreeSpace("dos")
<1>1. /\ pc = "menu" /\ FreePartitions # {} /\ OfType("dos") = {} /\ boot' = Swept(gap)
      /\ UNCHANGED <<master, ext, pc, queue>>
  BY DEF CreatePrimary
<1>2. PICK size \in Sizes(gap) : IF size = 0 THEN UNCHANGED <<part, partChanged>>
                                 ELSE MakePartition(gap, size, FALSE, "dos")
  BY DEF CreatePrimary
<1>3. SoundTable(part) /\ partChanged \in SUBSET PartIndexes
  BY DEF TablesInv
<1>4. \A i \in PartIndexes : part[i].sys # "extended"
  BY <1>1, <1>3, NoDosNoExtended, NoneExtended
<1>5. \A i \in PartIndexes : part'[i].sys # "extended"
  <2>1. CASE size = 0
    BY <1>2, <1>4, <2>1
  <2>2. CASE size # 0
    <3>1. gap.space \in Nat
      BY <1>1, <1>3, PrimaryInFront
    <3>2. size \in Nat /\ size > 0 /\ size <= gap.space
      <4> HIDE DEF gap
      <4> QED BY <2>2, <3>1 DEF Sizes
    <3>3. MakePartition(gap, size, FALSE, "dos")
      BY <1>2, <2>2
    <3>4. \E j \in PartIndexes :
             /\ part'[j].sys = "dos"
             /\ \A k \in PartIndexes : k # j => part'[k].sys = part[k].sys
      BY <1>1, <1>3, <3>2, <3>3, Made
    <3> QED BY <1>4, <3>4
  <2> QED BY <2>1, <2>2
<1>6. MemoryInv'
  BY <1>5, NoMemory
<1>7. DiskInv'
  BY <1>1, Cut, DiskKept
<1>8. OrderInv'
  BY <1>1, NothingOrdered DEF QueueInv
<1> QED BY <1>6, <1>7, <1>8

LEMMA CreateMaximumLink ==
    ASSUME IInv, LinkInv, CreateMaximum
    PROVE  LinkInv'
<1> USE DEF IInv, LinkInv
<1> DEFINE gap == PartFreeSpace("dos")
<1>1. /\ pc = "menu" /\ FreePartitions # {} /\ OfType("dos") = {}
      /\ boot' = Swept(gap) /\ MakePartition(gap, gap.space, TRUE, "dos")
      /\ pc' = "writing" /\ queue' = InfoRecords(part', partChanged')
      /\ UNCHANGED <<master, ext>>
  BY DEF CreateMaximum
<1>2. SoundTable(part) /\ partChanged \in SUBSET PartIndexes
  BY DEF TablesInv
<1>3. OfType("extended") = {} /\ \A i \in PartIndexes : part[i].sys # "extended"
  BY <1>1, <1>2, NoDosNoExtended, NoneExtended
<1>4. /\ \A j \in PartIndexes : part'[j] # part[j] => j \in partChanged'
      /\ partChanged \subseteq partChanged'
      /\ part' \in [PartIndexes -> PartEntry]
      /\ \E j \in PartIndexes :
            /\ part'[j].sys = "dos"
            /\ \A k \in PartIndexes : k # j => part'[k].sys = part[k].sys
  <2>1. gap.space \in Nat /\ gap.space > 0 /\ gap.space <= gap.space
    <3>1. gap.space \in Nat /\ gap.space > 0
      BY <1>1, <1>2, PrimaryInFront
    <3> HIDE DEF gap
    <3> QED BY <3>1
  <2> QED BY <1>1, <1>2, <2>1, Made DEF SoundTable
<1>5. MemoryInv'
  <2>1. \A i \in PartIndexes : part'[i].sys # "extended"
    BY <1>3, <1>4
  <2> QED BY <2>1, NoMemory
<1>6. DiskInv'
  BY <1>1, Cut, DiskKept
<1>7. OrderInv'
  <2> DEFINE item == [at |-> 0, record |-> MasterRecord(part', partChanged')]
  <2>1. queue' = (IF partChanged' = {} THEN <<>> ELSE <<item>>) \o <<>>
    BY <1>1, <1>3 DEF InfoRecords
  <2>2. item.at = 0
    OBVIOUS
  <2> HIDE DEF item
  <2>3. CASE partChanged' = {}
    <3>1. queue' = <<>> /\ Len(queue') = 0
      BY <2>1, <2>3
    <3>2. part' = master'
      <4>1. \A j \in PartIndexes : part'[j] = master[j]
        BY <1>1, <1>4, <2>3 DEF TablesInv
      <4>2. master \in [PartIndexes -> PartEntry]
        BY DEF TablesInv, SoundTable
      <4> QED BY <1>1, <1>4, <4>1, <4>2
    <3> QED BY <3>1, <3>2 DEF OrderInv
  <2>4. CASE partChanged' # {}
    <3>1. queue' = <<item>>
      BY <2>1, <2>4
    <3>2. Len(queue') = 1 /\ queue'[1] = item
      BY <3>1
    <3>3. \A k \in 1 .. Len(queue') : k = 1
      BY <3>2
    <3>4. queue' # <<>>
      BY <3>1
    <3> QED BY <2>2, <3>2, <3>3, <3>4 DEF OrderInv
  <2> QED BY <2>3, <2>4
<1> QED BY <1>5, <1>6, <1>7

LEMMA CreateExtendedLink ==
    ASSUME IInv, IInv', LinkInv, CreateExtended
    PROVE  LinkInv'
<1> USE DEF IInv, LinkInv
<1> DEFINE gap == PartFreeSpace("extended")
<1>1. /\ pc = "menu" /\ FreePartitions # {} /\ OfType("dos") # {} /\ OfType("extended") = {}
      /\ boot' = Swept(gap) /\ UNCHANGED <<master, ext, queue>>
  BY DEF CreateExtended
<1>2. PICK size \in Sizes(gap) : IF size = 0 THEN UNCHANGED <<part, partChanged, pc>>
                                 ELSE /\ MakePartition(gap, size, FALSE, "extended")
                                      /\ pc' = "volumes"
  BY DEF CreateExtended
<1>3. SoundTable(part) /\ partChanged \in SUBSET PartIndexes
  BY DEF TablesInv
<1>4. DiskInv'
  BY <1>1, Cut, DiskKept
<1>5. pc' # "writing" /\ pc' # "reading"
  BY <1>1, <1>2
<1>6. OrderInv'
  BY <1>1, <1>5, NothingOrdered DEF QueueInv
<1>7. Drives = {} /\ Drives' = {}
  <2>1. Drives' = Drives
    BY <1>1 DEF Drives
  <2> QED BY <1>1, <2>1, NoExtendedNoDrive
<1>8. MemoryInv'
  <2>1. CASE size = 0
    <3>1. \A i \in PartIndexes : part'[i].sys # "extended"
      BY <1>1, <1>2, <2>1, NoneExtended
    <3> QED BY <3>1, NoMemory
  <2>2. CASE size # 0
    <3>1. size \in Nat /\ size > 0 /\ size <= gap.space /\ gap.space > 0
      <4>1. Partitions # {}
        BY <1>1 DEF Partitions, OfType
      <4>2. gap.space \in Int
        BY <1>3, <4>1, SpaceIsInt
      <4> HIDE DEF gap
      <4> QED BY <2>2, <4>2 DEF Sizes
    <3>2. MakePartition(gap, size, FALSE, "extended")
      BY <1>2, <2>2
    <3>3. PICK j \in PartIndexes : part'[j].sys = "extended" /\ part'[j].start = gap.start
      BY <1>1, <1>3, <3>1, <3>2, Made
    <3>4. SoundTable(part') /\ Extended' = part'[j] /\ OfType("extended")' # {}
      <4>1. SoundTable(part')
        BY DEF TablesInv
      <4>2. Min(OfType("extended")') = j
        BY <3>3, <4>1, OneExtended DEF OfType
      <4> QED BY <3>3, <4>1, <4>2 DEF Extended, OfType
    <3>5. /\ gap.start \in Int /\ Extended'.start = gap.start /\ Extended'.end \in Int
          /\ gap.start <= Extended'.end /\ gap.start \in 1 .. TotalDisk - 1
      <4> HIDE DEF gap
      <4>1. /\ part'[j].start \in Int /\ part'[j].end \in Int
            /\ part'[j].start <= part'[j].end
            /\ \A c \in part'[j].start .. part'[j].end : c \in 1 .. TotalDisk - 1
        BY <3>3, <3>4, PartitionOnDisk
      <4> QED BY <3>3, <3>4, <4>1
    <3>6. boot'[gap.start] = Junk
      BY <1>1, <3>1, <3>5, Cut
    <3> HIDE DEF gap
    <3>7. Closed(boot', Extended'.start, Extended'.end, {gap.start})
      BY <3>5, <3>6, JunkClosed
    <3>8. ~ Dummy'
      BY <3>5, <3>6, JunkHas DEF Dummy
    <3>9. PICK C : C = {gap.start}
      OBVIOUS
    <3>10. Linked(C)'
      BY <1>5, <1>7, <3>7, <3>8, <3>9 DEF Linked
    <3>11. DrivesFit'
      BY <1>7 DEF DrivesFit
    <3> QED BY <3>10, <3>11 DEF MemoryInv
  <2> QED BY <2>1, <2>2
<1> QED BY <1>4, <1>6, <1>8

LEMMA OpenVolumesLink ==
    ASSUME IInv, LinkInv, OpenVolumes
    PROVE  LinkInv'
<1> USE DEF IInv, LinkInv
<1>1. /\ pc = "menu" /\ pc' = "volumes" /\ UNCHANGED <<master, boot, part, ext, queue>>
  BY DEF OpenVolumes
<1>2. MemoryInv'
  <2>1. SoundTable(part)
    BY DEF TablesInv
  <2>2. OfType("extended")' = OfType("extended") /\ Extended' = Extended /\ Drives' = Drives
    BY <1>1 DEF OfType, Extended, Drives
  <2> QED BY <1>1, <2>1, <2>2, MemoryKept
<1>3. DiskInv'
  BY <1>1 DEF DiskInv
<1>4. OrderInv'
  BY <1>1, NothingOrdered DEF QueueInv
<1> QED BY <1>2, <1>3, <1>4

LEMMA DeletePartitionLink ==
    ASSUME IInv, LinkInv, DeletePrimary \/ DeleteExtended
    PROVE  LinkInv'
<1> USE DEF IInv, LinkInv
<1>1. PICK indexes : /\ Clear(indexes) /\ pc = "menu"
                     /\ OfType("extended") = {} \/ indexes = OfType("extended")
  BY DEF DeletePrimary, DeleteExtended
<1>2. UNCHANGED <<master, boot, ext, pc, queue>>
  BY <1>1 DEF Clear
<1>3. \A i \in PartIndexes : part'[i].sys # "extended"
  <2>1. \A i \in PartIndexes : part'[i] = IF i \in indexes THEN Unused ELSE part[i]
    BY <1>1 DEF Clear
  <2> QED BY <1>1, <2>1, UnusedIs DEF OfType
<1>4. MemoryInv'
  BY <1>3, NoMemory
<1>5. DiskInv'
  BY <1>2 DEF DiskInv
<1>6. OrderInv'
  BY <1>1, <1>2, NothingOrdered DEF QueueInv
<1> QED BY <1>4, <1>5, <1>6

LEMMA DeleteVolumesLink ==
    ASSUME IInv, LinkInv, DeleteVolumes
    PROVE  LinkInv'
<1> USE DEF IInv, LinkInv
<1>1. /\ pc = "menu" /\ UNCHANGED <<master, boot, part, pc, queue>>
      /\ \E chosen : ext' = [i \in 0 .. Slots |-> IF i \in chosen THEN NoDrive ELSE ext[i]]
  BY DEF DeleteVolumes
<1>2. PICK chosen : ext' = [i \in 0 .. Slots |-> IF i \in chosen THEN NoDrive ELSE ext[i]]
  BY <1>1
<1>3. MemoryInv'
  <2>1. SoundTable(part)
    BY DEF TablesInv
  <2>2. OfType("extended")' = OfType("extended") /\ Extended' = Extended
    BY <1>1 DEF OfType, Extended
  <2>3. \A i \in Drives' : i \in Drives /\ ext'[i] = ext[i]
    <3> SUFFICES ASSUME NEW i \in Drives' PROVE i \in Drives /\ ext'[i] = ext[i]
      OBVIOUS
    <3>1. i \in DriveIndexes /\ ext'[i].used /\ i \in 0 .. Slots
      BY IndexTypes DEF Drives, DriveIndexes
    <3>2. i \notin chosen /\ ext'[i] = ext[i]
      BY <1>2, <3>1, UnusedIs
    <3> QED BY <3>1, <3>2 DEF Drives
  <2> QED BY <1>1, <2>1, <2>2, <2>3, MemoryKept
<1>4. DiskInv'
  BY <1>1 DEF DiskInv
<1>5. OrderInv'
  BY <1>1, NothingOrdered DEF QueueInv
<1> QED BY <1>3, <1>4, <1>5

LEMMA ChangeActiveLink ==
    ASSUME IInv, LinkInv, ChangeActive
    PROVE  LinkInv'
<1> USE DEF IInv, LinkInv
<1>1. pc = "menu" /\ UNCHANGED <<master, boot, ext, pc, queue>>
  BY DEF ChangeActive
<1>2. SoundTable(part) /\ partChanged \in SUBSET PartIndexes
  BY DEF TablesInv
<1>3. \A j \in PartIndexes : /\ part'[j].sys = part[j].sys /\ part'[j].start = part[j].start
                             /\ part'[j].end = part[j].end
  BY <1>2, Activated
<1>4. MemoryInv'
  <2>1. OfType("extended")' = OfType("extended")
    BY <1>3 DEF OfType
  <2>2. ASSUME OfType("extended") # {}
        PROVE  Extended'.start = Extended.start /\ Extended'.end = Extended.end
    <3>1. Min(OfType("extended")) \in PartIndexes
      <4>1. OfType("extended") \in SUBSET Nat /\ OfType("extended") \subseteq PartIndexes
        BY IndexTypes DEF OfType
      <4> QED BY <2>2, <4>1, LeastExists
    <3>2. Extended' = part'[Min(OfType("extended"))]
      BY <2>1 DEF Extended
    <3> QED BY <1>3, <3>1, <3>2 DEF Extended
  <2>3. Drives' = Drives
    BY <1>1 DEF Drives
  <2> QED BY <1>1, <1>2, <2>1, <2>2, <2>3, MemoryKept
<1>5. DiskInv'
  BY <1>1 DEF DiskInv
<1>6. OrderInv'
  BY <1>1, NothingOrdered DEF QueueInv
<1> QED BY <1>4, <1>5, <1>6

LEMMA ForgetLink ==
    ASSUME LinkInv, Finish \/ PowerCut
    PROVE  LinkInv'
<1> USE DEF LinkInv
<1>1. /\ pc' = "off" /\ queue' = <<>> /\ part' = [i \in PartIndexes |-> Unused]
      /\ UNCHANGED <<master, boot>>
  BY DEF Finish, PowerCut, Forget
<1>2. \A i \in PartIndexes : part'[i].sys # "extended"
  BY <1>1, UnusedIs
<1>3. MemoryInv'
  BY <1>2, NoMemory
<1>4. DiskInv'
  BY <1>1 DEF DiskInv
<1>5. OrderInv'
  BY <1>1, NothingOrdered
<1> QED BY <1>3, <1>4, <1>5

LEMMA StutterLink ==
    ASSUME LinkInv, UNCHANGED vars
    PROVE  LinkInv'
<1>1. UNCHANGED <<master, boot, part, ext, pc, location, queue>>
  BY DEF vars, reading
<1>2. OfType("extended")' = OfType("extended") /\ Extended' = Extended /\ Drives' = Drives
  BY <1>1 DEF OfType, Extended, Drives
<1>3. MemoryInv'
  <2>1. \A C : Linked(C) => Linked(C)'
    BY <1>1, <1>2 DEF Linked, Dummy, First
  <2>2. DrivesFit => DrivesFit'
    BY <1>1, <1>2 DEF DrivesFit
  <2> QED BY <1>2, <2>1, <2>2 DEF LinkInv, MemoryInv
<1>4. DiskInv'
  BY <1>1 DEF LinkInv, DiskInv
<1>5. OrderInv'
  BY <1>1, <1>2 DEF LinkInv, OrderInv, DriveItem, DummyItem
<1> QED BY <1>3, <1>4, <1>5 DEF LinkInv

LEMMA InitLink ==
    ASSUME LayoutsFit, Init
    PROVE  LinkInv
<1>1. /\ master \in Foreign /\ part = [i \in PartIndexes |-> Unused]
      /\ pc = "off" /\ queue = <<>>
  BY DEF Init
<1>2. MemoryInv
  <2>1. \A i \in PartIndexes : part[i].sys # "extended"
    BY <1>1, UnusedIs
  <2> QED BY <2>1 DEF MemoryInv, OfType
<1>3. DiskInv
  <2>1. \A i \in PartIndexes : master[i].sys # "extended"
    BY <1>1, DiskAssumption
  <2> QED BY <2>1 DEF DiskInv
<1>4. OrderInv
  <2>1. Len(queue) = 0
    BY <1>1
  <2> QED BY <1>1, <2>1 DEF OrderInv
<1> QED BY <1>2, <1>3, <1>4 DEF LinkInv

LEMMA StartLink ==
    ASSUME IInv, IInv', LinkInv, Start
    PROVE  LinkInv'
<1> USE DEF IInv, LinkInv
<1> DEFINE extended == {i \in PartIndexes : master[i].sys = "extended"}
<1>1. /\ pc = "off" /\ part' = master /\ UNCHANGED <<master, boot, ext, queue>>
      /\ IF extended = {} THEN pc' = "menu"
         ELSE pc' = "reading" /\ location' = master[Min(extended)].start
  BY DEF Start
<1>2. ext = [i \in 0 .. Slots |-> NoDrive] /\ queue = <<>>
  BY <1>1 DEF QueueInv
<1>3. Drives' = {}
  <2>1. Drives' = Drives
    BY <1>1 DEF Drives
  <2> QED BY <1>2, <2>1, BlankDrives
<1>4. DiskInv'
  BY <1>1 DEF DiskInv
<1>5. OrderInv'
  BY <1>1, <1>2, NothingOrdered
<1>6. MemoryInv'
  <2>1. CASE extended = {}
    BY <1>1, <2>1, NoMemory
  <2>2. CASE extended # {}
    <3>1. PICK e \in PartIndexes : master[e].sys = "extended"
      BY <2>2
    <3>2. SoundTable(master) /\ Min(extended) = e
      BY <3>1, OneExtended DEF TablesInv
    <3>3. Extended' = master[e] /\ location' = master[e].start /\ pc' = "reading"
      BY <1>1, <2>2, <3>2 DEF Extended, OfType
    <3>4. PICK C : Closed(boot, master[e].start, master[e].end, C)
      BY <3>1 DEF DiskInv
    <3>5. Closed(boot, Extended.start, Extended.end, C)'
      BY <1>1, <3>3, <3>4
    <3>6. location' \in C /\ location' = Extended'.start
      BY <3>3, <3>4 DEF Closed
    <3>7. Linked(C)'
      BY <1>3, <3>3, <3>5, <3>6 DEF Linked
    <3>8. DrivesFit'
      BY <1>3 DEF DrivesFit
    <3> QED BY <3>7, <3>8 DEF MemoryInv
  <2> QED BY <2>1, <2>2
<1> QED BY <1>4, <1>5, <1>6

-----------------------------------------------------------------------------
(* Reading the chain *)

(* What one turn of the loop of init_partition_tables finds on a closed     *)
(* chain: a drive behind the ones found so far, and a record behind it.     *)
LEMMA FoundBehind ==
    ASSUME IInv, NEW C, Linked(C), DrivesFit, pc = "reading", NEW d, NEW next,
           d = boot[location].drive, next = Followed(boot[location]).next
    PROVE  /\ next # None =>
                 /\ next \in C /\ location < next
                 /\ d.used => d.end < next
                 /\ Dummy => First.end < next
           /\ d.used =>
                 /\ d.end <= Extended.end /\ d.start \in C /\ Matches(boot, d)
                 /\ Dummy => d = First \/ First.end < d.start
                 /\ \A i \in Drives : ext[i].end < d.start
<1> USE DEF IInv
<1> DEFINE first == Extended.start
           last == Extended.end
<1>1. /\ location \in C /\ location \in Int /\ first \in Int /\ first <= location
      /\ first \in C /\ \A c \in C : c \in 1 .. TotalDisk - 1 /\ first <= c
  <2>1. OfType("extended") # {} /\ SoundTable(part)
    BY DEF ReadingInv, TablesInv
  <2>2. first \in Int /\ last \in Int /\ \A c \in first .. last : c \in 1 .. TotalDisk - 1
    BY <2>1, ExtendedOnDisk
  <2>3. C \subseteq first .. last /\ first \in C /\ location \in C
    BY DEF Linked, Closed
  <2> QED BY <2>2, <2>3
<1>2. \A c \in C : /\ boot[c].next # None => boot[c].next \in C
                   /\ c # first => boot[c] = Junk \/ (boot[c].drive.used /\ boot[c].drive.start = c)
                   /\ boot[c].drive.used =>
                         /\ boot[c].drive.end <= last
                         /\ IF boot[c].drive.start = c
                            THEN boot[c].next # None => boot[c].drive.end < boot[c].next
                            ELSE boot[c].drive.start \in C /\ Matches(boot, boot[c].drive)
  BY DEF Linked, Closed
<1>3. \A c \in C : /\ boot[c].drive.start \in Int /\ boot[c].drive.end \in Int
                   /\ boot[c].drive.used \in BOOLEAN /\ boot[c].next \in Int
                   /\ boot[c].next # None => c < boot[c].next
                   /\ boot[c].drive.used =>
                         c <= boot[c].drive.start /\ boot[c].drive.start <= boot[c].drive.end
  <2> SUFFICES ASSUME NEW c \in C
               PROVE  /\ boot[c].drive.start \in Int /\ boot[c].drive.end \in Int
                      /\ boot[c].drive.used \in BOOLEAN /\ boot[c].next \in Int
                      /\ boot[c].next # None => c < boot[c].next
                      /\ boot[c].drive.used =>
                            c <= boot[c].drive.start /\ boot[c].drive.start <= boot[c].drive.end
    OBVIOUS
  <2>1. c \in 1 .. TotalDisk - 1
    BY <1>1
  <2>2. boot[c] \in Record /\ Onward(c, boot[c])
    BY <2>1 DEF BootInv
  <2> QED BY <2>2, IndexTypes DEF Record, Drive, Disk, None, Onward
<1>4. \A i \in Drives : /\ ext[i].start \in Int /\ ext[i].end \in Int
                        /\ first <= ext[i].start /\ ext[i].start <= ext[i].end
                        /\ ext[i].end < location
  <2>1. \A i \in Drives : ext[i] \in Drive
    BY DriveOrderIs
  <2>2. \A i \in Drives : ext[i].start \in Int /\ ext[i].end \in Int
    BY <2>1, IndexTypes DEF Drive, Disk
  <2> QED BY <2>2 DEF DrivesInv, Linked
<1>5. Dummy /\ location # first => First.end < location
  BY DEF Linked
<1>6. Dummy => First.end \in Int
  BY <1>1, <1>3 DEF First
<1> HIDE DEF first, last, IInv
<1>7. CASE ~ d.used
  <2>1. next = boot[location].next
    BY <1>7 DEF Followed
  <2>2. Dummy => location # first
    BY <1>7 DEF Dummy, first
  <2>3. next # None => next \in C /\ location < next
    BY <1>1, <1>2, <1>3, <2>1
  <2> QED BY <1>1, <1>3, <1>5, <1>6, <1>7, <2>1, <2>2, <2>3
<1>8. CASE d.used /\ d.start = location
  <2>1. next = boot[location].next
    BY <1>8 DEF Followed
  <2>2. Dummy => First.end < location
    BY <1>5, <1>8 DEF Dummy, first
  <2>3. next # None => next \in C /\ location < next /\ d.end < next
    BY <1>1, <1>2, <1>3, <1>8, <2>1
  <2>4. d.end <= last /\ Matches(boot, d)
    BY <1>1, <1>2, <1>8 DEF Matches
  <2>5. next \in Int
    BY <1>1, <1>3, <2>1
  <2> QED BY <1>1, <1>4, <1>6, <1>8, <2>2, <2>3, <2>4, <2>5 DEF last
<1>9. CASE d.used /\ d.start # location
  <2>1. location = first
    BY <1>1, <1>2, <1>9, JunkHas
  <2>2. First = d
    BY <2>1 DEF First, first
  <2>3. d.start \in C /\ Matches(boot, d) /\ d.end <= last /\ d.start \in Int
    BY <1>1, <1>2, <1>3, <1>9
  <2>4. next = boot[d.start].next
    BY <1>9 DEF Followed
  <2>5. ASSUME next # None
        PROVE  next \in C /\ d.start < next /\ d.end < next /\ next \in Int
    <3>1. boot[d.start] # Junk
      BY <2>4, <2>5, JunkHas
    <3>2. boot[d.start].drive = d /\ boot[d.start].drive.used
      BY <1>9, <2>3, <3>1 DEF Matches
    <3> QED BY <1>2, <1>3, <2>3, <2>4, <2>5, <3>2
  <2>6. location <= d.start
    BY <1>1, <1>3, <1>9
  <2>7. \A i \in Drives : FALSE
    BY <1>1, <1>4, <2>1
  <2>8. next # None => location < next
    BY <1>1, <2>3, <2>5, <2>6
  <2> QED BY <1>9, <2>2, <2>3, <2>5, <2>7, <2>8 DEF last
<1>10. d.used \in BOOLEAN
  BY <1>1, <1>3
<1> QED BY <1>7, <1>8, <1>9, <1>10

LEMMA ReadRecordLink ==
    ASSUME IInv, LinkInv, ReadRecord
    PROVE  LinkInv'
<1> USE DEF IInv, LinkInv
<1> DEFINE d == boot[location].drive
           next == Followed(boot[location]).next
<1>1. /\ pc = "reading"
      /\ ext' = [i \in 0 .. Slots |-> IF i = count THEN d ELSE ext[i]]
      /\ location' = next
      /\ IF next = None THEN pc' = "menu" ELSE UNCHANGED pc
      /\ UNCHANGED <<master, boot, part, queue>>
  BY DEF ReadRecord
<1>2. OfType("extended") # {}
  BY <1>1 DEF ReadingInv
<1>3. DrivesFit /\ \E C : Linked(C)
  BY <1>2 DEF MemoryInv
<1>4. PICK C : Linked(C)
  BY <1>3
<1>5. /\ next # None =>
            /\ next \in C /\ location < next
            /\ d.used => d.end < next
            /\ Dummy => First.end < next
      /\ d.used =>
            /\ d.end <= Extended.end /\ d.start \in C /\ Matches(boot, d)
            /\ Dummy => d = First \/ First.end < d.start
            /\ \A i \in Drives : ext[i].end < d.start
  BY <1>1, <1>3, <1>4, FoundBehind
<1> HIDE DEF d, next
<1>6. /\ OfType("extended")' = OfType("extended") /\ Extended' = Extended
      /\ Dummy' = Dummy /\ First' = First
  BY <1>1 DEF OfType, Extended, Dummy, First
<1>7. \A i \in Drives' :
         \/ i = count /\ ext'[i] = d /\ d.used
         \/ i # count /\ i \in Drives /\ ext'[i] = ext[i]
  <2> SUFFICES ASSUME NEW i \in Drives'
               PROVE  \/ i = count /\ ext'[i] = d /\ d.used
                      \/ i # count /\ i \in Drives /\ ext'[i] = ext[i]
    OBVIOUS
  <2>1. i \in DriveIndexes /\ ext'[i].used
    BY DEF Drives
  <2>2. i \in 0 .. Slots
    BY <2>1, IndexTypes DEF DriveIndexes
  <2>3. ext'[i] = IF i = count THEN d ELSE ext[i]
    BY <1>1, <2>2
  <2> QED BY <2>1, <2>3 DEF Drives
<1>8. DrivesFit'
  <2>1. \A i \in Drives' : ext'[i].end <= Extended'.end
    BY <1>3, <1>5, <1>6, <1>7 DEF DrivesFit
  <2>2. ASSUME NEW i \in Drives', NEW j \in Drives', i # j
        PROVE  ext'[i].end < ext'[j].start \/ ext'[j].end < ext'[i].start
    <3>1. CASE i = count
      BY <1>5, <1>7, <2>2, <3>1
    <3>2. CASE j = count
      BY <1>5, <1>7, <2>2, <3>2
    <3>3. CASE i # count /\ j # count
      BY <1>3, <1>7, <2>2, <3>3 DEF DrivesFit
    <3> QED BY <3>1, <3>2, <3>3
  <2> QED BY <2>1, <2>2 DEF DrivesFit
<1>9. Linked(C)'
  <2>1. Closed(boot, Extended.start, Extended.end, C)'
    BY <1>1, <1>4, <1>6 DEF Linked
  <2>2. \A i \in Drives' : ext'[i].start \in C /\ Matches(boot', ext'[i])
    BY <1>1, <1>4, <1>5, <1>7 DEF Linked
  <2>3. Dummy' => \A i \in Drives' : ext'[i] = First' \/ First'.end < ext'[i].start
    BY <1>1, <1>4, <1>5, <1>6, <1>7 DEF Linked
  <2>4. ASSUME pc' = "reading"
        PROVE  /\ location' \in C
               /\ \A i \in Drives' : ext'[i].end < location'
               /\ Dummy' /\ location' # Extended'.start => First'.end < location'
    <3>1. next # None /\ location' = next
      BY <1>1, <2>4
    <3>2. ASSUME NEW i \in Drives' PROVE ext'[i].end < next
      <4>1. CASE ext'[i] = d /\ d.used
        BY <1>5, <3>1, <4>1
      <4>2. CASE i \in Drives /\ ext'[i] = ext[i]
        <5>1. ext[i].end < location /\ location < next
          BY <1>1, <1>4, <1>5, <3>1, <4>2 DEF Linked
        <5>2. ext[i].end \in Int /\ location \in Int /\ next \in Int
          <6>1. ext[i] \in Drive
            BY <4>2, DriveOrderIs
          <6>2. next \in Int
            <7>1. C \subseteq Extended.start .. Extended.end /\ next \in C
              BY <1>4, <1>5, <3>1 DEF Linked, Closed
            <7> QED BY <7>1
          <6>3. location \in Int
            BY <1>1 DEF ReadingInv
          <6> QED BY <6>1, <6>2, <6>3, IndexTypes DEF Drive, Disk
        <5> QED BY <4>2, <5>1, <5>2
      <4> QED BY <1>7, <4>1, <4>2
    <3> QED BY <1>5, <1>6, <3>1, <3>2
  <2> QED BY <2>1, <2>2, <2>3, <2>4 DEF Linked
<1>10. MemoryInv'
  BY <1>8, <1>9 DEF MemoryInv
<1>11. DiskInv'
  BY <1>1 DEF DiskInv
<1>12. OrderInv'
  <2>1. queue' = <<>> /\ pc' # "writing"
    BY <1>1 DEF QueueInv
  <2> QED BY <2>1, NothingOrdered
<1> QED BY <1>10, <1>11, <1>12

-----------------------------------------------------------------------------
(* Making a logical drive *)

(* As long as the drives fit the extended partition, so does the free space *)
(* that find_ext_free_space hands out.                                      *)
LEMMA VolumeFits ==
    ASSUME SoundTable(part), DrivesInv, OfType("extended") # {}, DrivesFit,
           NEW size \in Nat, size > 0, size <= ExtFreeSpace.space
    PROVE  /\ ExtFreeSpace.start \in Extended.start .. Extended.end
           /\ ExtFreeSpace.start + size - 1 <= Extended.end
           /\ \A i \in Drives : \/ ext[i].end < ExtFreeSpace.start
                               \/ ExtFreeSpace.start + size - 1 < ext[i].start
           /\ \/ ExtFreeSpace.start = Extended.start
              \/ \E i \in Drives : ExtFreeSpace.start = ext[i].end + 1
<1> DEFINE gap == ExtFreeSpace
           last == gap.start + size - 1
<1>1. /\ gap.start \in Int
      /\ gap.start = Extended.start \/ \E i \in Drives : gap.start = ext[i].end + 1
      /\ \A i \in Drives : ext[i].start < gap.start \/ last < ext[i].start
      /\ last <= Extended.end \/ \E i \in Drives : last < ext[i].start
  BY ExtFreeIs
<1>2. last \in Int /\ gap.start <= last
  BY <1>1
<1> HIDE DEF gap, last
<1>3. Extended.start \in Int /\ Extended.end \in Int
  BY ExtendedOnDisk
<1>4. ASSUME NEW i \in Drives
      PROVE  /\ ext[i].start \in Int /\ ext[i].end \in Int
             /\ Extended.start <= ext[i].start /\ ext[i].start <= ext[i].end
             /\ ext[i].end <= Extended.end
  <2>1. ext[i] \in Drive
    BY DriveOrderIs
  <2> QED BY <2>1, IndexTypes DEF DrivesInv, Drive, Disk, DrivesFit
<1>5. last <= Extended.end /\ gap.start <= Extended.end
  BY <1>1, <1>2, <1>3, <1>4
<1>6. Extended.start <= gap.start
  BY <1>1, <1>3, <1>4
<1>7. ASSUME NEW i \in Drives
      PROVE  ext[i].end < gap.start \/ last < ext[i].start
  <2>1. CASE last < ext[i].start
    BY <2>1
  <2>2. CASE ext[i].start < gap.start
    <3>1. PICK j \in Drives : gap.start = ext[j].end + 1
      BY <1>1, <1>3, <1>4, <2>2
    <3>2. CASE i = j
      BY <1>4, <3>1, <3>2
    <3>3. CASE i # j
      <4>1. ext[i].end < ext[j].start \/ ext[j].end < ext[i].start
        BY <3>3 DEF DrivesFit
      <4> QED BY <1>1, <1>4, <2>2, <3>1, <4>1
    <3> QED BY <3>2, <3>3
  <2> QED BY <1>1, <2>1, <2>2
<1> QED BY <1>1, <1>3, <1>5, <1>6, <1>7 DEF gap, last

LEMMA JunkJoins ==
    ASSUME NEW b, NEW first, NEW last, NEW C, Closed(b, first, last, C),
           NEW g \in first .. last, b[g] = Junk
    PROVE  Closed(b, first, last, C \cup {g})
BY JunkHas DEF Closed

LEMMA VolumeLinked ==
    ASSUME IInv, NEW C, Linked(C), DrivesFit, OfType("extended") # {},
           pc # "writing", pc' # "reading", UNCHANGED part,
           NEW size \in Nat, size > 0, size <= ExtFreeSpace.space, FreeDrives # {},
           boot' = Swept(ExtFreeSpace), MakeVolume(ExtFreeSpace, size)
    PROVE  MemoryInv'
<1> USE DEF IInv
<1> DEFINE g == ExtFreeSpace.start
           first == Extended.start
           last == Extended.end
<1>1. /\ g \in first .. last /\ g + size - 1 <= last
      /\ \A i \in Drives : ext[i].end < g \/ g + size - 1 < ext[i].start
      /\ g = first \/ \E i \in Drives : g = ext[i].end + 1
  BY VolumeFits DEF TablesInv
<1>2. PICK x : /\ Drives' = Drives \cup {x} /\ x \notin Drives
               /\ ext'[x].start = g /\ ext'[x].end = g + size - 1
               /\ \A j \in Drives : ext'[j] = ext[j]
  BY VolumeMade DEF TablesInv
<1>3. \A c \in first .. last : /\ boot'[c] = boot[c] \/ boot'[c] = Junk
                               /\ c = g => boot'[c] = Junk
  <2>1. ExtFreeSpace.space > 0
    <3>1. ExtFreeSpace.space \in Int
      BY ExtFreeIs DEF TablesInv
    <3> QED BY <3>1
  <2>2. \A c \in first .. last : c \in 1 .. TotalDisk - 1
    BY ExtendedOnDisk DEF TablesInv
  <2> QED BY <2>1, <2>2, Cut
<1> HIDE DEF g, IInv
<1>4. OfType("extended")' = OfType("extended") /\ Extended' = Extended
  BY DEF OfType, Extended
<1>5. DrivesFit'
  <2>1. \A i \in Drives' : ext'[i].end <= Extended'.end
    BY <1>1, <1>2, <1>4 DEF DrivesFit
  <2>2. ASSUME NEW i \in Drives', NEW j \in Drives', i # j
        PROVE  ext'[i].end < ext'[j].start \/ ext'[j].end < ext'[i].start
    <3>1. CASE i = x
      BY <1>1, <1>2, <2>2, <3>1
    <3>2. CASE j = x
      BY <1>1, <1>2, <2>2, <3>2
    <3>3. CASE i # x /\ j # x
      BY <1>2, <2>2, <3>3 DEF DrivesFit
    <3> QED BY <3>1, <3>2, <3>3
  <2> QED BY <2>1, <2>2 DEF DrivesFit
<1>6. C \subseteq first .. last /\ first \in first .. last
  BY DEF Linked, Closed
<1>7. PICK D : D = C \cup {g}
  OBVIOUS
<1>8. Closed(boot', first, last, D)
  <2>1. Closed(boot, first, last, C)
    BY DEF Linked
  <2>2. Closed(boot', first, last, C)
    BY <1>3, <1>6, <2>1, SweptClosed
  <2> QED BY <1>1, <1>3, <1>7, <2>2, JunkJoins
<1>9. ASSUME NEW i \in Drives'
      PROVE  ext'[i].start \in D /\ Matches(boot', ext'[i])
  <2>1. CASE i = x
    BY <1>1, <1>2, <1>3, <1>7, <2>1 DEF Matches
  <2>2. CASE i \in Drives
    <3>1. ext'[i] = ext[i] /\ ext[i].start \in C /\ Matches(boot, ext[i])
      BY <1>2, <2>2 DEF Linked
    <3>2. boot'[ext[i].start] = boot[ext[i].start] \/ boot'[ext[i].start] = Junk
      BY <1>3, <1>6, <3>1
    <3> QED BY <1>7, <3>1, <3>2 DEF Matches
  <2> QED BY <1>2, <2>1, <2>2
<1>10. ASSUME Dummy', NEW i \in Drives'
       PROVE  ext'[i] = First' \/ First'.end < ext'[i].start
  <2>1. boot'[first].drive.used
    BY <1>4, <1>10 DEF Dummy
  <2>2. boot'[first] = boot[first] /\ g # first
    BY <1>3, <1>6, <2>1, JunkHas
  <2>3. Dummy /\ First' = First
    BY <1>4, <1>10, <2>2 DEF Dummy, First
  <2>4. \A j \in Drives : ext[j] = First \/ First.end < ext[j].start
    BY <2>3 DEF Linked
  <2>5. CASE i = x
    <3>1. PICK j \in Drives : g = ext[j].end + 1
      BY <1>1, <2>2
    <3>2. ext[j] \in Drive /\ ext[j].start <= ext[j].end
      BY DriveOrderIs DEF IInv, DrivesInv
    <3>3. ext[j].start \in Int /\ ext[j].end \in Int
      BY <3>2, IndexTypes DEF Drive, Disk
    <3>4. First.end \in Int
      <4>1. first \in 1 .. TotalDisk - 1
        BY <1>6, ExtendedOnDisk DEF IInv, TablesInv
      <4>2. boot[first] \in Record
        BY <4>1 DEF IInv, BootInv
      <4> QED BY <4>2, IndexTypes DEF Record, Drive, Disk, First
    <3>5. First.end < g
      BY <2>4, <3>1, <3>2, <3>3, <3>4
    <3> QED BY <1>2, <2>3, <2>5, <3>5
  <2>6. CASE i \in Drives
    BY <1>2, <2>3, <2>4, <2>6
  <2> QED BY <1>2, <2>5, <2>6
<1>11. Linked(D)'
  BY <1>4, <1>8, <1>9, <1>10 DEF Linked
<1> QED BY <1>5, <1>11 DEF MemoryInv

LEMMA CreateVolumeLink ==
    ASSUME IInv, LinkInv, CreateVolume
    PROVE  LinkInv'
<1> USE DEF IInv, LinkInv
<1> DEFINE dos == IF OfType("dos") = {} THEN 0 ELSE 1
           letters == Cardinality(Drives) + dos
           gap == ExtFreeSpace
<1>1. /\ pc = "volumes" /\ UNCHANGED <<master, part, queue>>
      /\ IF letters > Slots THEN pc' = "menu" /\ UNCHANGED <<boot, ext>>
         ELSE /\ boot' = Swept(gap)
              /\ \E size \in Sizes(gap) : IF size = 0 THEN pc' = "menu" /\ UNCHANGED ext
                                          ELSE MakeVolume(gap, size) /\ UNCHANGED pc
  BY DEF CreateVolume
<1>2. SoundTable(part) /\ OfType("extended") # {}
  BY <1>1 DEF TablesInv, ReadingInv
<1>3. pc' \in {"menu", "volumes"}
  BY <1>1
<1>4. OrderInv'
  BY <1>1, <1>3, NothingOrdered DEF QueueInv
<1>5. \A c \in 1 .. TotalDisk - 1 : boot'[c] = boot[c] \/ boot'[c] = Junk
  <2>1. CASE letters > Slots
    BY <1>1, <2>1
  <2>2. CASE ~ (letters > Slots)
    BY <1>1, <2>2, Cut
  <2> QED BY <2>1, <2>2
<1>6. DiskInv'
  BY <1>1, <1>5, DiskKept
<1>7. UNCHANGED ext => MemoryInv'
  <2>1. OfType("extended")' = OfType("extended") /\ Extended' = Extended
    BY <1>1 DEF OfType, Extended
  <2>2. UNCHANGED ext => Drives' = Drives
    BY DEF Drives
  <2> QED BY <1>1, <1>2, <1>3, <1>5, <2>1, <2>2, MemoryKept
<1>8. MemoryInv'
  <2>1. CASE letters > Slots
    BY <1>1, <1>7, <2>1
  <2>2. CASE ~ (letters > Slots)
    <3>1. PICK size \in Sizes(gap) : IF size = 0 THEN pc' = "menu" /\ UNCHANGED ext
                                     ELSE MakeVolume(gap, size) /\ UNCHANGED pc
      BY <1>1, <2>2
    <3>2. CASE size = 0
      BY <1>7, <3>1, <3>2
    <3>3. CASE size # 0
      <4>1. MakeVolume(gap, size)
        BY <1>1, <3>1, <3>3
      <4>2. size \in Nat /\ size > 0 /\ size <= gap.space
        <5> HIDE DEF gap
        <5> QED BY <3>3 DEF Sizes
      <4>3. OfType("dos") # {}
        BY <1>2, ExtendedIs
      <4>4. Cardinality(Drives) < Slots
        <5>1. Cardinality(Drives) \in Nat /\ Slots \in Nat
          BY DriveOrderIs, IndexTypes
        <5> QED BY <2>2, <4>3, <5>1
      <4>5. FreeDrives # {}
        BY <4>4, DriveLeft
      <4>6. DrivesFit /\ \E C : Linked(C)
        BY <1>2 DEF MemoryInv
      <4>7. PICK C : Linked(C)
        BY <4>6
      <4>8. pc # "writing" /\ pc' # "reading" /\ boot' = Swept(gap) /\ UNCHANGED part
        BY <1>1, <1>3, <2>2
      <4> HIDE DEF LinkInv
      <4> QED BY <1>2, <4>1, <4>2, <4>5, <4>6, <4>7, <4>8, VolumeLinked
    <3> QED BY <3>2, <3>3
  <2> QED BY <2>1, <2>2
<1> QED BY <1>4, <1>6, <1>8

-----------------------------------------------------------------------------
(* Queueing the records *)

(* The chain that write_info_to_disk queues: a drive leads to the next one, *)
(* which starts behind it.                                                  *)
LEMMA DriveRecordsOrdered ==
    ASSUME SoundTable(part), DrivesInv, DrivesFit, OfType("extended") # {}
    PROVE  \A k \in 1 .. Len(DriveRecords) : DriveRecords[k].at # 0 /\ DriveItem(DriveRecords[k])
<1> DEFINE n == Cardinality(Drives)
           o == DriveOrder
           next(k) == IF k + 1 > n THEN None ELSE ext[o[k + 1]].start
<1>1. /\ n \in Nat /\ o \in [1 .. n -> Drives] /\ Len(o) = n
      /\ \A k, l \in 1 .. n : k < l => ext[o[k]].start < ext[o[l]].start
      /\ \A i \in Drives : ext[i] \in Drive
  BY DriveOrderIs
<1>2. DriveRecords = [k \in 1 .. n |-> [at |-> ext[o[k]].start,
                                       record |-> [drive |-> ext[o[k]], next |-> next(k)]]]
  BY <1>1 DEF DriveRecords, ExtRecord
<1> HIDE DEF n, o, next
<1>3. \A k \in 1 .. n : /\ DriveRecords[k].at = ext[o[k]].start
                        /\ DriveRecords[k].record.drive = ext[o[k]]
                        /\ DriveRecords[k].record.next = next(k)
  BY <1>2
<1>4. Len(DriveRecords) = n
  BY <1>1, <1>2
<1>5. Extended.start \in Int /\ Extended.start >= 1
  BY ExtendedOnDisk
<1>6. \A i \in Drives : /\ ext[i].start \in Int /\ ext[i].end \in Int
                        /\ Extended.start <= ext[i].start /\ ext[i].start <= ext[i].end
  <2>1. \A i \in Drives : ext[i].start \in Int /\ ext[i].end \in Int
    BY <1>1, IndexTypes DEF Drive, Disk
  <2> QED BY <2>1 DEF DrivesInv
<1>7. ASSUME NEW k \in 1 .. n
      PROVE  DriveRecords[k].at # 0 /\ DriveItem(DriveRecords[k])
  <2>1. o[k] \in Drives
    BY <1>1
  <2>2. DriveRecords[k].at # 0
    BY <1>3, <1>5, <1>6, <2>1
  <2>3. ASSUME next(k) # None
        PROVE  \E j \in Drives : next(k) = ext[j].start /\ ext[o[k]].end < ext[j].start
    <3>1. k + 1 \in 1 .. n /\ next(k) = ext[o[k + 1]].start
      BY <1>1, <2>3 DEF next
    <3>2. o[k + 1] \in Drives /\ ext[o[k]].start < ext[o[k + 1]].start
      BY <1>1, <3>1
    <3>3. o[k] # o[k + 1]
      BY <1>6, <2>1, <3>2
    <3>4. ext[o[k]].end < ext[o[k + 1]].start \/ ext[o[k + 1]].end < ext[o[k]].start
      BY <2>1, <3>2, <3>3 DEF DrivesFit
    <3>5. ext[o[k]].end < ext[o[k + 1]].start
      BY <1>6, <2>1, <3>2, <3>4
    <3> QED BY <3>1, <3>2, <3>5
  <2>4. DriveItem(DriveRecords[k])
    BY <1>3, <2>1, <2>3 DEF DriveItem
  <2> QED BY <2>2, <2>4
<1> QED BY <1>4, <1>7

LEMMA DummyRecordOrdered ==
    ASSUME SoundTable(part), DrivesInv, OfType("extended") # {}, DummyRecord # <<>>
    PROVE  \E item : DummyRecord = <<item>> /\ item.at # 0 /\ DummyItem(item)
<1> DEFINE n == Cardinality(Drives)
           o == DriveOrder
           temp == IF o = <<>> THEN 0 ELSE o[1]
           next == IF 1 > n THEN None ELSE ext[o[1]].start
           item == [at |-> Extended.start, record |-> [drive |-> ext[0], next |-> next]]
<1>1. /\ n \in Nat /\ o \in [1 .. n -> Drives] /\ Len(o) = n
      /\ \A k, l \in 1 .. n : k < l => ext[o[k]].start < ext[o[l]].start
      /\ \A i \in Drives : \E k \in 1 .. n : o[k] = i
      /\ \A i \in Drives : ext[i] \in Drive
  BY DriveOrderIs
<1>2. temp # 0 /\ ext[temp].start # Extended.start
  BY DEF DummyRecord
<1>3. o # <<>> /\ temp = o[1]
  BY <1>2
<1>4. DummyRecord = <<item>>
  BY <1>1, <1>2 DEF DummyRecord, ExtRecord
<1> HIDE DEF temp, next, o, n
<1>5. 1 \in 1 .. n /\ o[1] \in Drives
  <2>1. n > 0
    <3> SUFFICES ASSUME ~ (n > 0) PROVE FALSE
      OBVIOUS
    <3>1. 1 .. n = {}
      BY <1>1
    <3>2. Len(o) = 0 /\ o \in Seq(Drives)
      BY <1>1, <3>1
    <3> QED BY <1>3, <3>2
  <2> QED BY <1>1, <2>1
<1>6. item.at = Extended.start /\ item.record.drive = ext[0] /\ item.record.next = next
  OBVIOUS
<1> HIDE DEF item
<1>7. Extended.start \in Int /\ Extended.start >= 1
  BY ExtendedOnDisk
<1>8. \A i \in Drives : ext[i].start \in Int /\ Extended.start <= ext[i].start
  <2>1. \A i \in Drives : ext[i].start \in Int
    BY <1>1, IndexTypes DEF Drive, Disk
  <2> QED BY <2>1 DEF DrivesInv
<1>9. ASSUME NEW i \in Drives PROVE ext[i].start # Extended.start
  <2>1. PICK k \in 1 .. n : o[k] = i
    BY <1>1
  <2>2. k = 1 \/ 1 < k
    BY <1>1
  <2>3. ext[o[1]].start <= ext[i].start
    <3>1. CASE k = 1
      BY <1>8, <2>1, <3>1
    <3>2. CASE 1 < k
      <4>1. ext[o[1]].start < ext[o[k]].start
        BY <1>1, <1>5, <3>2
      <4> QED BY <1>5, <1>8, <2>1, <4>1
    <3> QED BY <2>2, <3>1, <3>2
  <2>4. ext[o[1]].start # Extended.start
    BY <1>2, <1>3
  <2> QED BY <1>5, <1>7, <1>8, <2>3, <2>4
<1>10. next # None => \E j \in Drives : next = ext[j].start
  BY <1>5 DEF next
<1>11. item.at # 0 /\ DummyItem(item)
  BY <1>6, <1>7, <1>9, <1>10 DEF DummyItem
<1> QED BY <1>4, <1>11

LEMMA ChainOrdered ==
    ASSUME SoundTable(part), DrivesInv, DrivesFit, OfType("extended") # {},
           NEW chain, chain = DriveRecords \o DummyRecord, NEW k \in 1 .. Len(chain)
    PROVE  /\ chain[k].at # 0
           /\ DriveItem(chain[k]) \/ (k = Len(chain) /\ DummyItem(chain[k]))
<1>1. DriveRecords \in Seq(Item) /\ DummyRecord \in Seq(Item)
  BY DriveRecordsSound, DummyRecordSound DEF Sound
<1>2. /\ Len(chain) = Len(DriveRecords) + Len(DummyRecord)
      /\ Len(DriveRecords) \in Nat /\ Len(DummyRecord) \in Nat
      /\ k <= Len(DriveRecords) => k \in 1 .. Len(DriveRecords) /\ chain[k] = DriveRecords[k]
      /\ k > Len(DriveRecords) =>
            /\ k - Len(DriveRecords) \in 1 .. Len(DummyRecord)
            /\ chain[k] = DummyRecord[k - Len(DriveRecords)]
  BY <1>1
<1>3. CASE k <= Len(DriveRecords)
  BY <1>2, <1>3, DriveRecordsOrdered
<1>4. CASE k > Len(DriveRecords)
  <2>1. DummyRecord # <<>>
    BY <1>2, <1>4
  <2>2. PICK item : DummyRecord = <<item>> /\ item.at # 0 /\ DummyItem(item)
    BY <2>1, DummyRecordOrdered
  <2>3. Len(DummyRecord) = 1 /\ DummyRecord[1] = item
    BY <2>2
  <2>4. k - Len(DriveRecords) = 1 /\ k = Len(chain)
    BY <1>2, <1>4, <2>3
  <2> QED BY <1>2, <1>4, <2>2, <2>3, <2>4
<1> QED BY <1>2, <1>3, <1>4

(* The records that are left to write, for the same drives.                 *)
LEMMA OrderKept ==
    ASSUME UNCHANGED <<part, ext>>, NEW items, queue' = items,
           \A k \in 1 .. Len(items) :
              IF items[k].at = 0 THEN k = 1
              ELSE /\ OfType("extended") # {}
                   /\ DriveItem(items[k]) \/ (k = Len(items) /\ DummyItem(items[k])),
           items = <<>> \/ items[1].at # 0 => part' = master'
    PROVE  OrderInv'
<1>1. OfType("extended")' = OfType("extended") /\ Extended' = Extended /\ Drives' = Drives
  BY DEF OfType, Extended, Drives
<1>2. ASSUME NEW k \in 1 .. Len(items), items[k].at # 0
      PROVE  DriveItem(queue[k])' \/ (k = Len(items) /\ DummyItem(queue[k])')
  <2>1. CASE DriveItem(items[k])
    BY <1>1, <2>1 DEF DriveItem
  <2>2. CASE k = Len(items) /\ DummyItem(items[k])
    BY <1>1, <2>2 DEF DummyItem
  <2> QED BY <1>2, <2>1, <2>2
<1>3. \A k \in 1 .. Len(queue') :
         IF queue'[k].at = 0 THEN k = 1
         ELSE /\ OfType("extended")' # {}
              /\ DriveItem(queue[k])' \/ (k = Len(queue') /\ DummyItem(queue[k])')
  BY <1>1, <1>2
<1> QED BY <1>3 DEF OrderInv

LEMMA LeaveLink ==
    ASSUME IInv, LinkInv, Leave
    PROVE  LinkInv'
<1> USE DEF IInv, LinkInv
<1>1. /\ pc = "menu" /\ pc' = "writing" /\ queue' = InfoRecords(part, partChanged)
      /\ UNCHANGED <<master, boot, part, ext>>
  BY DEF Leave
<1>2. SoundTable(part) /\ SoundTable(master)
  BY DEF TablesInv
<1>3. OfType("extended")' = OfType("extended") /\ Extended' = Extended /\ Drives' = Drives
  BY <1>1 DEF OfType, Extended, Drives
<1>4. MemoryInv'
  BY <1>1, <1>2, <1>3, MemoryKept
<1>5. DiskInv'
  BY <1>1 DEF DiskInv
<1>6. OrderInv'
  <2> DEFINE item == [at |-> 0, record |-> MasterRecord(part, partChanged)]
             chain == IF OfType("extended") = {} \/ ~ extChanged THEN <<>>
                      ELSE DriveRecords \o DummyRecord
             first == IF partChanged = {} THEN <<>> ELSE <<item>>
  <2>1. queue' = first \o chain
    BY <1>1 DEF InfoRecords
  <2>2. item.at = 0
    OBVIOUS
  <2>3. chain \in Seq(Item)
    BY <1>2, ChainRecordsSound DEF Sound
  <2>4. ASSUME NEW k \in 1 .. Len(chain)
        PROVE  /\ chain[k].at # 0 /\ OfType("extended") # {}
               /\ DriveItem(chain[k]) \/ (k = Len(chain) /\ DummyItem(chain[k]))
    <3>1. chain # <<>>
      <4> HIDE DEF chain
      <4> QED BY <2>3, <2>4
    <3>2. OfType("extended") # {} /\ chain = DriveRecords \o DummyRecord
      BY <3>1
    <3>3. DrivesFit
      BY <3>2 DEF MemoryInv
    <3> HIDE DEF chain
    <3> QED BY <1>2, <3>2, <3>3, ChainOrdered
  <2> HIDE DEF item, chain
  <2>5. CASE partChanged = {}
    <3>1. queue' = chain
      BY <2>1, <2>3, <2>5
    <3>2. part' = master'
      <4>1. \A j \in PartIndexes : part[j] = master[j]
        BY <1>1, <2>5 DEF TablesInv
      <4>2. part = master
        BY <1>2, <4>1 DEF SoundTable
      <4> QED BY <1>1, <4>2
    <3> QED BY <1>1, <2>4, <3>1, <3>2, OrderKept
  <2>6. CASE partChanged # {}
    <3> DEFINE items == <<item>> \o chain
    <3>1. queue' = items
      BY <2>1, <2>6
    <3>2. /\ Len(items) = Len(chain) + 1 /\ items[1] = item /\ Len(chain) \in Nat
          /\ \A k \in 2 .. Len(chain) + 1 : items[k] = chain[k - 1] /\ k - 1 \in 1 .. Len(chain)
          /\ items # <<>>
      <4>1. <<item>> \in Seq({item}) /\ Len(<<item>>) = 1 /\ <<item>>[1] = item
        OBVIOUS
      <4> QED BY <2>3, <4>1
    <3> HIDE DEF items
    <3>3. ASSUME NEW k \in 1 .. Len(items)
          PROVE  IF items[k].at = 0 THEN k = 1
                 ELSE /\ OfType("extended") # {}
                      /\ DriveItem(items[k]) \/ (k = Len(items) /\ DummyItem(items[k]))
      <4>1. CASE k = 1
        BY <2>2, <3>2, <4>1
      <4>2. CASE k # 1
        <5>1. k \in 2 .. Len(chain) + 1
          BY <3>2, <4>2
        <5>2. items[k] = chain[k - 1] /\ k - 1 \in 1 .. Len(chain)
          BY <3>2, <5>1
        <5>3. k - 1 = Len(chain) => k = Len(items)
          BY <3>2, <5>1
        <5> QED BY <2>4, <5>2, <5>3
      <4> QED BY <4>1, <4>2
    <3> QED BY <1>1, <2>2, <3>1, <3>2, <3>3, OrderKept
  <2> QED BY <2>5, <2>6
<1> QED BY <1>4, <1>5, <1>6

-----------------------------------------------------------------------------
(* Writing the records *)

(* A record that may take its place on a closed chain.                      *)
Replaces(b, first, last, C, at, r) ==
    /\ at \in C
    /\ r.next # None => r.next \in C
    /\ at # first => r.drive.used /\ r.drive.start = at
    /\ r.drive.used =>
          /\ r.drive.end <= last
          /\ IF r.drive.start = at THEN r.next # None => r.drive.end < r.next
             ELSE r.drive.start \in C /\ Matches(b, r.drive)
    /\ \A c \in C : c # at /\ b[c].drive.used /\ b[c].drive.start # c
                    /\ b[c].drive.start = at => r.drive = b[c].drive

LEMMA WrittenClosed ==
    ASSUME NEW b, NEW b2, NEW first, NEW last, NEW C, NEW at, NEW r,
           Closed(b, first, last, C), Replaces(b, first, last, C, at, r),
           b2[at] = r, \A c \in C : c # at => b2[c] = b[c]
    PROVE  Closed(b2, first, last, C)
<1> USE DEF Replaces
<1>1. ASSUME NEW c \in C
      PROVE  /\ b2[c].next # None => b2[c].next \in C
             /\ c # first => b2[c] = Junk \/ (b2[c].drive.used /\ b2[c].drive.start = c)
             /\ b2[c].drive.used =>
                   /\ b2[c].drive.end <= last
                   /\ IF b2[c].drive.start = c
                      THEN b2[c].next # None => b2[c].drive.end < b2[c].next
                      ELSE b2[c].drive.start \in C /\ Matches(b2, b2[c].drive)
  <2>1. CASE c = at
    <3>1. b2[c] = r
      BY <2>1
    <3>2. r.drive.used /\ r.drive.start # at =>
             b2[r.drive.start] = b[r.drive.start]
      OBVIOUS
    <3> QED BY <2>1, <3>1, <3>2 DEF Matches
  <2>2. CASE c # at
    <3>1. b2[c] = b[c]
      BY <2>2
    <3>2. /\ b[c].next # None => b[c].next \in C
          /\ c # first => b[c] = Junk \/ (b[c].drive.used /\ b[c].drive.start = c)
          /\ b[c].drive.used =>
                /\ b[c].drive.end <= last
                /\ IF b[c].drive.start = c
                   THEN b[c].next # None => b[c].drive.end < b[c].next
                   ELSE b[c].drive.start \in C /\ Matches(b, b[c].drive)
      BY DEF Closed
    <3>3. b[c].drive.used /\ b[c].drive.start # c => Matches(b2, b[c].drive)
      BY <2>2, <3>2 DEF Matches
    <3> QED BY <3>1, <3>2, <3>3
  <2> QED BY <2>1, <2>2
<1> QED BY <1>1 DEF Closed

(* The records behind the one that has been written or has failed.          *)
LEMMA TailOrdered ==
    ASSUME IInv, OrderInv, pc = "writing", queue # <<>>, queue' = Tail(queue),
           UNCHANGED <<part, ext>>, part' = master'
    PROVE  OrderInv'
<1> DEFINE items == Tail(queue)
<1>1. queue \in Seq(Item)
  BY DEF IInv, QueueInv, Sound
<1>2. /\ Len(queue) \in Nat /\ Len(queue) > 0 /\ Len(items) = Len(queue) - 1
      /\ \A k \in 1 .. Len(queue) - 1 : items[k] = queue[k + 1]
  BY <1>1
<1> HIDE DEF items
<1>3. ASSUME NEW k \in 1 .. Len(items)
      PROVE  IF items[k].at = 0 THEN k = 1
             ELSE /\ OfType("extended") # {}
                  /\ DriveItem(items[k]) \/ (k = Len(items) /\ DummyItem(items[k]))
  <2>1. /\ k + 1 \in 1 .. Len(queue) /\ k + 1 # 1 /\ items[k] = queue[k + 1]
        /\ k + 1 = Len(queue) => k = Len(items)
    BY <1>2
  <2> QED BY <2>1 DEF OrderInv
<1> QED BY <1>3, OrderKept DEF items

LEMMA HeadIs ==
    ASSUME IInv, OrderInv, pc = "writing", queue # <<>>
    PROVE  /\ Head(queue) = queue[1] /\ Head(queue) \in Item /\ Faithful(Head(queue))
           /\ Head(queue).at # 0 =>
                 /\ part = master /\ OfType("extended") # {}
                 /\ DriveItem(Head(queue)) \/ (Tail(queue) = <<>> /\ DummyItem(Head(queue)))
<1>1. queue \in Seq(Item) /\ Sound(queue)
  BY DEF IInv, QueueInv, Sound
<1>2. /\ Len(queue) \in Nat /\ Len(queue) > 0 /\ Head(queue) = queue[1] /\ 1 \in 1 .. Len(queue)
      /\ Tail(queue) \in Seq(Item) /\ Len(Tail(queue)) = Len(queue) - 1
  BY <1>1
<1>4. Len(queue) = 1 => Tail(queue) = <<>>
  <2>1. \A s \in Seq(Item) : Len(s) = 0 => s = <<>>
    BY EmptySeq
  <2>2. Len(queue) = 1 => Len(Tail(queue)) = 0
    BY <1>2
  <2>3. Tail(queue) \in Seq(Item)
    BY <1>2
  <2> QED BY <2>1, <2>2, <2>3, Zenon
<1>3. Head(queue) \in Item /\ Faithful(Head(queue))
  BY <1>1, SoundTail
<1> QED BY <1>2, <1>3, <1>4 DEF OrderInv

(* The drives in memory while the disk's chain stays as it is.              *)
LEMMA MemoryWaits ==
    ASSUME MemoryInv, pc = "writing", queue # <<>>, UNCHANGED <<boot, part, ext, pc>>
    PROVE  MemoryInv'
<1>1. OfType("extended")' = OfType("extended") /\ Extended' = Extended /\ Drives' = Drives
  BY DEF OfType, Extended, Drives
<1>2. \A C : Linked(C) => Linked(C)'
  BY <1>1 DEF Linked, Dummy, First
<1>3. DrivesFit => DrivesFit'
  BY <1>1 DEF DrivesFit
<1> QED BY <1>1, <1>2, <1>3 DEF MemoryInv

LEMMA FailRecordLink ==
    ASSUME IInv, LinkInv, FaultsInv, FailRecord, MasterWritten'
    PROVE  LinkInv'
<1> USE DEF LinkInv
<1>1. /\ pc = "writing" /\ queue # <<>> /\ queue' = Tail(queue)
      /\ UNCHANGED <<master, boot, part, ext, pc>>
      /\ faults' = Append(faults, IF Head(queue).at = 0 THEN "master" ELSE "extended")
  BY DEF FailRecord
<1>2. Head(queue).at # 0
  <2> SUFFICES ASSUME Head(queue).at = 0 PROVE FALSE
    OBVIOUS
  <2>1. faults' = Append(faults, "master") /\ faults \in Seq({"power", "master", "extended"})
    BY <1>1 DEF FaultsInv
  <2>2. Len(faults') \in 1 .. Len(faults') /\ faults'[Len(faults')] = "master"
    BY <2>1
  <2> QED BY <2>2 DEF MasterWritten, Contains
<1>3. part = master
  BY <1>1, <1>2, HeadIs
<1>4. OrderInv'
  BY <1>1, <1>3, TailOrdered
<1>5. MemoryInv'
  BY <1>1, MemoryWaits
<1>6. DiskInv'
  BY <1>1 DEF DiskInv
<1> QED BY <1>4, <1>5, <1>6

LEMMA MasterRecordLink ==
    ASSUME IInv, LinkInv, WriteRecord, Head(queue).at = 0
    PROVE  LinkInv'
<1> USE DEF LinkInv
<1>1. /\ pc = "writing" /\ queue # <<>> /\ queue' = Tail(queue)
      /\ master' = Head(queue).record /\ UNCHANGED <<boot, part, ext, pc>>
  BY DEF WriteRecord
<1>2. master' = part
  BY <1>1, HeadIs DEF Faithful
<1>3. OrderInv'
  BY <1>1, <1>2, TailOrdered
<1>4. MemoryInv'
  BY <1>1, MemoryWaits
<1>5. DiskInv'
  <2> SUFFICES ASSUME NEW i \in PartIndexes, master'[i].sys = "extended"
               PROVE  \E C : Closed(boot', master'[i].start, master'[i].end, C)
    BY DEF DiskInv
  <2>1. i \in OfType("extended")
    BY <1>2 DEF OfType
  <2>2. Extended = part[i]
    BY <2>1, ExtendedIs DEF IInv, TablesInv
  <2>3. PICK C : Linked(C)
    BY <2>1 DEF MemoryInv
  <2> QED BY <1>1, <1>2, <2>2, <2>3 DEF Linked
<1> QED BY <1>3, <1>4, <1>5

(* A record of the chain is written: a drive's, or the dummy record, which  *)
(* is the last.                                                             *)
LEMMA ExtRecordLinked ==
    ASSUME IInv, OrderInv, DrivesFit, NEW C, Linked(C), OfType("extended") # {},
           WriteRecord, Head(queue).at # 0
    PROVE  Linked(C)'
<1> DEFINE item == Head(queue)
           at == item.at
           r == item.record
           first == Extended.start
           last == Extended.end
<1>1. /\ pc = "writing" /\ queue # <<>> /\ queue' = Tail(queue)
      /\ boot' = [boot EXCEPT ![at] = r] /\ UNCHANGED <<master, part, ext, pc>>
  BY DEF WriteRecord
<1>2. DriveItem(item) \/ (queue' = <<>> /\ DummyItem(item))
  BY <1>1, HeadIs
<1>3. OfType("extended")' = OfType("extended") /\ Extended' = Extended /\ Drives' = Drives
  BY <1>1 DEF OfType, Extended, Drives
<1>4. /\ C \subseteq first .. last /\ first \in C /\ Closed(boot, first, last, C)
      /\ \A c \in C : c \in 1 .. TotalDisk - 1
  <2>1. \A c \in first .. last : c \in 1 .. TotalDisk - 1
    BY ExtendedOnDisk DEF IInv, TablesInv
  <2> QED BY <2>1 DEF Linked, Closed
<1>5. at \in C
  BY <1>2, <1>4 DEF DriveItem, DummyItem, Linked
<1>6. /\ boot'[at] = r /\ \A c \in C : c # at => boot'[c] = boot[c]
  BY <1>1, <1>4, <1>5 DEF IInv, BootInv
<1>7. \A i \in Drives : /\ ext[i].start \in C /\ Matches(boot, ext[i]) /\ ext[i].used
                        /\ ext[i].end <= last
                        /\ \A j \in Drives : ext[i].start = ext[j].start => i = j
  BY DEF Linked, Drives, DrivesFit, IInv, DrivesInv
<1> HIDE DEF item, at, r, first, last
<1>8. CASE DriveItem(item)
  <2>1. PICK x \in Drives :
           /\ at = ext[x].start /\ r.drive = ext[x]
           /\ r.next # None =>
                 \E j \in Drives : r.next = ext[j].start /\ ext[x].end < ext[j].start
    BY <1>8 DEF DriveItem, at, r
  <2>2. \A i \in Drives : ext[i].start = at => r.drive = ext[i]
    BY <1>7, <2>1
  <2>3. \A c \in C : c # at /\ boot[c].drive.used /\ boot[c].drive.start # c
                     /\ boot[c].drive.start = at => r.drive = boot[c].drive
    <3> SUFFICES ASSUME NEW c \in C, c # at, boot[c].drive.used, boot[c].drive.start # c,
                        boot[c].drive.start = at
                 PROVE  r.drive = boot[c].drive
      OBVIOUS
    <3>1. c = first
      BY <1>4, JunkHas DEF Closed
    <3>2. Dummy /\ First = boot[c].drive
      BY <3>1 DEF Dummy, First, first
    <3>3. ext[x] = First \/ First.end < ext[x].start
      BY <1>1, <3>2 DEF Linked
    <3>4. ~ (First.end < First.start)
      <4>1. c \in 1 .. TotalDisk - 1
        BY <1>4
      <4>2. boot[c] \in Record /\ Onward(c, boot[c])
        BY <4>1 DEF IInv, BootInv
      <4>3. First.start \in Int /\ First.end \in Int /\ First.start <= First.end
        BY <3>2, <4>2, IndexTypes DEF Record, Drive, Disk, Onward
      <4> QED BY <4>3
    <3> QED BY <2>1, <3>2, <3>3, <3>4
  <2>4. r.next # None => r.next \in C
    BY <1>7, <2>1
  <2>5. r.drive.used /\ r.drive.start = at /\ r.drive.end <= last
        /\ (r.next # None => r.drive.end < r.next)
    BY <1>7, <2>1
  <2>6. Closed(boot', first, last, C)
    <3>1. Replaces(boot, first, last, C, at, r)
      BY <1>5, <2>3, <2>4, <2>5 DEF Replaces
    <3> QED BY <1>4, <1>6, <3>1, WrittenClosed
  <2>7. \A i \in Drives : ext[i].start \in C /\ Matches(boot', ext[i])
    BY <1>6, <1>7, <2>2 DEF Matches
  <2>8. ASSUME Dummy', NEW i \in Drives
        PROVE  ext[i] = First' \/ First'.end < ext[i].start
    <3>1. first # at
      BY <1>3, <1>6, <2>5, <2>8 DEF Dummy, first
    <3>2. boot'[first] = boot[first]
      BY <1>4, <1>6, <3>1
    <3>3. Dummy /\ First' = First
      BY <1>3, <2>8, <3>2 DEF Dummy, First, first
    <3> QED BY <1>1, <3>3 DEF Linked
  <2> QED BY <1>1, <1>3, <2>6, <2>7, <2>8 DEF Linked, first, last
<1>9. CASE queue' = <<>> /\ DummyItem(item)
  <2>1. /\ at = first /\ r.drive = ext[0]
        /\ \A i \in Drives : ext[i].start # first
        /\ r.next # None => \E j \in Drives : r.next = ext[j].start
    BY <1>9 DEF DummyItem, at, r, first
  <2>2. \A c \in C : c # at => ~ (boot[c].drive.used /\ boot[c].drive.start # c)
    BY <2>1, <1>4, JunkHas DEF Closed
  <2>3. r.next # None => r.next \in C
    BY <1>7, <2>1
  <2>4. r.drive.used => /\ r.drive.end <= last /\ r.drive.start # at
                        /\ r.drive.start \in C /\ Matches(boot, r.drive)
    <3>1. r.drive.used => 0 \in Drives
      BY <2>1, IndexTypes DEF Drives, DriveIndexes
    <3> QED BY <1>7, <2>1, <3>1
  <2>5. Closed(boot', first, last, C)
    <3>1. Replaces(boot, first, last, C, at, r)
      BY <1>5, <2>1, <2>2, <2>3, <2>4 DEF Replaces
    <3> QED BY <1>4, <1>6, <3>1, WrittenClosed
  <2>6. \A i \in Drives : ext[i].start \in C /\ Matches(boot', ext[i])
    BY <1>6, <1>7, <2>1 DEF Matches
  <2> QED BY <1>1, <1>3, <1>9, <2>5, <2>6 DEF Linked, first, last
<1> QED BY <1>2, <1>8, <1>9

LEMMA ExtRecordLink ==
    ASSUME IInv, LinkInv, WriteRecord, Head(queue).at # 0
    PROVE  LinkInv'
<1> USE DEF LinkInv
<1>1. /\ pc = "writing" /\ queue # <<>> /\ queue' = Tail(queue)
      /\ UNCHANGED <<master, part, ext, pc>>
  BY DEF WriteRecord
<1>2. part = master /\ OfType("extended") # {}
  BY <1>1, HeadIs
<1>3. OfType("extended")' = OfType("extended") /\ Extended' = Extended /\ Drives' = Drives
  BY <1>1 DEF OfType, Extended, Drives
<1>4. DrivesFit /\ \E C : Linked(C)
  BY <1>2 DEF MemoryInv
<1>5. PICK C : Linked(C)
  BY <1>4
<1>6. Linked(C)'
  <2> HIDE DEF LinkInv
  <2>1. OrderInv
    BY DEF LinkInv
  <2> QED BY <1>2, <1>4, <1>5, <2>1, ExtRecordLinked
<1>7. DrivesFit'
  BY <1>1, <1>3, <1>4 DEF DrivesFit
<1>8. MemoryInv'
  BY <1>6, <1>7 DEF MemoryInv
<1>9. OrderInv'
  BY <1>1, <1>2, TailOrdered
<1>10. DiskInv'
  <2> SUFFICES ASSUME NEW i \in PartIndexes, master'[i].sys = "extended"
               PROVE  \E D : Closed(boot', master'[i].start, master'[i].end, D)
    BY DEF DiskInv
  <2>1. i \in OfType("extended")
    BY <1>1, <1>2 DEF OfType
  <2>2. Extended = part[i]
    BY <2>1, ExtendedIs DEF IInv, TablesInv
  <2>3. Closed(boot', Extended'.start, Extended'.end, C)
    BY <1>6 DEF Linked
  <2> QED BY <1>1, <1>2, <1>3, <2>2, <2>3
<1> QED BY <1>8, <1>9, <1>10

-----------------------------------------------------------------------------
(* The drives in memory *)

LEMMA NextLink ==
    ASSUME IInv, IInv', ChainInv, [Next]_vars
    PROVE  ChainInv'
<1>1. FaultsInv /\ FaultsInv' /\ (MasterWritten' => MasterWritten)
  BY FaultsKept DEF ChainInv
<1>2. SUFFICES ASSUME MasterWritten' PROVE LinkInv'
  BY <1>1 DEF ChainInv
<1>3. LinkInv
  BY <1>1, <1>2 DEF ChainInv
<1>4. CASE Start
  BY <1>3, <1>4, StartLink
<1>5. CASE ReadRecord
  BY <1>3, <1>5, ReadRecordLink
<1>6. CASE CreatePrimary
  BY <1>3, <1>6, CreatePrimaryLink
<1>7. CASE CreateMaximum
  BY <1>3, <1>7, CreateMaximumLink
<1>8. CASE CreateExtended
  BY <1>3, <1>8, CreateExtendedLink
<1>9. CASE OpenVolumes
  BY <1>3, <1>9, OpenVolumesLink
<1>10. CASE CreateVolume
  BY <1>3, <1>10, CreateVolumeLink
<1>11. CASE DeletePrimary \/ DeleteExtended
  BY <1>3, <1>11, DeletePartitionLink
<1>12. CASE DeleteVolumes
  BY <1>3, <1>12, DeleteVolumesLink
<1>13. CASE ChangeActive
  BY <1>3, <1>13, ChangeActiveLink
<1>14. CASE Leave
  BY <1>3, <1>14, LeaveLink
<1>15. CASE WriteRecord
  BY <1>3, <1>15, MasterRecordLink, ExtRecordLink
<1>16. CASE FailRecord
  BY <1>1, <1>2, <1>3, <1>16, FailRecordLink
<1>17. CASE Finish \/ PowerCut
  BY <1>3, <1>17, ForgetLink
<1>18. CASE Rest \/ UNCHANGED vars
  BY <1>3, <1>18, StutterLink DEF Rest
<1> QED BY <1>4, <1>5, <1>6, <1>7, <1>8, <1>9, <1>10, <1>11, <1>12, <1>13, <1>14, <1>15, <1>16,
           <1>17, <1>18 DEF Next

LEMMA ChainInvHolds ==
    ASSUME LayoutsFit
    PROVE  Spec => [](IInv /\ ChainInv)
<1>1. Init => IInv /\ ChainInv
  <2> SUFFICES ASSUME Init PROVE IInv /\ ChainInv
    OBVIOUS
  <2>1. FaultsInv
    BY DEF Init, FaultsInv
  <2> QED BY <2>1, InitInv, InitLink DEF ChainInv
<1>2. IInv /\ ChainInv /\ [Next]_vars => (IInv /\ ChainInv)'
  BY NextInv, NextLink
<1> QED BY <1>1, <1>2, PTL DEF Spec

(* The logical drives share no cylinder and lie in the extended partition,  *)
(* also when the chain was read from records of which only some had been    *)
(* rewritten, as long as no master record has failed to be written          *)
(* (find_ext_free_space, write_info_to_disk, init_partition_tables).        *)
THEOREM DrivesAlwaysInside ==
    ASSUME LayoutsFit
    PROVE  Spec => []DrivesInside
<1>1. ASSUME IInv, ChainInv PROVE DrivesInside
  <2> SUFFICES ASSUME OfType("extended") # {}, ~ Contains(faults, "master")
               PROVE  /\ \A i \in Drives : Cylinders(ext[i]) \subseteq Cylinders(Extended)
                      /\ \A i, j \in Drives :
                            i # j => Cylinders(ext[i]) \cap Cylinders(ext[j]) = {}
    BY DEF DrivesInside
  <2>1. DrivesFit
    BY <1>1 DEF ChainInv, MasterWritten, LinkInv, MemoryInv
  <2>2. \A i \in Drives : /\ ext[i].start \in Int /\ ext[i].end \in Int
                          /\ Extended.start <= ext[i].start
    <3>1. \A i \in Drives : ext[i] \in Drive
      BY <1>1, DriveOrderIs DEF IInv
    <3>2. \A i \in Drives : Extended.start <= ext[i].start
      BY <1>1 DEF IInv, DrivesInv
    <3> QED BY <3>1, <3>2, IndexTypes DEF Drive, Disk
  <2>3. Extended.start \in Int /\ Extended.end \in Int
    BY <1>1, ExtendedOnDisk DEF IInv, TablesInv
  <2>4. \A i \in Drives : Cylinders(ext[i]) \subseteq Cylinders(Extended)
    BY <2>1, <2>2, <2>3 DEF DrivesFit, Cylinders
  <2>5. ASSUME NEW i \in Drives, NEW j \in Drives, i # j
        PROVE  Cylinders(ext[i]) \cap Cylinders(ext[j]) = {}
    <3>1. ext[i].end < ext[j].start \/ ext[j].end < ext[i].start
      BY <2>1, <2>5 DEF DrivesFit
    <3> QED BY <2>2, <3>1 DEF Cylinders
  <2> QED BY <2>4, <2>5
<1> QED BY <1>1, ChainInvHolds, PTL

-----------------------------------------------------------------------------
(* The chain as it was shown *)

(* What write_info_to_disk queues of the drives.                            *)
Chain == DriveRecords \o DummyRecord

(* An entry or a record without a drive says nothing else.                  *)
Blank(drive) == drive.used \/ drive = NoDrive

BlankInv ==
    /\ \A i \in 0 .. Slots : Blank(ext[i])
    /\ \A c \in 1 .. TotalDisk - 1 : Blank(boot[c].drive)

(* The table comes first, and the other records are the chain's.            *)
QueuedInv ==
    \A k \in 1 .. Len(queue) :
       IF queue[k].at = 0 THEN k = 1
       ELSE /\ OfType("extended") # {}
            /\ \E m \in 1 .. Len(Chain) : queue[k] = Chain[m]

(* What is not left to write is on the disk.                                *)
WrittenInv ==
    pc = "writing" /\ intact =>
       /\ queue = <<>> \/ queue[1].at # 0 => part = master
       /\ OfType("extended") # {} /\ extChanged =>
             \A m \in 1 .. Len(Chain) : \/ boot[Chain[m].at] = Chain[m].record
                                        \/ \E k \in 1 .. Len(queue) : queue[k] = Chain[m]

SavedInv == BlankInv /\ QueuedInv /\ WrittenInv

LEMMA DriveRecordsAre ==
    ASSUME DrivesInv
    PROVE  /\ Len(DriveRecords) = Cardinality(Drives)
           /\ \A k \in 1 .. Cardinality(Drives) :
                 /\ DriveRecords[k].at = ext[DriveOrder[k]].start
                 /\ DriveRecords[k].record.drive = ext[DriveOrder[k]]
                 /\ DriveRecords[k].record.next =
                       IF k = Cardinality(Drives) THEN None ELSE ext[DriveOrder[k + 1]].start
<1> DEFINE n == Cardinality(Drives)
           o == DriveOrder
           next(k) == IF k + 1 > n THEN None ELSE ext[o[k + 1]].start
<1>1. n \in Nat /\ Len(o) = n
  BY DriveOrderIs
<1>2. DriveRecords = [k \in 1 .. n |-> [at |-> ext[o[k]].start,
                                       record |-> [drive |-> ext[o[k]], next |-> next(k)]]]
  BY <1>1 DEF DriveRecords, ExtRecord
<1> HIDE DEF n, o, next
<1>3. \A k \in 1 .. n : /\ DriveRecords[k].at = ext[o[k]].start
                        /\ DriveRecords[k].record.drive = ext[o[k]]
                        /\ DriveRecords[k].record.next = next(k)
  BY <1>2
<1>4. Len(DriveRecords) = n
  BY <1>1, <1>2
<1>5. \A k \in 1 .. n : next(k) = IF k = n THEN None ELSE ext[o[k + 1]].start
  BY <1>1 DEF next
<1> QED BY <1>3, <1>4, <1>5 DEF n, o

(* No two records of a chain go to the same cylinder.                       *)
LEMMA ChainIs ==
    ASSUME SoundTable(part), DrivesInv, OfType("extended") # {}
    PROVE  /\ Chain \in Seq(Item)
           /\ \A m \in 1 .. Len(Chain) :
                 /\ Chain[m].at \in 1 .. TotalDisk - 1 /\ Chain[m].at # 0
                 /\ \E i \in 0 .. Slots : Chain[m].record.drive = ext[i]
           /\ \A m, l \in 1 .. Len(Chain) : m # l => Chain[m].at # Chain[l].at
           /\ \A k \in 1 .. Len(DriveRecords) :
                 k \in 1 .. Len(Chain) /\ Chain[k] = DriveRecords[k]
<1> DEFINE n == Cardinality(Drives)
           o == DriveOrder
<1>1. DriveRecords \in Seq(Item) /\ DummyRecord \in Seq(Item)
  BY DriveRecordsSound, DummyRecordSound DEF Sound
<1>2. /\ n \in Nat /\ o \in [1 .. n -> Drives] /\ Drives \subseteq DriveIndexes
      /\ \A k, l \in 1 .. n : k < l => ext[o[k]].start < ext[o[l]].start
      /\ \A i \in Drives : ext[i] \in Drive
  BY DriveOrderIs
<1>3. /\ Len(DriveRecords) = n
      /\ \A k \in 1 .. n : /\ DriveRecords[k].at = ext[o[k]].start
                           /\ DriveRecords[k].record.drive = ext[o[k]]
  BY DriveRecordsAre
<1> HIDE DEF n, o
<1>4. DummyRecord # <<>> =>
         \E item : DummyRecord = <<item>> /\ item.at # 0 /\ DummyItem(item)
  BY DummyRecordOrdered
<1>5. Len(DummyRecord) \in {0, 1}
  <2>1. \A item : Len(<<item>>) = 1
    OBVIOUS
  <2>2. Len(<<>>) = 0
    OBVIOUS
  <2> QED BY <1>4, <2>1, <2>2
<1>6. Len(DummyRecord) = 1 => DummyRecord[1].at # 0 /\ DummyItem(DummyRecord[1])
  <2>1. Len(DummyRecord) = 1 => DummyRecord # <<>>
    OBVIOUS
  <2>2. \A item : <<item>>[1] = item
    OBVIOUS
  <2> QED BY <1>4, <2>1, <2>2
<1>7. /\ Chain \in Seq(Item) /\ Len(Chain) = n + Len(DummyRecord)
      /\ \A k \in 1 .. n : k \in 1 .. Len(Chain) /\ Chain[k] = DriveRecords[k]
      /\ \A k \in 1 .. Len(Chain) : k \notin 1 .. n =>
            /\ k = n + 1 /\ Len(DummyRecord) = 1 /\ Chain[k] = DummyRecord[1]
  <2> DEFINE s == DriveRecords
             t == DummyRecord
  <2>1. Chain = s \o t
    BY DEF Chain
  <2>2. /\ s \in Seq(Item) /\ t \in Seq(Item) /\ Len(s) = n
        /\ Len(s) \in Nat /\ Len(t) \in {0, 1}
    BY <1>1, <1>2, <1>3, <1>5
  <2> HIDE DEF s, t
  <2>3. /\ Chain \in Seq(Item) /\ Len(Chain) = Len(s) + Len(t)
        /\ \A k \in 1 .. Len(s) : Chain[k] = s[k]
        /\ \A k \in Len(s) + 1 .. Len(s) + Len(t) : Chain[k] = t[k - Len(s)]
    BY <2>1, <2>2
  <2>4. \A k \in 1 .. n : k \in 1 .. Len(Chain) /\ Chain[k] = s[k]
    BY <2>2, <2>3
  <2>5. ASSUME NEW k \in 1 .. Len(Chain), k \notin 1 .. n
        PROVE  k = n + 1 /\ Len(t) = 1 /\ Chain[k] = t[1]
    <3>1. k = n + 1 /\ Len(t) = 1 /\ k \in Len(s) + 1 .. Len(s) + Len(t) /\ k - Len(s) = 1
      BY <2>2, <2>3, <2>5
    <3> QED BY <2>3, <3>1
  <2> QED BY <2>2, <2>3, <2>4, <2>5 DEF s, t
<1>8. Extended.start \in Int /\ Extended.start \in 1 .. TotalDisk - 1
  BY ExtendedOnDisk
<1>9. \A i \in Drives : ext[i].start \in 1 .. TotalDisk - 1 /\ i \in 0 .. Slots
  <2> SUFFICES ASSUME NEW i \in Drives
               PROVE  ext[i].start \in 1 .. TotalDisk - 1 /\ i \in 0 .. Slots
    OBVIOUS
  <2>1. ext[i] \in Drive /\ Extended.start <= ext[i].start /\ i \in DriveIndexes
    BY <1>2 DEF DrivesInv
  <2> QED BY <1>8, <2>1, IndexTypes DEF Drive, Disk, DriveIndexes
<1>10. ASSUME NEW m \in 1 .. Len(Chain)
       PROVE  /\ Chain[m].at \in 1 .. TotalDisk - 1 /\ Chain[m].at # 0
              /\ \E i \in 0 .. Slots : Chain[m].record.drive = ext[i]
  <2>1. CASE m \in 1 .. n
    <3>1. o[m] \in Drives
      BY <1>2, <2>1
    <3> QED BY <1>3, <1>7, <1>9, <2>1, <3>1
  <2>2. CASE m \notin 1 .. n
    <3>1. Chain[m].at = Extended.start /\ Chain[m].record.drive = ext[0]
      BY <1>6, <1>7, <2>2 DEF DummyItem
    <3>2. 0 \in 0 .. Slots
      BY IndexTypes
    <3> QED BY <1>8, <3>1, <3>2
  <2> QED BY <2>1, <2>2
<1>11. ASSUME NEW m \in 1 .. Len(Chain), NEW l \in 1 .. Len(Chain), m < l
       PROVE  Chain[m].at # Chain[l].at
  <2>1. m \in 1 .. n
    BY <1>2, <1>7, <1>11
  <2>2. o[m] \in Drives /\ Chain[m].at = ext[o[m]].start
    BY <1>2, <1>3, <1>7, <2>1
  <2>3. CASE l \in 1 .. n
    <3>1. o[l] \in Drives /\ Chain[l].at = ext[o[l]].start
      BY <1>2, <1>3, <1>7, <2>3
    <3>2. ext[o[m]].start < ext[o[l]].start
      BY <1>2, <1>11, <2>1, <2>3
    <3> QED BY <1>9, <2>2, <3>1, <3>2
  <2>4. CASE l \notin 1 .. n
    <3>1. DummyItem(Chain[l])
      BY <1>6, <1>7, <2>4
    <3> QED BY <2>2, <3>1 DEF DummyItem
  <2> QED BY <2>3, <2>4
<1>12. \A m, l \in 1 .. Len(Chain) : m # l => Chain[m].at # Chain[l].at
  <2> SUFFICES ASSUME NEW m \in 1 .. Len(Chain), NEW l \in 1 .. Len(Chain), m # l
               PROVE  Chain[m].at # Chain[l].at
    OBVIOUS
  <2>1. m < l \/ l < m
    BY <1>7
  <2> QED BY <1>11, <2>1
<1> QED BY <1>3, <1>7, <1>10, <1>12

LEMMA ChainSame ==
    ASSUME UNCHANGED <<part, ext>>
    PROVE  Chain' = Chain /\ OfType("extended")' = OfType("extended")
<1>1. Drives' = Drives /\ OfType("extended")' = OfType("extended") /\ Extended' = Extended
  BY DEF Drives, OfType, Extended
<1>2. DriveOrder' = DriveOrder
  BY <1>1 DEF DriveOrder
<1>3. DriveRecords' = DriveRecords
  BY <1>2 DEF DriveRecords, ExtRecord
<1>4. DummyRecord' = DummyRecord
  BY <1>1, <1>2 DEF DummyRecord, ExtRecord
<1> QED BY <1>1, <1>3, <1>4 DEF Chain

LEMMA SavedIdle ==
    ASSUME BlankInv', queue' = <<>>, pc' # "writing"
    PROVE  SavedInv'
<1>1. Len(queue') = 0
  OBVIOUS
<1> QED BY <1>1 DEF SavedInv, QueuedInv, WrittenInv

LEMMA BlankJunk == Blank(NoDrive) /\ Blank(Junk.drive)
BY DEF Blank, Junk

LEMMA BlankSwept ==
    ASSUME BlankInv, BootInv, NEW gap, boot' = Swept(gap)
    PROVE  \A c \in 1 .. TotalDisk - 1 : Blank(boot'[c].drive)
BY Cut, BlankJunk DEF BlankInv

LEMMA BlankKept ==
    ASSUME IInv, BlankInv,
           \/ Start \/ ReadRecord \/ CreatePrimary \/ CreateMaximum \/ CreateExtended
           \/ OpenVolumes \/ CreateVolume \/ DeletePrimary \/ DeleteExtended \/ DeleteVolumes
           \/ ChangeActive \/ Leave \/ FailRecord \/ Finish \/ PowerCut \/ UNCHANGED vars
    PROVE  BlankInv'
<1> USE DEF IInv
<1>1. ASSUME UNCHANGED <<boot, ext>> PROVE BlankInv'
  BY <1>1 DEF BlankInv
<1>2. CASE Start \/ OpenVolumes \/ ChangeActive \/ Leave \/ FailRecord \/ UNCHANGED vars
           \/ DeletePrimary \/ DeleteExtended
  <2>1. UNCHANGED <<boot, ext>>
    BY <1>2 DEF Start, OpenVolumes, ChangeActive, Leave, FailRecord, vars, DeletePrimary,
                DeleteExtended, Clear
  <2> QED BY <1>1, <2>1
<1>3. CASE CreatePrimary \/ CreateMaximum \/ CreateExtended
  <2>1. UNCHANGED ext /\ \E gap : boot' = Swept(gap)
    BY <1>3 DEF CreatePrimary, CreateMaximum, CreateExtended
  <2>2. \A c \in 1 .. TotalDisk - 1 : Blank(boot'[c].drive)
    BY <2>1, BlankSwept
  <2> QED BY <2>1, <2>2 DEF BlankInv
<1>4. CASE Finish \/ PowerCut
  <2>1. UNCHANGED boot /\ ext' = [i \in 0 .. Slots |-> NoDrive]
    BY <1>4 DEF Finish, PowerCut, Forget
  <2> QED BY <2>1, BlankJunk DEF BlankInv
<1>5. CASE DeleteVolumes
  <2>1. PICK chosen : /\ UNCHANGED boot
                      /\ ext' = [i \in 0 .. Slots |-> IF i \in chosen THEN NoDrive ELSE ext[i]]
    BY <1>5 DEF DeleteVolumes
  <2> QED BY <2>1, BlankJunk DEF BlankInv
<1>6. CASE ReadRecord
  <2>1. /\ pc = "reading" /\ UNCHANGED boot
        /\ ext' = [i \in 0 .. Slots |-> IF i = count THEN boot[location].drive ELSE ext[i]]
    BY <1>6 DEF ReadRecord
  <2>2. Blank(boot[location].drive)
    BY <2>1 DEF ReadingInv, BlankInv
  <2> QED BY <2>1, <2>2 DEF BlankInv
<1>7. CASE CreateVolume
  <2> DEFINE new(size) == [start |-> ExtFreeSpace.start, end |-> ExtFreeSpace.start + size - 1,
                           used |-> TRUE]
  <2>1. /\ UNCHANGED boot \/ boot' = Swept(ExtFreeSpace)
        /\ UNCHANGED ext \/ \E i, size : ext' = [ext EXCEPT ![i] = new(size)]
    BY <1>7 DEF CreateVolume, MakeVolume
  <2>2. \A c \in 1 .. TotalDisk - 1 : Blank(boot'[c].drive)
    BY <2>1, BlankSwept DEF BlankInv
  <2>3. \A i \in 0 .. Slots : Blank(ext'[i])
    <3>1. CASE UNCHANGED ext
      BY <3>1 DEF BlankInv
    <3>2. CASE \E i, size : ext' = [ext EXCEPT ![i] = new(size)]
      <4>1. PICK i, size : ext' = [ext EXCEPT ![i] = new(size)]
        BY <3>2
      <4>2. Blank(new(size))
        BY DEF Blank
      <4> HIDE DEF new
      <4>3. \A j \in 0 .. Slots : ext'[j] = ext[j] \/ ext'[j] = new(size)
        BY <4>1 DEF DrivesInv
      <4> QED BY <4>2, <4>3 DEF BlankInv
    <3> QED BY <2>1, <3>1, <3>2
  <2> QED BY <2>2, <2>3 DEF BlankInv
<1> QED BY <1>2, <1>3, <1>4, <1>5, <1>6, <1>7

(* What write_info_to_disk queues.                                          *)
LEMMA InfoRecordsAre ==
    ASSUME SoundTable(part), DrivesInv, NEW table, NEW changed,
           NEW items, items = InfoRecords(table, changed)
    PROVE  /\ changed # {} => items # <<>> /\ items[1].at = 0
           /\ \A k \in 1 .. Len(items) :
                 IF items[k].at = 0 THEN k = 1
                 ELSE /\ OfType("extended") # {}
                      /\ \E m \in 1 .. Len(Chain) : items[k] = Chain[m]
           /\ OfType("extended") # {} /\ extChanged =>
                 \A m \in 1 .. Len(Chain) : \E k \in 1 .. Len(items) : items[k] = Chain[m]
<1> DEFINE head == [at |-> 0, record |-> MasterRecord(table, changed)]
           s == IF changed = {} THEN <<>> ELSE <<head>>
           t == IF OfType("extended") = {} \/ ~ extChanged THEN <<>> ELSE Chain
           S == Item \cup {head}
<1>1. items = s \o t
  BY DEF InfoRecords, Chain
<1>2. head.at = 0
  OBVIOUS
<1>3. t \in Seq(S) /\ \A m \in 1 .. Len(t) : t[m].at # 0
  <2>1. CASE t = <<>>
    <3>1. <<>> \in Seq(S) /\ Len(<<>>) = 0
      OBVIOUS
    <3> HIDE DEF t
    <3>2. t \in Seq(S) /\ Len(t) = 0
      BY <2>1, <3>1, Zenon
    <3> QED BY <3>2
  <2>2. CASE t = Chain /\ OfType("extended") # {}
    <3>1. Chain \in Seq(Item) /\ \A m \in 1 .. Len(Chain) : Chain[m].at # 0
      BY <2>2, ChainIs
    <3> HIDE DEF head, t
    <3>2. Chain \in Seq(S)
      BY <3>1
    <3> QED BY <2>2, <3>1, <3>2
  <2> QED BY <2>1, <2>2
<1>4. /\ s \in Seq(S)
      /\ \/ s = <<>> /\ Len(s) = 0 /\ changed = {}
         \/ Len(s) = 1 /\ s[1] = head /\ changed # {}
  <2> HIDE DEF head
  <2>1. CASE changed = {}
    <3>1. <<>> \in Seq(S) /\ Len(<<>>) = 0
      OBVIOUS
    <3> QED BY <2>1, <3>1
  <2>2. CASE changed # {}
    <3>1. <<head>> \in Seq(S) /\ Len(<<head>>) = 1 /\ <<head>>[1] = head
      OBVIOUS
    <3> QED BY <2>2, <3>1
  <2> QED BY <2>1, <2>2
<1>5. t = Chain \/ Len(t) = 0
  <2>1. Len(<<>>) = 0
    OBVIOUS
  <2> QED BY <2>1
<1>6. OfType("extended") # {} /\ extChanged => t = Chain
  OBVIOUS
<1>7. Len(t) # 0 => OfType("extended") # {}
  <2>1. Len(<<>>) = 0
    OBVIOUS
  <2> QED BY <2>1
<1> HIDE DEF s, t, head, S
<1>8. /\ items \in Seq(S) /\ Len(s) \in Nat /\ Len(t) \in Nat /\ Len(items) = Len(s) + Len(t)
      /\ \A k \in 1 .. Len(s) : items[k] = s[k]
      /\ \A k \in Len(s) + 1 .. Len(s) + Len(t) : items[k] = t[k - Len(s)]
  BY <1>1, <1>3, <1>4
<1>9. changed # {} => items # <<>> /\ items[1].at = 0
  <2> SUFFICES ASSUME changed # {} PROVE items # <<>> /\ items[1].at = 0
    OBVIOUS
  <2>1. Len(s) = 1 /\ s[1] = head
    BY <1>4
  <2>2. items[1] = head
    BY <1>8, <2>1
  <2>3. Len(items) # 0
    BY <1>8, <2>1
  <2>4. Len(<<>>) = 0
    OBVIOUS
  <2> QED BY <1>2, <2>2, <2>3, <2>4
<1>10. ASSUME NEW k \in 1 .. Len(items)
       PROVE  IF items[k].at = 0 THEN k = 1
              ELSE /\ OfType("extended") # {}
                   /\ \E m \in 1 .. Len(Chain) : items[k] = Chain[m]
  <2>1. CASE k \in 1 .. Len(s)
    <3>1. k = 1 /\ items[k] = head
      BY <1>4, <1>8, <2>1
    <3> QED BY <1>2, <3>1
  <2>2. CASE k \notin 1 .. Len(s)
    <3>1. k \in Len(s) + 1 .. Len(s) + Len(t) /\ k - Len(s) \in 1 .. Len(t)
      BY <1>8, <2>2
    <3>2. items[k] = t[k - Len(s)] /\ Len(t) # 0
      BY <1>8, <3>1
    <3>3. t[k - Len(s)].at # 0
      BY <1>3, <3>1
    <3> QED BY <1>5, <1>7, <3>1, <3>2, <3>3
  <2> QED BY <2>1, <2>2
<1>11. ASSUME OfType("extended") # {}, extChanged, NEW m \in 1 .. Len(Chain)
       PROVE  \E k \in 1 .. Len(items) : items[k] = Chain[m]
  <2>1. m \in 1 .. Len(t) /\ t = Chain
    BY <1>6, <1>11
  <2>2. /\ Len(s) + m \in Len(s) + 1 .. Len(s) + Len(t) /\ (Len(s) + m) - Len(s) = m
        /\ Len(s) + m \in 1 .. Len(items)
    BY <1>8, <2>1
  <2>3. items[Len(s) + m] = t[(Len(s) + m) - Len(s)]
    BY <1>8, <2>2
  <2>4. items[Len(s) + m] = t[m]
    BY <2>2, <2>3, Zenon
  <2> QED BY <2>1, <2>2, <2>4, Zenon
<1> QED BY <1>9, <1>10, <1>11

LEMMA LeaveSaved ==
    ASSUME IInv, SavedInv, Leave
    PROVE  SavedInv'
<1>1. /\ pc = "menu" /\ queue' = InfoRecords(part, partChanged)
      /\ UNCHANGED <<master, boot, part, ext, extChanged>>
  BY DEF Leave
<1>2. BlankInv'
  BY BlankKept DEF SavedInv
<1>3. Chain' = Chain /\ OfType("extended")' = OfType("extended")
  BY <1>1, ChainSame
<1>4. partChanged = {} => part = master
  BY <1>1 DEF IInv, TablesInv, SoundTable
<1>5. PICK items : items = InfoRecords(part, partChanged)
  OBVIOUS
<1>6. SoundTable(part) /\ DrivesInv
  BY DEF IInv, TablesInv
<1>7. /\ partChanged # {} => items # <<>> /\ items[1].at = 0
      /\ \A k \in 1 .. Len(items) :
            IF items[k].at = 0 THEN k = 1
            ELSE /\ OfType("extended") # {}
                 /\ \E m \in 1 .. Len(Chain) : items[k] = Chain[m]
      /\ OfType("extended") # {} /\ extChanged =>
            \A m \in 1 .. Len(Chain) : \E k \in 1 .. Len(items) : items[k] = Chain[m]
  BY <1>5, <1>6, InfoRecordsAre
<1>8. queue' = items
  BY <1>1, <1>5
<1>9. QueuedInv'
  BY <1>3, <1>7, <1>8 DEF QueuedInv
<1>10. WrittenInv'
  <2>1. items = <<>> \/ items[1].at # 0 => part = master
    BY <1>4, <1>7
  <2> QED BY <1>1, <1>3, <1>7, <1>8, <2>1 DEF WrittenInv
<1> QED BY <1>2, <1>9, <1>10 DEF SavedInv

LEMMA CreateMaximumSaved ==
    ASSUME IInv, IInv', SavedInv, CreateMaximum
    PROVE  SavedInv'
<1>1. /\ queue' = InfoRecords(part', partChanged') /\ partChanged' # {}
      /\ UNCHANGED ext
  BY DEF CreateMaximum, MakePartition
<1>2. BlankInv'
  BY BlankKept DEF SavedInv
<1>3. OfType("extended") = {} /\ OfType("extended")' = {}
  <2> DEFINE gap == PartFreeSpace("dos")
  <2>1. /\ FreePartitions # {} /\ OfType("dos") = {}
        /\ MakePartition(gap, gap.space, TRUE, "dos")
        /\ SoundTable(part) /\ partChanged \in SUBSET PartIndexes
    BY DEF CreateMaximum, IInv, TablesInv
  <2>2. gap.space \in Nat /\ gap.space > 0 /\ gap.space <= gap.space
    <3>1. gap.space \in Nat /\ gap.space > 0
      BY <2>1, PrimaryInFront
    <3> HIDE DEF gap
    <3> QED BY <3>1
  <2>3. \E j \in PartIndexes :
           part'[j].sys = "dos" /\ \A k \in PartIndexes : k # j => part'[k].sys = part[k].sys
    BY <2>1, <2>2, Made
  <2>4. OfType("extended") = {} /\ \A i \in PartIndexes : part[i].sys # "extended"
    BY <2>1, NoDosNoExtended, NoneExtended
  <2>5. \A i \in PartIndexes : part'[i].sys # "extended"
    BY <2>3, <2>4
  <2> QED BY <2>4, <2>5 DEF OfType
<1>5. PICK items : items = InfoRecords(part', partChanged')
  OBVIOUS
<1>6. SoundTable(part) /\ DrivesInv
  BY DEF IInv, TablesInv
<1>7. /\ partChanged' # {} => items # <<>> /\ items[1].at = 0
      /\ \A k \in 1 .. Len(items) :
            IF items[k].at = 0 THEN k = 1
            ELSE /\ OfType("extended") # {}
                 /\ \E m \in 1 .. Len(Chain) : items[k] = Chain[m]
  BY <1>5, <1>6, InfoRecordsAre
<1>8. queue' = items
  BY <1>1, <1>5
<1>9. QueuedInv'
  BY <1>3, <1>7, <1>8 DEF QueuedInv
<1>10. WrittenInv'
  BY <1>1, <1>3, <1>7, <1>8 DEF WrittenInv
<1> QED BY <1>2, <1>9, <1>10 DEF SavedInv

LEMMA WriteSaved ==
    ASSUME IInv, SavedInv, WriteRecord
    PROVE  SavedInv'
<1> DEFINE h == Head(queue)
<1>1. /\ pc = "writing" /\ queue # <<>> /\ queue' = Tail(queue)
      /\ UNCHANGED <<part, ext, extChanged, pc, intact>>
      /\ h.at = 0 => master' = h.record /\ UNCHANGED boot
      /\ h.at # 0 => boot' = [boot EXCEPT ![h.at] = h.record] /\ UNCHANGED master
  BY DEF WriteRecord
<1>2. queue \in Seq(Item)
  BY DEF IInv, QueueInv, Sound
<1>3. /\ 1 \in 1 .. Len(queue) /\ h = queue[1]
      /\ Len(Tail(queue)) = Len(queue) - 1 /\ Len(queue) \in Nat
      /\ \A k \in 1 .. Len(queue) - 1 : k + 1 \in 1 .. Len(queue) /\ Tail(queue)[k] = queue[k + 1]
      /\ \A k \in 1 .. Len(queue) : k # 1 => k - 1 \in 1 .. Len(queue) - 1 /\ (k - 1) + 1 = k
  BY <1>1, <1>2
<1>4. Chain' = Chain /\ OfType("extended")' = OfType("extended")
  BY <1>1, ChainSame
<1> HIDE DEF h
<1>5. \A k \in 1 .. Len(queue)' :
         /\ k + 1 \in 1 .. Len(queue) /\ queue'[k] = queue[k + 1] /\ k + 1 # 1
  BY <1>1, <1>3
<1>6. QueuedInv'
  BY <1>4, <1>5 DEF QueuedInv, SavedInv
<1>7. /\ h.at = 0 => h.record = part
      /\ h.at # 0 => /\ OfType("extended") # {} /\ \E m \in 1 .. Len(Chain) : h = Chain[m]
                     /\ intact => part = master
  BY <1>1, <1>3 DEF IInv, QueueInv, Sound, Faithful, SavedInv, QueuedInv, WrittenInv
<1>8. SoundTable(part) /\ DrivesInv
  BY DEF IInv, TablesInv
<1>9. OfType("extended") # {} =>
         /\ \A m \in 1 .. Len(Chain) :
               /\ Chain[m].at \in 1 .. TotalDisk - 1 /\ Chain[m].at # 0
               /\ \E i \in 0 .. Slots : Chain[m].record.drive = ext[i]
         /\ \A m, l \in 1 .. Len(Chain) : m # l => Chain[m].at # Chain[l].at
  BY <1>8, ChainIs
<1>10. BlankInv'
  <2>1. CASE h.at = 0
    BY <1>1, <2>1 DEF SavedInv, BlankInv
  <2>2. CASE h.at # 0
    <3>1. Blank(h.record.drive)
      BY <1>7, <1>9, <2>2 DEF SavedInv, BlankInv
    <3>2. \A c \in 1 .. TotalDisk - 1 : boot'[c] = boot[c] \/ boot'[c] = h.record
      BY <1>1, <2>2 DEF IInv, BootInv
    <3> QED BY <1>1, <3>1, <3>2 DEF SavedInv, BlankInv
  <2> QED BY <2>1, <2>2
<1>11. ASSUME intact, OfType("extended") # {}, extChanged, NEW m \in 1 .. Len(Chain), pc = "writing"
       PROVE  \/ boot'[Chain[m].at] = Chain[m].record
              \/ \E k \in 1 .. Len(queue') : queue'[k] = Chain[m]
  <2>1. \/ boot[Chain[m].at] = Chain[m].record
        \/ \E k \in 1 .. Len(queue) : queue[k] = Chain[m]
    BY <1>11 DEF SavedInv, WrittenInv
  <2>2. Chain[m].at \in 1 .. TotalDisk - 1 /\ Chain[m].at # 0
    BY <1>9, <1>11
  <2>3. CASE h = Chain[m]
    BY <1>1, <2>2, <2>3 DEF IInv, BootInv
  <2>4. CASE h # Chain[m] /\ boot[Chain[m].at] = Chain[m].record
    <3>1. h.at # 0 => h.at # Chain[m].at
      BY <1>7, <1>9, <1>11, <2>4
    <3> QED BY <1>1, <2>2, <2>4, <3>1 DEF IInv, BootInv
  <2>5. CASE h # Chain[m] /\ \E k \in 1 .. Len(queue) : queue[k] = Chain[m]
    <3>1. PICK k \in 1 .. Len(queue) : queue[k] = Chain[m]
      BY <2>5
    <3>2. k # 1
      BY <1>3, <2>5, <3>1
    <3>3. k - 1 \in 1 .. Len(queue') /\ queue'[k - 1] = queue[k]
      BY <1>1, <1>3, <3>2
    <3> QED BY <3>1, <3>3
  <2> QED BY <2>1, <2>3, <2>4, <2>5
<1>12. WrittenInv'
  <2>1. intact => part' = master'
    BY <1>1, <1>7
  <2> QED BY <1>1, <1>4, <1>11, <2>1 DEF WrittenInv
<1> QED BY <1>6, <1>10, <1>12 DEF SavedInv

LEMMA FailSaved ==
    ASSUME IInv, SavedInv, FailRecord
    PROVE  SavedInv'
<1>1. /\ pc = "writing" /\ queue # <<>> /\ queue' = Tail(queue) /\ ~ intact'
      /\ UNCHANGED <<part, ext>>
  BY DEF FailRecord
<1>2. queue \in Seq(Item)
  BY DEF IInv, QueueInv, Sound
<1>3. /\ Len(Tail(queue)) = Len(queue) - 1 /\ Len(queue) \in Nat
      /\ \A k \in 1 .. Len(queue) - 1 : k + 1 \in 1 .. Len(queue) /\ Tail(queue)[k] = queue[k + 1]
  BY <1>1, <1>2
<1>4. Chain' = Chain /\ OfType("extended")' = OfType("extended")
  BY <1>1, ChainSame
<1>5. \A k \in 1 .. Len(queue)' :
         /\ k + 1 \in 1 .. Len(queue) /\ queue'[k] = queue[k + 1] /\ k + 1 # 1
  BY <1>1, <1>3
<1>6. QueuedInv'
  BY <1>4, <1>5 DEF QueuedInv, SavedInv
<1>7. WrittenInv'
  BY <1>1 DEF WrittenInv
<1> QED BY <1>6, <1>7, BlankKept DEF SavedInv

LEMMA StutterSaved ==
    ASSUME SavedInv, UNCHANGED vars
    PROVE  SavedInv'
<1>1. UNCHANGED <<master, boot, part, ext, extChanged, pc, queue, intact>>
  BY DEF vars
<1>2. Chain' = Chain /\ OfType("extended")' = OfType("extended")
  BY <1>1, ChainSame
<1> QED BY <1>1, <1>2 DEF SavedInv, BlankInv, QueuedInv, WrittenInv

LEMMA NextSaved ==
    ASSUME LayoutsFit, IInv, IInv', SavedInv, [Next]_vars
    PROVE  SavedInv'
<1>1. CASE \/ Start \/ ReadRecord \/ CreatePrimary \/ CreateExtended \/ OpenVolumes \/ CreateVolume
           \/ DeletePrimary \/ DeleteExtended \/ DeleteVolumes \/ ChangeActive \/ Finish \/ PowerCut
  <2>1. BlankInv'
    BY <1>1, BlankKept DEF SavedInv
  <2>2. pc' # "writing"
    BY <1>1 DEF Start, ReadRecord, CreatePrimary, CreateExtended, OpenVolumes, CreateVolume,
       DeletePrimary, DeleteExtended, DeleteVolumes, ChangeActive, Finish, PowerCut, Forget, Clear
  <2>3. queue' = <<>>
    BY <2>2 DEF IInv, QueueInv
  <2> QED BY <2>1, <2>2, <2>3, SavedIdle
<1>2. CASE CreateMaximum
  BY <1>2, CreateMaximumSaved
<1>3. CASE Leave
  BY <1>3, LeaveSaved
<1>4. CASE WriteRecord
  BY <1>4, WriteSaved
<1>5. CASE FailRecord
  BY <1>5, FailSaved
<1>6. CASE Rest \/ UNCHANGED vars
  BY <1>6, StutterSaved DEF Rest
<1> QED BY <1>1, <1>2, <1>3, <1>4, <1>5, <1>6 DEF Next

LEMMA SavedInvHolds ==
    ASSUME LayoutsFit
    PROVE  Spec => [](IInv /\ SavedInv)
<1>1. Init => IInv /\ SavedInv
  <2> SUFFICES ASSUME Init PROVE IInv /\ SavedInv
    OBVIOUS
  <2>1. BlankInv
    BY BlankJunk DEF Init, BlankInv
  <2>2. queue = <<>> /\ Len(queue) = 0 /\ pc # "writing"
    BY DEF Init
  <2> QED BY <2>1, <2>2, InitInv DEF SavedInv, QueuedInv, WrittenInv
<1>2. IInv /\ SavedInv /\ [Next]_vars => (IInv /\ SavedInv)'
  BY NextInv, NextSaved
<1> QED BY <1>1, <1>2, PTL DEF Spec

(* f is where the loop of init_partition_tables comes to, turn by turn.     *)
Visits(table, f) ==
    f = [k \in 0 .. Slots |->
           IF k = 0 THEN IF {i \in PartIndexes : table[i].sys = "extended"} = {} THEN None
                         ELSE table[Min({i \in PartIndexes : table[i].sys = "extended"})].start
           ELSE IF f[k - 1] = None THEN None ELSE Followed(boot[f[k - 1]]).next]

(* There is only one such function.                                         *)
LEMMA LoadedAre ==
    ASSUME NEW table, NEW f, Visits(table, f)
    PROVE  LoadedDrives(table) =
              [k \in 0 .. Slots |-> IF f[k] = None THEN NoDrive ELSE boot[f[k]].drive]
<1> DEFINE extended == {i \in PartIndexes : table[i].sys = "extended"}
           first == IF extended = {} THEN None ELSE table[Min(extended)].start
           Onto(c) == IF c = None THEN None ELSE Followed(boot[c]).next
           Def(g) == [k \in 0 .. Slots |->
                        IF k = 0 THEN IF extended = {} THEN None ELSE table[Min(extended)].start
                        ELSE IF g[k - 1] = None THEN None ELSE Followed(boot[g[k - 1]]).next]
           at == CHOOSE g : g = Def(g)
<1>1. f = Def(f)
  BY DEF Visits
<1>2. LoadedDrives(table) =
         [k \in 0 .. Slots |-> IF at[k] = None THEN NoDrive ELSE boot[at[k]].drive]
  BY DEF LoadedDrives
<1>3. at = Def(at)
  <2> HIDE DEF Def
  <2>1. \E g : g = Def(g)
    BY <1>1
  <2> QED BY <2>1, Zenon
<1>4. ASSUME NEW g, g = Def(g)
      PROVE  /\ g = [k \in 0 .. Slots |-> g[k]] /\ g[0] = first
             /\ \A k \in 1 .. Slots : g[k] = Onto(g[k - 1])
  <2>1. g = [k \in 0 .. Slots |-> IF k = 0 THEN first ELSE Onto(g[k - 1])]
    BY <1>4, Zenon
  <2> HIDE DEF Def, first, Onto
  <2>2. 0 \in 0 .. Slots /\ \A k \in 1 .. Slots : k \in 0 .. Slots /\ k # 0
    BY IndexTypes
  <2>3. g = [k \in 0 .. Slots |-> g[k]]
    BY <2>1
  <2>4. g[0] = first
    BY <2>1, <2>2, Zenon
  <2>5. \A k \in 1 .. Slots : g[k] = Onto(g[k - 1])
    BY <2>1, <2>2
  <2> QED BY <2>3, <2>4, <2>5
<1> HIDE DEF at, Def, first, Onto
<1>5. \A k \in 0 .. Slots : at[k] = f[k]
  <2> DEFINE Bad == {k \in 0 .. Slots : at[k] # f[k]}
  <2>1. SUFFICES ASSUME Bad # {} PROVE FALSE
    OBVIOUS
  <2>2. Slots \in Nat /\ Bad \in SUBSET Nat
    BY IndexTypes
  <2>3. PICK k \in Bad : \A j \in Bad : k <= j
    BY <2>1, <2>2, LeastExists
  <2>4. k # 0
    BY <1>1, <1>3, <1>4, <2>3
  <2>5. k \in 1 .. Slots /\ k - 1 \in 0 .. Slots /\ ~ (k <= k - 1)
    BY <2>2, <2>3, <2>4
  <2>6. at[k - 1] = f[k - 1]
    BY <2>3, <2>5
  <2>7. at[k] = Onto(at[k - 1]) /\ f[k] = Onto(f[k - 1])
    BY <1>1, <1>3, <1>4, <2>5
  <2> QED BY <2>3, <2>6, <2>7
<1>6. at = f
  <2>1. at = [k \in 0 .. Slots |-> at[k]] /\ f = [k \in 0 .. Slots |-> f[k]]
    BY <1>1, <1>3, <1>4
  <2> QED BY <1>5, <2>1
<1> QED BY <1>2, <1>6

(* The chain is on the disk as it was queued.                               *)
LEMMA ChainOnDisk ==
    ASSUME IInv, SavedInv, pc = "writing", queue = <<>>, intact, extChanged,
           OfType("extended") # {}, Drives # {}
    PROVE  /\ part = master
           /\ \A k \in 1 .. Cardinality(Drives) :
                 /\ boot[ext[DriveOrder[k]].start].drive = ext[DriveOrder[k]]
                 /\ boot[ext[DriveOrder[k]].start].next =
                       IF k = Cardinality(Drives) THEN None ELSE ext[DriveOrder[k + 1]].start
           /\ ext[DriveOrder[1]].start # Extended.start /\ ~ ext[0].used =>
                 /\ boot[Extended.start].drive = NoDrive
                 /\ boot[Extended.start].next = ext[DriveOrder[1]].start
<1> DEFINE n == Cardinality(Drives)
           o == DriveOrder
<1>1. SoundTable(part) /\ DrivesInv
  BY DEF IInv, TablesInv
<1>2. /\ n \in Nat /\ n > 0 /\ o \in [1 .. n -> Drives] /\ Len(o) = n
      /\ Drives \subseteq DriveIndexes
  BY <1>1, DriveOrderIs
<1>3. part = master
  BY DEF SavedInv, WrittenInv
<1>4. \A m \in 1 .. Len(Chain) : boot[Chain[m].at] = Chain[m].record
  <2>1. Len(queue) = 0
    OBVIOUS
  <2> QED BY <2>1 DEF SavedInv, WrittenInv
<1>5. /\ Chain \in Seq(Item)
      /\ \A k \in 1 .. Len(DriveRecords) : k \in 1 .. Len(Chain) /\ Chain[k] = DriveRecords[k]
  BY <1>1, ChainIs
<1>6. /\ Len(DriveRecords) = n
      /\ \A k \in 1 .. n :
            /\ DriveRecords[k].at = ext[o[k]].start
            /\ DriveRecords[k].record.drive = ext[o[k]]
            /\ DriveRecords[k].record.next = IF k = n THEN None ELSE ext[o[k + 1]].start
  BY <1>1, DriveRecordsAre
<1>7. ASSUME ext[o[1]].start # Extended.start, ~ ext[0].used
      PROVE  /\ boot[Extended.start].drive = NoDrive
             /\ boot[Extended.start].next = ext[o[1]].start
  <2> DEFINE item == [at |-> Extended.start,
                      record |-> [drive |-> ext[0], next |-> ext[o[1]].start]]
             s == DriveRecords
  <2> HIDE DEF n, o
  <2>1. o[1] \in Drives /\ o[1] # 0
    BY <1>2, <1>7 DEF Drives
  <2>2. o # <<>>
    <3>1. Len(<<>>) = 0
      OBVIOUS
    <3> QED BY <1>2, <3>1
  <2>3. DummyRecord = <<item>>
    BY <1>2, <1>7, <2>1, <2>2 DEF DummyRecord, ExtRecord, o
  <2>4. DriveRecords \in Seq(Item)
    BY <1>1, DriveRecordsSound DEF Sound
  <2>5. item.at = Extended.start /\ item.record.drive = ext[0] /\ item.record.next = ext[o[1]].start
    OBVIOUS
  <2>6. ext[0] = NoDrive
    <3>1. 0 \in 0 .. Slots
      BY IndexTypes
    <3> QED BY <1>7, <3>1 DEF SavedInv, BlankInv, Blank
  <2> HIDE DEF item, s
  <2>7. Chain = s \o <<item>> /\ s \in Seq(Item) /\ Len(s) = n
    BY <1>6, <2>3, <2>4 DEF Chain, s
  <2>8. n + 1 \in 1 .. Len(Chain) /\ Chain[n + 1] = item
    BY <1>2, <2>7
  <2>9. boot[Extended.start] = item.record
    BY <1>4, <2>5, <2>8
  <2> QED BY <2>5, <2>6, <2>9
<1> HIDE DEF n, o
<1>8. ASSUME NEW k \in 1 .. n
      PROVE  /\ boot[ext[o[k]].start].drive = ext[o[k]]
             /\ boot[ext[o[k]].start].next = IF k = n THEN None ELSE ext[o[k + 1]].start
  <2>1. boot[Chain[k].at] = Chain[k].record /\ Chain[k] = DriveRecords[k]
    BY <1>4, <1>5, <1>6
  <2> QED BY <1>6, <2>1
<1> QED BY <1>3, <1>7, <1>8 DEF n, o

(* The next run reads the drives of this one.                               *)
LEMMA ShownIsRead ==
    ASSUME IInv, SavedInv, pc = "writing", queue = <<>>, intact, extChanged,
           OfType("extended") # {}, Drives # {},
           Min({ext[i].start : i \in Drives}) = Extended.start \/ ~ ext[0].used
    PROVE  {LoadedDrives(master)[i] : i \in 0 .. Slots} \ {NoDrive} = {ext[i] : i \in Drives}
<1> DEFINE n == Cardinality(Drives)
           o == DriveOrder
           e == Extended.start
           s == IF ext[o[1]].start = e THEN 0 ELSE 1
           place(j) == IF j = 0 THEN e ELSE IF j <= n THEN ext[o[j]].start ELSE None
           Onto(c) == IF c = None THEN None ELSE Followed(boot[c]).next
           f == [k \in 0 .. Slots |-> place(k + 1 - s)]
           loaded(j) == IF place(j) = None THEN NoDrive ELSE boot[place(j)].drive
<1>1. SoundTable(part) /\ DrivesInv
  BY DEF IInv, TablesInv
<1>2. /\ n \in Nat /\ n > 0 /\ o \in [1 .. n -> Drives]
      /\ \A k, l \in 1 .. n : k < l => ext[o[k]].start < ext[o[l]].start
      /\ \A i \in Drives : \E k \in 1 .. n : o[k] = i
      /\ \A i \in Drives : ext[i] \in Drive
  BY <1>1, DriveOrderIs
<1>3. n <= Slots /\ Slots \in Nat
  <2>1. Drives \in SUBSET DriveIndexes
    BY DEF Drives
  <2>2. IsFiniteSet(DriveIndexes) /\ Cardinality(DriveIndexes) = Slots /\ Slots \in Nat
    BY IndexTypes
  <2> QED BY <2>1, <2>2, FS_Subset
<1>4. /\ part = master
      /\ \A k \in 1 .. n : /\ boot[ext[o[k]].start].drive = ext[o[k]]
                           /\ boot[ext[o[k]].start].next =
                                 IF k = n THEN None ELSE ext[o[k + 1]].start
      /\ ext[o[1]].start # e /\ ~ ext[0].used =>
            boot[e].drive = NoDrive /\ boot[e].next = ext[o[1]].start
  BY ChainOnDisk
<1>5. /\ e \in Int /\ e # None
      /\ {i \in PartIndexes : master[i].sys = "extended"} = OfType("extended")
      /\ master[Min(OfType("extended"))].start = e
  <2>1. e \in 1 .. TotalDisk - 1
    BY <1>1, ExtendedOnDisk
  <2> QED BY <1>4, <2>1, IndexTypes DEF OfType, Extended, None
<1>6. \A i \in Drives : /\ ext[i].start \in Nat /\ ext[i].start # None /\ ext[i].used
                        /\ e <= ext[i].start /\ ext[i] # NoDrive
  <2>1. \A i \in Drives : ext[i].start \in Nat /\ ext[i].start # None
    BY <1>2, IndexTypes DEF Drive, Disk, None
  <2>2. \A i \in Drives : ext[i].used /\ e <= ext[i].start
    BY <1>1 DEF Drives, DrivesInv
  <2>3. ~ NoDrive.used
    BY DEF NoDrive
  <2> QED BY <2>1, <2>2, <2>3
<1> HIDE DEF n, o, e
<1>7. s \in {0, 1} /\ (s = 0 => ext[o[1]].start = e) /\ (s = 1 => ext[o[1]].start # e)
  OBVIOUS
<1>8. ASSUME s = 1
      PROVE  boot[e].drive = NoDrive /\ boot[e].next = ext[o[1]].start
  <2>1. CASE ~ ext[0].used
    BY <1>4, <1>7, <1>8, <2>1
  <2>2. CASE Min({ext[i].start : i \in Drives}) = Extended.start
    <3> DEFINE S == {ext[i].start : i \in Drives}
    <3>1. S \in SUBSET Nat /\ S # {}
      BY <1>6
    <3>2. Min(S) \in S
      BY <3>1, LeastExists
    <3>3. PICK k \in 1 .. n : ext[o[k]].start = e
      BY <1>2, <2>2, <3>2 DEF e
    <3>4. k # 1 => ext[o[1]].start < ext[o[k]].start
      BY <1>2
    <3>5. o[1] \in Drives
      BY <1>2
    <3>6. ext[o[1]].start \in Nat /\ e <= ext[o[1]].start
      BY <1>6, <3>5
    <3> QED BY <1>5, <1>7, <1>8, <3>3, <3>4, <3>6
  <2> QED BY <2>1, <2>2
<1> HIDE DEF s
<1>9. ASSUME NEW j \in 1 .. n
      PROVE  /\ place(j) = ext[o[j]].start /\ place(j) # None
             /\ boot[place(j)].drive = ext[o[j]]
             /\ Onto(place(j)) = place(j + 1)
  <2>1. o[j] \in Drives /\ j # 0 /\ j <= n /\ j \in Int
    BY <1>2
  <2>2. place(j) = ext[o[j]].start /\ place(j) # None
    BY <1>6, <2>1
  <2>3. boot[place(j)].drive = ext[o[j]] /\ boot[place(j)].drive.used
    BY <1>4, <1>6, <2>1, <2>2
  <2>4. boot[place(j)].next = IF j = n THEN None ELSE ext[o[j + 1]].start
    BY <1>4, <2>2
  <2>5. place(j + 1) = IF j = n THEN None ELSE ext[o[j + 1]].start
    BY <1>2, <2>1
  <2> HIDE DEF place
  <2>6. Followed(boot[place(j)]) = boot[place(j)]
    BY <2>2, <2>3 DEF Followed
  <2> QED BY <2>2, <2>3, <2>4, <2>5, <2>6
<1>10. ASSUME s = 1
       PROVE  /\ place(0) # None /\ boot[place(0)].drive = NoDrive
              /\ Onto(place(0)) = place(1)
  <2>1. place(0) = e /\ place(1) = ext[o[1]].start
    BY <1>2
  <2>2. Followed(boot[e]) = boot[e]
    BY <1>8, <1>10 DEF Followed, NoDrive
  <2> HIDE DEF place
  <2> QED BY <1>5, <1>8, <1>10, <2>1, <2>2
<1>11. \A j \in Nat : j > n => place(j) = None /\ Onto(place(j)) = place(j + 1)
  BY <1>2
<1>12. place(1 - s) = e
  BY <1>2, <1>7
<1> HIDE DEF place, Onto
<1>13. ASSUME NEW k \in 1 .. Slots
       PROVE  place(k + 1 - s) = Onto(place((k - 1) + 1 - s))
  <2>1. PICK j \in Nat : j = (k - 1) + 1 - s /\ k + 1 - s = j + 1 /\ (j = 0 => s = 1)
    BY <1>3, <1>7
  <2>2. CASE j = 0
    BY <1>10, <2>1, <2>2
  <2>3. CASE j \in 1 .. n
    BY <1>9, <2>1, <2>3
  <2>4. CASE j > n
    BY <1>11, <2>1, <2>4
  <2> QED BY <1>2, <2>2, <2>3, <2>4
<1>14. LoadedDrives(master) = [k \in 0 .. Slots |-> IF f[k] = None THEN NoDrive ELSE boot[f[k]].drive]
  <2> DEFINE extended == {i \in PartIndexes : master[i].sys = "extended"}
             first == IF extended = {} THEN None ELSE master[Min(extended)].start
             g == [k \in 0 .. Slots |-> IF k = 0 THEN first ELSE Onto(f[k - 1])]
  <2>1. first = e
    BY <1>5
  <2>2. \A k \in 0 .. Slots : f[k] = IF k = 0 THEN first ELSE Onto(f[k - 1])
    <3> SUFFICES ASSUME NEW k \in 0 .. Slots
                 PROVE  f[k] = IF k = 0 THEN first ELSE Onto(f[k - 1])
      OBVIOUS
    <3>1. CASE k = 0
      <4>1. f[k] = place(1 - s)
        BY <1>7, <3>1
      <4> QED BY <1>12, <2>1, <3>1, <4>1
    <3>2. CASE k # 0
      <4>1. k \in 1 .. Slots /\ k - 1 \in 0 .. Slots
        BY <1>3, <3>2
      <4>2. f[k] = place(k + 1 - s) /\ f[k - 1] = place((k - 1) + 1 - s)
        BY <4>1
      <4> QED BY <1>13, <3>2, <4>1, <4>2
    <3> QED BY <3>1, <3>2
  <2>3. f = [k \in 0 .. Slots |-> f[k]]
    OBVIOUS
  <2> HIDE DEF f, first
  <2>4. f = g
    BY <2>2, <2>3
  <2>5. Visits(master, f)
    BY <2>4 DEF first, Onto, Visits
  <2> QED BY <2>5, LoadedAre
<1>15. \A k \in 0 .. Slots : LoadedDrives(master)[k] = loaded(k + 1 - s)
  <2>1. \A k \in 0 .. Slots : f[k] = place(k + 1 - s)
    OBVIOUS
  <2> HIDE DEF f
  <2> QED BY <1>14, <2>1
<1>16. \A j \in 1 .. n : loaded(j) = ext[o[j]]
  BY <1>9
<1>17. \A j \in Nat : j \notin 1 .. n /\ (j = 0 => s = 1) => loaded(j) = NoDrive
  BY <1>2, <1>10, <1>11
<1> HIDE DEF loaded
<1>18. ASSUME NEW k \in 0 .. Slots, LoadedDrives(master)[k] # NoDrive
       PROVE  \E i \in Drives : LoadedDrives(master)[k] = ext[i]
  <2>1. PICK j \in Nat : j = k + 1 - s /\ (j = 0 => s = 1)
    BY <1>3, <1>7
  <2>2. LoadedDrives(master)[k] = loaded(j)
    BY <1>15, <2>1
  <2>3. j \in 1 .. n
    BY <1>17, <1>18, <2>1, <2>2
  <2> QED BY <1>2, <1>16, <2>2, <2>3
<1>19. ASSUME NEW i \in Drives
       PROVE  ext[i] # NoDrive /\ \E k \in 0 .. Slots : LoadedDrives(master)[k] = ext[i]
  <2>1. PICK j \in 1 .. n : o[j] = i
    BY <1>2
  <2>2. PICK k \in 0 .. Slots : k + 1 - s = j
    <3>1. j - 1 + s \in 0 .. Slots /\ (j - 1 + s) + 1 - s = j
      BY <1>2, <1>3, <1>7
    <3> QED BY <3>1
  <2>3. LoadedDrives(master)[k] = ext[i]
    BY <1>15, <1>16, <2>1, <2>2
  <2> QED BY <1>6, <2>3
<1> HIDE DEF f
<1> QED BY <1>18, <1>19

(* When a run has written the chain, and all its writes have reached the    *)
(* disk, the next run reads the drives this one showed, in the cases        *)
(* write_info_to_disk gets right (write_info_to_disk, load_logical_drive,   *)
(* init_partition_tables).                                                  *)
THEOREM SavedAlwaysAsShown ==
    ASSUME LayoutsFit
    PROVE  Spec => []SavedAsShown
<1>1. ASSUME IInv, SavedInv PROVE SavedAsShown
  BY <1>1, ChainOnDisk, ShownIsRead DEF SavedAsShown
<1> QED BY <1>1, SavedInvHolds, PTL

=============================================================================
