----------------------------- MODULE FatVolume -----------------------------
(***************************************************************************)
(* The FAT volume on which the recovery utilities work                     *)
(* (CMD/RECOVERY/FATVOL.C): two copies of the allocation table and the     *)
(* sectors that hold directory slots or file data.  A cluster holds one    *)
(* sector and a table sector one entry, so that between any two entries    *)
(* written the power may fail.  The table has 16-bit entries; a size is    *)
(* counted in clusters; a name is a number, which gives the order the      *)
(* names sort in.                                                          *)
(***************************************************************************)
EXTENDS Integers, Sequences, FiniteSets, SequencesExt

CONSTANTS LastCluster,    \* volume->clusters + 1
          RootSectors     \* volume->root_sectors

ASSUME GeometryAssumption == LastCluster \in 0 .. 65534 /\ RootSectors \in Nat \ {0}

Cluster == 2 .. LastCluster
Eoc == 65535
Bad == 65527
IsEoc(value) == value >= 65528

\* The root directory has number 0, as in the code; every other directory is
\* named by its first cluster.  A position is a directory or cluster and the
\* index of the sector in it.
RootDir == 0
ClusterSector(c) == <<c, 1>>
Position == {<<RootDir, i>> : i \in 1 .. RootSectors} \cup {ClusterSector(c) : c \in Cluster}

Slot(kind, name, first, size, hidden) ==
    [kind |-> kind, name |-> name, first |-> first, size |-> size, hidden |-> hidden]
EndSlot == Slot("end", 0, 0, 0, FALSE)
DeletedSlot == Slot("deleted", 0, 0, 0, FALSE)

SlotType == [kind : {"file", "dir", "dot", "dotdot", "deleted", "end", "data"},
             name : Nat, first : Nat, size : Nat, hidden : BOOLEAN]

\* The sector that holds the i-th cluster of a file's data; a walk that takes it
\* for a directory's finds no entry in it.
Data(name, i) == <<Slot("data", name, i, 0, FALSE)>>

-----------------------------------------------------------------------------
\* One sector written to the disk: an entry of copy k of the table (k # 0), or
\* the sector at a position.
FatWrite(k, c, value) == [copy |-> k, at |-> c, value |-> value]
SectorWrite(p, slots) == [copy |-> 0, at |-> p, value |-> slots]

Apply(d, w) == IF w.copy = 0 THEN [d EXCEPT !.sec[w.at] = w.value]
                             ELSE [d EXCEPT !.fat[w.copy][w.at] = w.value]
ApplyAll(d, ws) ==
    LET after[i \in 0 .. Len(ws)] == IF i = 0 THEN d ELSE Apply(after[i - 1], ws[i])
    IN  after[Len(ws)]

\* fat_volume_get reads the first copy; fat_volume_set writes the copies in
\* order.
Get(d, c) == d.fat[1][c]

\* Mutant: only the first copy is written.
FatSetFirst(c, value) == <<FatWrite(1, c, value)>>
FatSet(c, value) == <<FatWrite(1, c, value), FatWrite(2, c, value)>>

\* The clusters from "first" on, in order, up to the first link that is no
\* cluster number or leads back into the chain.
Chain(d, first) ==
    LET walk[n \in 0 .. LastCluster] ==
            IF n = 0 THEN IF first \in Cluster THEN <<first>> ELSE <<>>
            ELSE LET s == walk[n - 1]
                 IN  IF s # <<>> /\ Get(d, Last(s)) \in Cluster \ ToSet(s)
                     THEN Append(s, Get(d, Last(s))) ELSE s
    IN  walk[LastCluster]

-----------------------------------------------------------------------------
\* Directories: their sectors in order, and the places of their slots as a
\* walk meets them (the first "end" slot ends its sector, not the walk).
DirSectors(d, dir) ==
    IF dir = RootDir THEN [i \in 1 .. RootSectors |-> <<RootDir, i>>]
    ELSE [i \in 1 .. Len(Chain(d, dir)) |-> ClusterSector(Chain(d, dir)[i])]

UsedSlots(slots) ==
    LET ends == {j \in DOMAIN slots : slots[j].kind = "end"}
    IN  IF ends = {} THEN Len(slots) ELSE (CHOOSE j \in ends : \A i \in ends : j <= i) - 1

Places(d, dir) ==
    FlattenSeq([i \in DOMAIN DirSectors(d, dir) |->
        LET p == DirSectors(d, dir)[i]
        IN  [j \in 1 .. UsedSlots(d.sec[p]) |-> [pos |-> p, slot |-> j]]])

SlotAt(d, place) == d.sec[place.pos][place.slot]

\* Some programs' walks do stop at it: the places up to there.
PlacesToEnd(d, dir) ==
    LET ps == DirSectors(d, dir)
        Ended(i) == \E slot \in ToSet(d.sec[ps[i]]) : slot.kind = "end"
    IN  SelectSeq(Places(d, dir),
            LAMBDA place : ~\E i, k \in DOMAIN ps : i < k /\ ps[k] = place.pos /\ Ended(i))
Named(slot) == slot.kind \in {"file", "dir"}

\* What a user finds on the volume: every named entry by its path, a file with
\* the data that its chain leads to, as far as no free cluster cuts it off.
FileData(d, first) ==
    LET kept == SelectSeq(Chain(d, first), LAMBDA c : Get(d, c) # 0)
    IN  [i \in DOMAIN kept |-> d.sec[ClusterSector(kept[i])]]

\* MAX_DEPTH of the programs is 64; no instance nests deeper than TreeDepth.
TreeDepth == 3

View(d) ==
    LET tree[depth \in 0 .. TreeDepth, dir \in Nat, path \in Seq(Nat)] ==
            UNION {LET slot == SlotAt(d, place)
                       here == Append(path, slot.name)
                   IN  CASE slot.kind = "file" ->
                                {[path |-> here, size |-> slot.size, data |-> FileData(d, slot.first)]}
                         [] slot.kind = "dir" /\ depth > 0 ->
                                {[path |-> here, size |-> 0, data |-> <<>>]}
                                \cup tree[depth - 1, slot.first, here]
                         [] OTHER -> {}
                   : place \in ToSet(Places(d, dir))}
    IN  tree[TreeDepth, RootDir, <<>>]

\* A volume without fault: the copies agree, names are not repeated, every named
\* slot has a chain of its own that an end mark ends, as long as the slot says,
\* and every other cluster is free or marked bad.
NamedSlots(d) ==
    LET named[depth \in 0 .. TreeDepth, dir \in Nat] ==
            FlattenSeq([i \in DOMAIN Places(d, dir) |->
                LET slot == SlotAt(d, Places(d, dir)[i])
                IN  IF ~Named(slot) THEN <<>>
                    ELSE <<slot>> \o (IF slot.kind = "dir" /\ depth > 0
                                      THEN named[depth - 1, slot.first] ELSE <<>>)])
    IN  named[TreeDepth, RootDir]

SoundSlot(d, slot) ==
    LET ch == Chain(d, slot.first)
    IN  IF slot.first = 0 THEN slot.kind = "file" /\ slot.size = 0
        ELSE /\ ch # <<>> /\ IsEoc(Get(d, Last(ch)))
             /\ slot.size = IF slot.kind = "file" THEN Len(ch) ELSE 0

Sound(d) ==
    LET slots == NamedSlots(d)
        Owned(i) == ToSet(Chain(d, slots[i].first))
    IN  /\ d.fat[1] = d.fat[2]
        /\ Cardinality({e.path : e \in View(d)}) = Len(slots)
        /\ \A i \in DOMAIN slots : SoundSlot(d, slots[i])
        /\ \A i, j \in DOMAIN slots : i # j => Owned(i) \cap Owned(j) = {}
        /\ {c \in Cluster : Get(d, c) \notin {0, Bad}} = UNION {Owned(i) : i \in DOMAIN slots}

=============================================================================
