-------------------------- MODULE MCVolumeRecovery --------------------------
(* Instances of VolumeRecovery: a file of two clusters and a subdirectory    *)
(* with a file of one cluster, on every placement of the four clusters.      *)
EXTENDS VolumeRecovery

CONSTANTS BadCluster    \* a cluster marked bad before, 0 if none

\* File 3 at p[1] and p[2], hidden or not, at the end of the root's first
\* sector, subdirectory 2 at p[3] in the second, file 1 in it at p[4].
Volume(p, hide) ==
    LET link == [c \in Cluster |-> IF c = p[1] THEN p[2]
                                   ELSE IF c \in {p[2], p[3], p[4]} THEN Eoc
                                   ELSE IF c = BadCluster THEN Bad ELSE 0]
        content == (<<RootDir, 1>> :> <<DeletedSlot, DeletedSlot, DeletedSlot,
                                        Slot("file", 3, p[1], 2, hide)>>)
                @@ (<<RootDir, 2>> :> <<Slot("dir", 2, p[3], 0, FALSE), EndSlot, EndSlot, EndSlot>>)
                @@ (ClusterSector(p[1]) :> Data(3, 1)) @@ (ClusterSector(p[2]) :> Data(3, 2))
                @@ (ClusterSector(p[3]) :> <<Slot("dot", 0, p[3], 0, FALSE), Slot("dotdot", 0, 0, 0, FALSE),
                                             Slot("file", 1, p[4], 1, FALSE), EndSlot>>)
                @@ (ClusterSector(p[4]) :> Data(1, 1))
                @@ [q \in Position |-> Data(0, 0)]
    IN  [fat |-> <<link, link>>, sec |-> content]

\* Volumes with a fault of each kind that the programs look for.
Relink(d, c, value) == [d EXCEPT !.fat = [k \in 1 .. 2 |-> [d.fat[k] EXCEPT ![c] = value]]]
Faulty(p) ==
    LET d == Volume(p, FALSE)
        spare == CHOOSE c \in Cluster : Get(d, c) = 0
        inner == ClusterSector(p[3])
    IN  {Relink(d, p[k], Bad) : k \in 1 .. 4} \cup                \* a link is a bad mark
        {Relink(d, spare, Eoc),                                \* a lost cluster
         Relink(Relink(d, spare, p[1]), p[2], spare),          \* a loop through file 3
         [d EXCEPT !.fat = [k \in 1 .. 2 |->             \* every cluster taken
                                [c \in Cluster |-> IF Get(d, c) = 0 THEN Eoc ELSE Get(d, c)]]],
         Relink(d, p[1], 0),                                   \* file 3 cut off
         Relink(d, p[2], p[4]),                                \* file 3 runs into file 1
         Relink(d, spare, spare),                              \* a lost cycle
         [d EXCEPT !.fat[2][p[2]] = 0],                        \* the copies differ
         [d EXCEPT !.sec[inner][3].first = p[2]],   \* file 1 starts in file 3
         [d EXCEPT !.sec[inner][3].size = 0],       \* file 1 has no size
         [d EXCEPT !.sec[<<RootDir, 2>>][1].first = 0],        \* the subdirectory starts nowhere
         [d EXCEPT !.sec[<<RootDir, 2>>][1].first = p[1]],     \* the subdirectory starts in file 3
         [d EXCEPT !.sec[inner][3] = Slot("dir", 1, p[3], 0, FALSE)],   \* it is in itself
         [d EXCEPT !.sec[<<RootDir, 1>>] = [j \in 1 .. 4 |-> EndSlot]], \* a root sector is empty
         [d EXCEPT !.sec[<<RootDir, 2>>][1].name = 3]}         \* two slots of one name

Placements == {<<5, 3, 4, 7>>, <<5, 3, 7, 4>>, <<6, 3, 8, 5>>}
DiskSet == {Volume(p, FALSE) : p \in Placements} \cup {Volume(<<5, 4, 6, 3>>, TRUE)}
           \cup Faulty(<<5, 3, 4, 6>>)

OptionSet == {[full |-> f, hidden |-> FALSE, sort |-> FALSE, interactive |-> FALSE] : f \in BOOLEAN}
             \cup {[full |-> TRUE, hidden |-> TRUE, sort |-> TRUE, interactive |-> TRUE]}
Nosave == [fix |-> TRUE, save |-> FALSE, surface |-> FALSE]
Save == [Nosave EXCEPT !.save = TRUE]
Autofix == {Nosave, Save, [Nosave EXCEPT !.surface = TRUE]}
=============================================================================
