------------------------------ MODULE ScanDisk ------------------------------
(***************************************************************************)
(* SCANDISK (CMD/SCANDISK/SCANDISK.C) with /CHECKONLY or /AUTOFIX, with    *)
(* and without /NOSAVE and /SURFACE.  It compares the table copies, walks  *)
(* the directories checking dot slots, names and cluster chains, turns     *)
(* lost chains into files or frees them, and moves data off a cluster that *)
(* fails the surface test.  Each action is one problem examined; it queues *)
(* the sectors of the repair, which reach the disk one by one.             *)
(***************************************************************************)
EXTENDS FatVolume

VARIABLES disk, queue,
          pc,         \* where scan_drive() is
          mode,       \* struct options: [fix, save, surface]
          stack,      \* directories entered: [dir, parent, at]
          claimed,    \* clusters of the chains seen
          incoming,   \* clusters some unclaimed cluster links to
          cursor,     \* the cluster a scan over the table has reached
          weak,       \* the cluster that fails the surface test, 0 if none
          nextName,   \* next_recovery_name and next_chk
          errors, unrepaired,    \* the two counts, as zero or not
          result

counts == <<nextName, errors, unrepaired>>
scanVars == <<mode, incoming, cursor, weak, counts>>
vars == <<disk, queue, pc, stack, claimed, result, scanVars>>

Running == result = "none"
Ready(at) == Running /\ queue = <<>> /\ pc = at

\* report_problem and permit_repair: a problem is repaired by the writes given
\* in the modes that repair; "left" says that the code counts it unresolved.
Repair(problem, left, writes) ==
    /\ errors' = (errors \/ problem)
    /\ unrepaired' = (unrepaired \/ (problem /\ left))
    /\ queue' = IF problem /\ mode.fix THEN writes ELSE <<>>

WriteSector ==
    /\ Running /\ queue # <<>>
    /\ disk' = Apply(disk, Head(queue))
    /\ queue' = Tail(queue)
    /\ UNCHANGED <<pc, stack, claimed, result, scanVars>>

Stop ==
    /\ Running /\ mode.fix
    /\ result' = "stopped" /\ pc' = "done" /\ queue' = <<>>
    /\ UNCHANGED <<disk, stack, claimed, scanVars>>

-----------------------------------------------------------------------------
\* compare_fat_mirrors: the first copy is taken for right.
CompareMirrors ==
    LET differ == {c \in Cluster : disk.fat[1][c] # disk.fat[2][c]}
        all == [i \in 1 .. LastCluster - 1 |-> i + 1]
        wrong == SelectSeq(all, LAMBDA c : c \in differ)
    IN  /\ Ready("mirrors")
        /\ Repair(differ # {}, ~mode.fix,
                  [i \in DOMAIN wrong |-> FatWrite(2, wrong[i], Get(disk, wrong[i]))])
        /\ pc' = "directories"
        /\ stack' = <<[dir |-> RootDir, parent |-> RootDir, at |-> 0]>>
        /\ UNCHANGED <<disk, claimed, result, mode, incoming, cursor, weak, nextName>>

-----------------------------------------------------------------------------
Frame == Head(stack)
DirPlaces == Places(disk, Frame.dir)
Advanced == <<[Frame EXCEPT !.at = @ + 1]>> \o Tail(stack)
Walking == Ready("directories") /\ stack # <<>>

\* validate_dot_entries, on entering a subdirectory.
CheckDots ==
    LET p == ClusterSector(Frame.dir)
        dots == <<Slot("dot", 0, Frame.dir, 0, FALSE), Slot("dotdot", 0, Frame.parent, 0, FALSE)>>
    IN  /\ Walking /\ Frame.at = 0
        /\ Repair(Frame.dir # RootDir /\ ~IsPrefix(dots, disk.sec[p]), ~mode.fix,
                  <<SectorWrite(p, dots \o SubSeq(disk.sec[p], 3, Len(disk.sec[p])))>>)
        /\ stack' = Advanced
        /\ UNCHANGED <<disk, pc, claimed, result, mode, incoming, cursor, weak, nextName>>

\* scan_chain.  The walk claims clusters up to a link that ends the chain: an
\* end mark, no cluster, a cluster already claimed, or the size reached.
LinkEnds(s, slot) ==
    LET next == Get(disk, Last(s))
    IN  \/ next \notin Cluster \/ next \in claimed \/ next \in ToSet(s)
        \/ slot.kind = "file" /\ slot.size = Len(s)

ScannedChain(slot) ==
    LET walk[n \in Nat] ==
            IF n = 0 THEN <<slot.first>>
            ELSE IF LinkEnds(walk[n - 1], slot) THEN walk[n - 1]
                 ELSE Append(walk[n - 1], Get(disk, Last(walk[n - 1])))
    IN  IF slot.first \notin Cluster \/ slot.first \in claimed
           \/ (slot.kind = "file" /\ slot.size = 0)
        THEN <<>> ELSE walk[LastCluster]

\* Mutant: the chain is cut one cluster early.
ChainCutEarly(s) ==
    IF s = <<>> \/ IsEoc(Get(disk, Last(s))) THEN 0
    ELSE IF Len(s) = 1 THEN s[1] ELSE s[Len(s) - 1]

\* Where the chain is cut off: before a link to a bad cluster's mark (but that
\* cluster counts as part of the file), at any other wrong link behind it.
ChainCut(s) ==
    LET next == Get(disk, Last(s))
    IN  IF s = <<>> \/ IsEoc(next) THEN 0
        ELSE IF next # Bad THEN Last(s)
        ELSE IF Len(s) = 1 THEN 0 ELSE s[Len(s) - 1]

\* What is wrong with a slot's chain, and the slot as it is repaired.
WrongEnd(s) == s # <<>> /\ ~IsEoc(Get(disk, Last(s)))
RepairedSlot(slot, s) ==
    IF s = <<>> /\ slot.first # 0 THEN
        IF slot.kind = "file" /\ slot.size = 0 THEN [slot EXCEPT !.first = 0]
        ELSE [slot EXCEPT !.first = 0, !.size = 0]
    ELSE IF slot.kind = "dir" THEN [slot EXCEPT !.size = 0]
    ELSE IF slot.size > Len(s) THEN [slot EXCEPT !.size = Len(s)]
    ELSE slot

\* name_seen_before and make_recovery_name (names from FoundNames on).
FoundNames == 1000
ChkNames == 2000
NamesBefore(n) ==
    {SlotAt(disk, place).name :
        place \in {q \in ToSet(PlacesToEnd(disk, Frame.dir)) \cap ToSet(SubSeq(DirPlaces, 1, n)) :
                      Named(SlotAt(disk, q))}}
NewName ==
    LET unused == {n \in nextName.found .. nextName.found + Len(DirPlaces) :
                      FoundNames + n \notin NamesBefore(Len(DirPlaces))}
    IN  CHOOSE n \in unused : \A m \in unused : n <= m

\* scan_directory, one slot.
Here == DirPlaces[Frame.at]
AtSlot == Walking /\ Frame.at \in 1 .. Len(DirPlaces)

PassSlot ==
    /\ AtSlot /\ ~Named(SlotAt(disk, Here))
    /\ stack' = Advanced
    /\ UNCHANGED <<disk, queue, pc, claimed, result, scanVars>>

RenameSlot ==
    LET slots == disk.sec[Here.pos]
    IN  /\ AtSlot /\ Named(SlotAt(disk, Here)) /\ mode.fix
        /\ SlotAt(disk, Here).name \in NamesBefore(Frame.at - 1)
        /\ Repair(TRUE, FALSE,
               <<SectorWrite(Here.pos, [slots EXCEPT ![Here.slot].name =
                                            FoundNames + NewName])>>)
        /\ nextName' = [nextName EXCEPT !.found = NewName + 1]
        /\ UNCHANGED <<disk, pc, stack, claimed, result, mode, incoming, cursor, weak>>

ScanSlot ==
    LET slots == disk.sec[Here.pos]
        slot == SlotAt(disk, Here)
        repeated == slot.name \in NamesBefore(Frame.at - 1)
        gone == slot.kind = "dir" /\ slot.first \notin Cluster
        s == ScannedChain(slot)
        fixed == IF gone THEN [slot EXCEPT !.kind = "deleted"] ELSE RepairedSlot(slot, s)
        cut == ChainCut(s)
    IN  /\ AtSlot /\ Named(slot) /\ ~(mode.fix /\ repeated)
        /\ Repair(repeated \/ fixed # slot \/ WrongEnd(s),
               ~mode.fix /\ (repeated \/ fixed # slot \/ cut # 0),
               (IF cut # 0 THEN FatSet(cut, Eoc) ELSE <<>>)
               \o (IF fixed # slot
                   THEN <<SectorWrite(Here.pos, [slots EXCEPT ![Here.slot] = fixed])>>
                   ELSE <<>>))
        /\ claimed' = claimed \cup ToSet(s)
        /\ stack' = IF slot.kind = "dir" /\ s # <<>>
                    THEN <<[dir |-> slot.first, parent |-> Frame.dir, at |-> 0]>> \o Advanced
                    ELSE Advanced
        /\ UNCHANGED <<disk, pc, result, mode, incoming, cursor, weak, nextName>>

LeaveDirectory ==
    /\ Walking /\ Frame.at > Len(DirPlaces)
    /\ stack' = Tail(stack)
    /\ UNCHANGED <<disk, queue, pc, claimed, result, scanVars>>

-----------------------------------------------------------------------------
\* find_lost_clusters: a first pass takes the chains with a head, a second the
\* cycles, which have none.
InUse(c) == LET value == Get(disk, c) IN value \in Cluster \/ IsEoc(value)

EndDirectories ==
    /\ Ready("directories") /\ stack = <<>>
    /\ incoming' = {Get(disk, c) : c \in Cluster \ claimed} \cap Cluster
    /\ pc' = "lost" /\ cursor' = 2
    /\ UNCHANGED <<disk, queue, stack, claimed, result, mode, weak, counts>>

\* Mutant: the walk does not stop at a cluster that a file owns.
LostChainUnclaimed(head) ==
    LET walk[n \in Nat] ==
            IF n = 0 THEN <<head>>
            ELSE LET s == walk[n - 1]
                     next == Get(disk, Last(s))
                 IN  IF next \in Cluster \ ToSet(s) THEN Append(s, next) ELSE s
    IN  walk[LastCluster]

\* chain_length, and the clusters that /NOSAVE frees.
LostChain(head) ==
    LET walk[n \in Nat] ==
            IF n = 0 THEN <<head>>
            ELSE LET s == walk[n - 1]
                     next == Get(disk, Last(s))
                 IN  IF next \in (Cluster \ claimed) \ ToSet(s) THEN Append(s, next) ELSE s
    IN  walk[LastCluster]

\* create_chk_entry: the first free slot of the root directory.  The name is
\* not compared with the names that are there.
ChkWrites(first, size) ==
    LET Free(p) == {j \in DOMAIN disk.sec[p] : disk.sec[p][j].kind \in {"end", "deleted"}}
        sectors == {p \in ToSet(DirSectors(disk, RootDir)) : Free(p) # {}}
        p == CHOOSE q \in sectors : \A r \in sectors : q[2] <= r[2]
        j == CHOOSE i \in Free(p) : \A k \in Free(p) : i <= k
        chk == Slot("file", ChkNames + nextName.chk, first, size, FALSE)
    IN  IF sectors = {} THEN <<>> ELSE <<SectorWrite(p, [disk.sec[p] EXCEPT ![j] = chk])>>

\* In the second pass the saved cycle is cut open before its file is made.
Lost == {c \in Cluster \ claimed : c >= cursor /\ InUse(c) /\ (pc = "lost" => c \notin incoming)}
LostHead == CHOOSE c \in Lost : \A e \in Lost : c <= e
TakeLostChain ==
    LET head == LostHead
        s == LostChain(head)
        open == IF pc = "cycles" THEN FatSet(Last(s), Eoc) ELSE <<>>
        chk == ChkWrites(head, Len(s))
    IN  /\ Running /\ queue = <<>> /\ pc \in {"lost", "cycles"} /\ Lost # {}
        /\ IF mode.save THEN Repair(TRUE, ~mode.fix \/ chk = <<>>, open \o chk)
           ELSE Repair(TRUE, ~mode.fix, FlattenSeq([i \in DOMAIN s |-> FatSet(s[i], 0)]))
        /\ nextName' = IF mode.fix /\ mode.save /\ chk # <<>>
                       THEN [nextName EXCEPT !.chk = @ + 1] ELSE nextName
        /\ claimed' = claimed \cup ToSet(s)
        /\ cursor' = head + 1
        /\ UNCHANGED <<disk, pc, stack, result, mode, incoming, weak>>

EndPass ==
    /\ Running /\ queue = <<>> /\ pc \in {"lost", "cycles"} /\ Lost = {}
    /\ pc' = IF pc = "lost" THEN "cycles" ELSE IF mode.surface THEN "surface" ELSE "end"
    /\ cursor' = 2
    /\ UNCHANGED <<disk, queue, stack, claimed, result, mode, incoming, weak, counts>>

-----------------------------------------------------------------------------
\* replace_directory_start: the first slot, dot slots apart, that starts at the
\* cluster, found depth first; a list of at most one write.
StartWrites(old, new) ==
    LET writes[depth \in 0 .. TreeDepth, dir \in Nat] ==
            LET places == PlacesToEnd(disk, dir)
                First(place) ==
                    LET slot == SlotAt(disk, place)
                    IN  IF ~Named(slot) THEN <<>>
                        ELSE IF slot.first = old
                             THEN <<SectorWrite(place.pos, [disk.sec[place.pos] EXCEPT
                                                                ![place.slot].first = new])>>
                        ELSE IF slot.kind = "dir" /\ slot.first # 0 /\ depth > 0
                             THEN writes[depth - 1, slot.first]
                        ELSE <<>>
                found == {i \in DOMAIN places : First(places[i]) # <<>>}
            IN  IF found = {} THEN <<>>
                ELSE First(places[CHOOSE i \in found : \A k \in found : i <= k])
    IN  writes[TreeDepth, RootDir]

\* surface_scan and relocate_occupied_cluster: the data goes to the first free
\* cluster and whatever leads to the weak one is led there; when nothing does,
\* the weak cluster is not marked and the problem stays.
Spare == {c \in Cluster \ {weak} : Get(disk, c) = 0}
Replacement == CHOOSE c \in Spare : \A e \in Spare : c <= e
Leading == {c \in Cluster \ {weak} : Get(disk, c) = weak}
LeadWrites ==
    IF Leading # {} THEN FatSet(CHOOSE c \in Leading : \A e \in Leading : c <= e, Replacement)
    ELSE StartWrites(weak, Replacement)
RelocationWrites ==
    <<SectorWrite(ClusterSector(Replacement), disk.sec[ClusterSector(weak)])>>
    \o FatSet(Replacement, Get(disk, weak)) \o LeadWrites
    \o (IF LeadWrites # <<>> THEN FatSet(weak, Bad) ELSE <<>>)

SurfaceScan ==
    LET found == weak # 0 /\ Get(disk, weak) # Bad
        inUse == weak \in claimed
        moved == Spare # {} /\ LeadWrites # <<>>
        writes == IF ~inUse THEN FatSet(weak, Bad)
                  ELSE IF Spare = {} THEN <<>> ELSE RelocationWrites
    IN  /\ Ready("surface")
        /\ Repair(found, ~mode.fix \/ (inUse /\ ~moved), writes)
        /\ claimed' = IF found /\ mode.fix /\ inUse /\ moved
                      THEN (claimed \ {weak}) \cup {Replacement} ELSE claimed
        /\ pc' = "end"
        /\ UNCHANGED <<disk, stack, result, mode, incoming, cursor, weak, nextName>>

-----------------------------------------------------------------------------
\* Faults that the program meets and reports, counts as repaired or not at all,
\* and leaves in another form.  In the slot it is at: a directory whose first
\* cluster is taken is detached and stays a directory; a bad first cluster is
\* kept; a file cut off before a bad cluster keeps a size that counts it.
LeavesSlot ==
    LET slot == SlotAt(disk, Here)
        s == ScannedChain(slot)
    IN  /\ AtSlot /\ Named(slot)
        /\ \/ slot.kind = "dir" /\ slot.first \in claimed
           \/ s # <<>> /\ Get(disk, Last(s)) = Bad /\ (slot.kind = "file" \/ Len(s) = 1)

\* In the lost chain it takes, when it saves it: a chain that no end mark ends
\* is not ended, and the name may be one that an earlier repair gave.
LeavesLostChain ==
    /\ Running /\ queue = <<>> /\ pc \in {"lost", "cycles"} /\ Lost # {} /\ mode.save
    /\ \/ pc = "lost" /\ ~IsEoc(Get(disk, Last(LostChain(LostHead))))
       \/ \E place \in ToSet(Places(disk, RootDir)) :
             Named(SlotAt(disk, place)) /\ SlotAt(disk, place).name = ChkNames + nextName.chk

\* In a directory moved off a weak cluster: its "." entry names the old one.
LeavesDots ==
    /\ Ready("surface") /\ weak # 0 /\ Get(disk, weak) # Bad
    /\ \E slot \in ToSet(NamedSlots(disk)) : slot.kind = "dir" /\ slot.first = weak

Leaves == LeavesSlot \/ LeavesLostChain \/ LeavesDots

-----------------------------------------------------------------------------
\* The exit code of scan_drive.
Finish ==
    /\ Ready("end")
    /\ result' = IF ~errors THEN "0" ELSE IF unrepaired THEN "255" ELSE "254"
    /\ pc' = "done"
    /\ UNCHANGED <<disk, queue, stack, claimed, scanVars>>

Progress == CompareMirrors \/ CheckDots \/ PassSlot \/ RenameSlot \/ ScanSlot \/ LeaveDirectory
            \/ EndDirectories \/ TakeLostChain \/ EndPass \/ SurfaceScan \/ Finish \/ WriteSector
Next == Progress \/ Stop

=============================================================================
