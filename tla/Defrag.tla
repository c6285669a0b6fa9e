------------------------------- MODULE Defrag -------------------------------
(***************************************************************************)
(* DEFRAG (CMD/DEFRAG/DEFRAG.C).  The program checks the volume, moves     *)
(* fragmented files into free runs while it walks the directories (/U and  *)
(* /F), moves clusters down into the gaps (/F) and sorts the directories   *)
(* (/S).  Each action is one call that changes the disk; it queues the     *)
(* sectors the call writes, in the code's order, and they reach the disk   *)
(* one by one, so that a failing write, an interrupt or a power cut can    *)
(* fall between any two of them (Stop).  No other program runs meanwhile,  *)
(* so what a call reads is what the calls before it wrote.                 *)
(***************************************************************************)
EXTENDS FatVolume, TLC

CONSTANTS Disks,      \* the volumes DEFRAG may be started on
          OptionSets  \* [full, hidden, sort, interactive] combinations

\* Two copies of the table, of 16-bit entries, and every sector of slots.
ASSUME DisksAssumption ==
    Disks \subseteq [fat : [1 .. 2 -> [Cluster -> 0 .. Eoc]],
                     sec : [Position -> Seq(SlotType)]]

VARIABLES disk,       \* [fat |-> two table copies, sec |-> position -> slots]
          queue,      \* sectors the current call has still to write
          pc,         \* where defragment() is
          options,    \* struct options
          stack,      \* directories entered: [dir, at], innermost first
          allocated, claimed, movable,   \* the three cluster maps
          target, source,                \* compact_free_space's cursors
          result      \* the exit code, or why there is none

programVars == <<pc, options, stack, allocated, claimed, movable, target, source, result>>

Running == result = "none"

DefragInit ==
    /\ disk \in Disks
    /\ options \in OptionSets
    /\ queue = <<>> /\ stack = <<>> /\ pc = "check"
    /\ allocated = {} /\ claimed = {} /\ movable = {}
    /\ target = 2 /\ source = 2
    /\ result = "none"

-----------------------------------------------------------------------------
Exit(code) ==
    /\ result' = code
    /\ pc' = "done"
    /\ UNCHANGED <<disk, queue, options, stack, allocated, claimed, movable, target, source>>

\* One queued sector reaches the disk.
WriteSector ==
    /\ Running /\ queue # <<>>
    /\ disk' = Apply(disk, Head(queue))
    /\ queue' = Tail(queue)
    /\ UNCHANGED programVars

\* A write that fails, DEFRAG_FAILSTEP or the power: what is queued is lost.
Stop ==
    /\ Running /\ pc # "check"
    /\ result' = "stopped"
    /\ queue' = <<>>
    /\ pc' = "done"
    /\ UNCHANGED <<disk, options, stack, allocated, claimed, movable, target, source>>

Ready(at) == Running /\ queue = <<>> /\ pc = at

-----------------------------------------------------------------------------
\* compare_fats, build_allocation_map and reset_analysis.
FatsDiffer == disk.fat[1] # disk.fat[2]
AllocatedOnDisk == {c \in Cluster : Get(disk, c) # 0}

CheckVolume ==
    /\ Ready("check")
    /\ IF FatsDiffer THEN Exit("7")
       ELSE IF AllocatedOnDisk = Cluster THEN Exit("2")
       ELSE /\ allocated' = AllocatedOnDisk
            /\ claimed' = {} /\ movable' = {}
            /\ pc' = IF options.interactive THEN "analyse" ELSE "relocate"
            /\ stack' = <<[dir |-> RootDir, at |-> 1]>>
            /\ UNCHANGED <<disk, queue, options, target, source, result>>

\* inspect_chain: a chain is sound when none of its clusters was claimed and
\* its last link is an end mark.
ChainSound(ch) == ch # <<>> /\ ToSet(ch) \cap claimed = {} /\ IsEoc(Get(disk, Last(ch)))
Fragmented(ch) == \E i \in 1 .. Len(ch) - 1 : ch[i + 1] # ch[i] + 1

\* find_free_run: the lowest run of that many unallocated clusters.
FreeRuns(count) ==
    {c \in Cluster : c + count - 1 <= LastCluster /\ c .. c + count - 1 \cap allocated = {}}
LowestOf(S) == CHOOSE c \in S : \A e \in S : c <= e

\* Mutant: the old chain is freed before the entry leaves it.
RelocationWritesFreeFirst(ch, run, place) ==
    LET n == Len(ch)
        slots == disk.sec[place.pos]
    IN  [i \in 1 .. n |-> SectorWrite(ClusterSector(run + i - 1), disk.sec[ClusterSector(ch[i])])]
        \o FlattenSeq([i \in 1 .. n |-> FatSet(run + i - 1, IF i = n THEN Eoc ELSE run + i)])
        \o FlattenSeq([i \in 1 .. n |-> FatSet(ch[i], 0)])
        \o <<SectorWrite(place.pos, [slots EXCEPT ![place.slot].first = run])>>

\* relocate_file: copy the clusters, chain the copies, point the entry at them,
\* free the old chain from its head.
RelocationWrites(ch, run, place) ==
    LET n == Len(ch)
        slots == disk.sec[place.pos]
    IN  [i \in 1 .. n |-> SectorWrite(ClusterSector(run + i - 1), disk.sec[ClusterSector(ch[i])])]
        \o FlattenSeq([i \in 1 .. n |-> FatSet(run + i - 1, IF i = n THEN Eoc ELSE run + i)])
        \o <<SectorWrite(place.pos, [slots EXCEPT ![place.slot].first = run])>>
        \o FlattenSeq([i \in 1 .. n |-> FatSet(ch[i], 0)])

Frame == Head(stack)
DirPlaces == Places(disk, Frame.dir)
Advanced == <<[Frame EXCEPT !.at = @ + 1]>> \o Tail(stack)
Walking == Running /\ queue = <<>> /\ pc \in {"analyse", "relocate"} /\ stack # <<>>

MayMove(slot) == ~slot.hidden \/ options.hidden

\* process_directory, one slot: passed over, refused, entered, or a file that
\* may be relocated.
Here == DirPlaces[Frame.at]
HereSlot == SlotAt(disk, Here)
HereChain == Chain(disk, HereSlot.first)
AtSlot == Walking /\ Frame.at <= Len(DirPlaces)
HasChain == HereSlot.kind = "dir" \/ (HereSlot.kind = "file" /\ HereSlot.first # 0)

Claim(map) == map \cup ToSet(HereChain)
ClaimMovable == IF MayMove(HereSlot) THEN Claim(movable) ELSE movable

SkipSlot ==
    /\ AtSlot /\ ~HasChain
    /\ stack' = Advanced
    /\ UNCHANGED <<disk, queue, pc, options, allocated, claimed, movable, target, source, result>>

RefuseChain ==
    /\ AtSlot /\ HasChain /\ ~ChainSound(HereChain)
    /\ Exit("7")

EnterDirectory ==
    /\ AtSlot /\ HereSlot.kind = "dir" /\ ChainSound(HereChain)
    /\ claimed' = Claim(claimed)
    /\ movable' = ClaimMovable
    /\ stack' = <<[dir |-> HereSlot.first, at |-> 1]>> \o Advanced
    /\ UNCHANGED <<disk, queue, pc, options, allocated, target, source, result>>

FileHere == AtSlot /\ HasChain /\ HereSlot.kind = "file" /\ ChainSound(HereChain)
Runs == FreeRuns(Len(HereChain))
Relocates == pc = "relocate" /\ Fragmented(HereChain) /\ MayMove(HereSlot) /\ Runs # {}

KeepFile ==
    /\ FileHere /\ ~Relocates
    /\ claimed' = Claim(claimed)
    /\ movable' = ClaimMovable
    /\ stack' = Advanced
    /\ UNCHANGED <<disk, queue, pc, options, allocated, target, source, result>>

RelocateFile ==
    /\ FileHere /\ Relocates
    /\ LET run == LowestOf(Runs)
           Moved(map) == (map \cup run .. run + Len(HereChain) - 1) \ ToSet(HereChain)
       IN  /\ queue' = RelocationWrites(HereChain, run, Here)
           /\ allocated' = Moved(allocated)
           /\ claimed' = Moved(claimed)
           /\ movable' = Moved(movable)
    /\ stack' = Advanced
    /\ UNCHANGED <<disk, pc, options, target, source, result>>

LeaveDirectory ==
    /\ Walking
    /\ Frame.at > Len(DirPlaces)
    /\ stack' = Tail(stack)
    /\ UNCHANGED <<disk, queue, pc, options, allocated, claimed, movable, target, source, result>>

\* validate_claimed_allocations, after the analysis pass and after the walk
\* that relocates.
NothingLost == \A c \in allocated \ claimed : Get(disk, c) = Bad

EndWalk ==
    /\ Running /\ queue = <<>> /\ pc \in {"analyse", "relocate"} /\ stack = <<>>
    /\ IF ~NothingLost THEN Exit("7")
       ELSE /\ pc' = IF pc = "analyse" THEN "relocate"
                     ELSE IF options.full THEN "compact" ELSE "sort"
            /\ stack' = <<[dir |-> RootDir, at |-> 1]>>
            /\ claimed' = IF pc = "analyse" THEN {} ELSE claimed
            /\ movable' = IF pc = "analyse" THEN {} ELSE movable
            /\ UNCHANGED <<disk, queue, options, allocated, target, source, result>>

-----------------------------------------------------------------------------
\* replace_directory_references: the sectors written when every slot that
\* starts at "old", dot slots included, is made to start at "new".  A sector
\* is written before a subdirectory named in it is entered, and at its end,
\* if slots have changed since it was read: it is read again on the way back.
\* The directories have been found to share no sector.
ReferenceWrites(d, old, new) ==
    LET Redirects(slot) == slot.first = old /\ slot.kind \notin {"end", "deleted", "data"}
        Redirected(slot) == IF Redirects(slot) THEN [slot EXCEPT !.first = new] ELSE slot
        Enters(slot) == slot.kind = "dir" /\ Redirected(slot).first # 0
        Flush(p, first, last) ==
            IF \E j \in first .. last : Redirects(d.sec[p][j])
            THEN <<SectorWrite(p, [j \in DOMAIN d.sec[p] |->
                                     IF j <= last THEN Redirected(d.sec[p][j]) ELSE d.sec[p][j]])>>
            ELSE <<>>
        \* The slot behind the last subdirectory that is named before slot j.
        Read(p, j) == CHOOSE i \in 1 .. j :
                        /\ i = 1 \/ Enters(d.sec[p][i - 1])
                        /\ \A k \in i .. j - 1 : ~Enters(d.sec[p][k])
        In(p, below) ==
            LET used == UsedSlots(d.sec[p])
            IN  FlattenSeq([j \in 1 .. used |->
                    IF ~Enters(d.sec[p][j]) THEN <<>>
                    ELSE Flush(p, Read(p, j), j)
                         \o (IF Redirected(d.sec[p][j]).first \in Cluster
                             THEN below[Redirected(d.sec[p][j]).first] ELSE <<>>)])
                \o Flush(p, Read(p, used + 1), used)
        writes[depth \in 0 .. TreeDepth + 1] ==
            IF depth = 0 THEN [dir \in {RootDir} \cup Cluster |-> <<>>]
            ELSE [dir \in {RootDir} \cup Cluster |->
                    FlattenSeq([i \in 1 .. Len(DirSectors(d, dir)) |->
                        In(DirSectors(d, dir)[i], writes[depth - 1])])]
    IN  writes[TreeDepth + 1][RootDir]

\* move_cluster: copy, link the copy, redirect the links and the slots that
\* name the source, free the source.
MoveWrites(from, to) ==
    LET copy == <<SectorWrite(ClusterSector(to), disk.sec[ClusterSector(from)])>>
                \o FatSet(to, Get(disk, from))
        Links(c) == from = Get(disk, IF c = to THEN from ELSE c)
        links == FlattenSeq([i \in 1 .. LastCluster - 1 |->
                     IF Links(i + 1) THEN FatSet(i + 1, to) ELSE <<>>])
    IN  copy \o links \o ReferenceWrites(ApplyAll(disk, copy \o links), from, to) \o FatSet(from, 0)

\* Mutant: the cursor is advanced once more than a move takes.
SourcesPassOne == {c \in movable : c > source /\ c > LowestOf({g \in Cluster : g >= target /\ g \notin allocated})}

\* compact_free_space: the next gap takes the next movable cluster above it.
Gaps == {c \in Cluster : c >= target /\ c \notin allocated}
Gap == LowestOf(Gaps)
Sources == {c \in movable : c >= source /\ c > Gap}

CompactStep ==
    /\ Ready("compact")
    /\ Gaps # {} /\ Sources # {}
    /\ LET from == LowestOf(Sources)
           Moved(map) == (map \cup {Gap}) \ {from}
       IN  /\ queue' = MoveWrites(from, Gap)
           /\ allocated' = Moved(allocated)
           /\ claimed' = Moved(claimed)
           /\ movable' = Moved(movable)
           /\ target' = Gap + 1
           /\ source' = from + 1
    /\ UNCHANGED <<disk, pc, options, stack, result>>

CompactEnd ==
    /\ Ready("compact")
    /\ Gaps = {} \/ Sources = {}
    /\ pc' = "sort"
    /\ UNCHANGED <<disk, queue, options, stack, allocated, claimed, movable, target, source, result>>

-----------------------------------------------------------------------------
\* sort_directory: all named slots of a directory are collected, sorted and
\* put back sector by sector; then its subdirectories, in their new order.
SortWrites(dir) ==
    LET places == SelectSeq(Places(disk, dir), LAMBDA pl : Named(SlotAt(disk, pl)))
        sorted == SortSeq([i \in DOMAIN places |-> SlotAt(disk, places[i])],
                          LAMBDA a, b : a.name < b.name)
        Rank(p, j) == CHOOSE i \in DOMAIN places : places[i] = [pos |-> p, slot |-> j]
        Sorted(p) == [j \in DOMAIN disk.sec[p] |->
                         IF [pos |-> p, slot |-> j] \in ToSet(places)
                         THEN sorted[Rank(p, j)] ELSE disk.sec[p][j]]
    IN  FlattenSeq([i \in 1 .. Len(DirSectors(disk, dir)) |->
            LET p == DirSectors(disk, dir)[i]
            IN  IF \E k \in DOMAIN places : places[k].pos = p
                THEN <<SectorWrite(p, Sorted(p))>> ELSE <<>>])

Subdirectories(d, dir) ==
    LET places == SelectSeq(Places(d, dir), LAMBDA pl : SlotAt(d, pl).kind = "dir")
    IN  [i \in DOMAIN places |-> [dir |-> SlotAt(d, places[i]).first, at |-> 1]]

SortStep ==
    /\ Ready("sort") /\ options.sort /\ stack # <<>>
    /\ queue' = SortWrites(Frame.dir)
    /\ stack' = Subdirectories(ApplyAll(disk, queue'), Frame.dir) \o Tail(stack)
    /\ UNCHANGED <<disk, pc, options, allocated, claimed, movable, target, source, result>>

Finish ==
    /\ Ready("sort") /\ (~options.sort \/ stack = <<>>)
    /\ Exit("0")

-----------------------------------------------------------------------------
DefragNext == CheckVolume \/ SkipSlot \/ RefuseChain \/ EnterDirectory \/ KeepFile
              \/ RelocateFile \/ LeaveDirectory \/ EndWalk \/ CompactStep \/ CompactEnd
              \/ SortStep \/ Finish \/ WriteSector

-----------------------------------------------------------------------------
\* What entry c of copy k of the table will be once all that is queued has been
\* written: the value of the last write to it in ws, v when there is none.
WritesTo(ws, k, c) == {i \in 1 .. Len(ws) : ws[i].copy = k /\ ws[i].at = c}
HighestOf(S) == CHOOSE i \in S : \A j \in S : j <= i
Final(ws, k, c, v) ==
    LET S == WritesTo(ws, k, c)
    IN  IF S = {} THEN v ELSE ws[HighestOf(S)].value
Settled(k, c) == Final(queue, k, c, disk.fat[k][c])

\* The maps and the table, in the middle of a call as well: the maps are ahead
\* of the disk by what is queued.
MapsAhead ==
    /\ \A c \in Cluster : Settled(1, c) = Settled(2, c)
    /\ allocated = {c \in Cluster : Settled(1, c) # 0}
    /\ movable \subseteq claimed /\ claimed \subseteq allocated

\* The two cursors of the compaction: nothing is free below "target", and a
\* movable cluster below "source" is below "target" too.
Compacted ==
    /\ target \in Nat /\ source \in Nat
    /\ \A c \in Cluster : c < target => c \in allocated
    /\ \A c \in movable : c < source => c < target
NoGap == \A c \in movable : \A gap \in Cluster \ allocated : gap > c

\* The invariant of the proofs: until DEFRAG ends other than normally.
MapsInv ==
    /\ pc \in {"check", "analyse", "relocate", "compact", "sort", "done"}
    /\ pc # "done" => result = "none"
    /\ pc \in {"check", "done"} => queue = <<>>
    /\ pc \in {"analyse", "relocate", "compact", "sort"} \/ result = "0" => MapsAhead
    /\ pc \in {"analyse", "relocate"} => target = 2 /\ source = 2
    /\ pc = "check" => target = 2 /\ source = 2 /\ result = "none"
    /\ pc = "compact" => Compacted
    /\ pc = "sort" \/ result = "0" => (options.full => NoGap)

-----------------------------------------------------------------------------
\* Between two calls from the compaction on, the maps are the disk: the program
\* never frees or overwrites a cluster that it only believes to be free.
MapsAreDisk ==
    pc \in {"compact", "sort"} /\ queue = <<>> =>
        /\ ~FatsDiffer
        /\ allocated = AllocatedOnDisk
        /\ movable \subseteq claimed /\ claimed \subseteq allocated

\* /F leaves no gap below a cluster it was free to move (compact_free_space's
\* two cursors never pass one by).
NoGapBelow ==
    (result = "0" /\ options.full) =>
        \A c \in movable : \A gap \in Cluster \ AllocatedOnDisk : gap > c

=============================================================================
