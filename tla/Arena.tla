------------------------------- MODULE Arena -------------------------------
(***************************************************************************)
(* The DOS memory arena: INT 21h functions 48h (ALLOC), 49h (DEALLOC), 4Ah *)
(* (SETBLOCK) and 58h (ALLOCOPER) of DOS/ALLOC.ASM, with the process       *)
(* clean-up of arena_free_process and the registration of upper memory     *)
(* extents.  Every call runs inside critMem, so one call is one action.    *)
(*                                                                         *)
(* Conventional memory is a chain of MCBs from ArenaHead up to LowTop.     *)
(* Registering provider extents appends a second chain that starts with a  *)
(* bridge MCB at UmbArenaHead.  The chains are joined ("linked") when the  *)
(* last conventional block carries the normal signature, apart when it     *)
(* carries the end signature.  Extents are held apart by guard MCBs that   *)
(* span the gap up to the next extent.                                     *)
(*                                                                         *)
(* The branches to arena_trashed are not modelled: they need a header with *)
(* a bad signature at the end of a block, which ChainTiles excludes (the   *)
(* step-by-step scan of ArenaScan keeps that branch).                      *)
(***************************************************************************)
EXTENDS ArenaChain

CONSTANTS
    ArenaHead,   \* arena_head: the first conventional MCB
    LowTop,      \* the paragraph after conventional memory
    MaxRegions,  \* entries of UmbRegionStarts (16)
    Procs,       \* process identifiers (segments of PSPs)
    Requests,    \* sizes programs ask for
    Methods,     \* allocation strategies programs select
    Filters,     \* region filters LOADHIGH and SYSINIT select
    Limits,      \* region limits LOADHIGH selects
    Extents      \* provider extents <<first paragraph, paragraphs>>

(* AllocOperSet takes the fit and the domains 0 ("low"), 40h ("upper") and *)
(* 80h ("fallback"); 20h ("conventional") is what EXEC stores directly for *)
(* the environment of a child.                                             *)
Fits    == {"first", "best", "last"}
Domains == {"low", "upper", "fallback", "conventional"}
AllMethods == [fit : Fits, domain : Domains]

ASSUME ArenaAssumption ==
    /\ ArenaHead \in Word \ {0}
    /\ LowTop \in Word
    /\ ArenaHead < LowTop
    /\ MaxRegions \in Nat
    /\ Procs \subseteq Nat \ {OwnerSystem, OwnerDos}
    /\ Procs # {}
    /\ Requests \subseteq Word
    /\ Methods \subseteq AllMethods
    /\ Filters \subseteq SUBSET (1 .. MaxRegions)
    /\ Limits \subseteq Word
    /\ Extents \subseteq Word \X Word

VARIABLES
    mcb,              \* the live MCBs of both chains
    UmbArenaHead,     \* the bridge MCB, 0 before registration
    UmbArenaTail,     \* the last guard (after Finalize: the block it joined)
    UmbLinkMcb,       \* the conventional block that ends at the bridge
    UmbLinked,        \* the link state
    regions,          \* UmbRegionStarts, UmbRegionEnds, UmbRegionLimits
    UmbRegionFilter,  \* the enabled regions
    AllocMethod,      \* the strategy
    CurrentPDB,       \* the process on whose behalf calls are made
    umbReady          \* the boot registration has been finalized

umbVars == <<UmbArenaHead, UmbArenaTail, UmbLinkMcb, UmbLinked, regions,
             umbReady>>
profileVars == <<UmbRegionFilter, AllocMethod>>
vars == <<mcb, umbVars, profileVars, CurrentPDB>>

-----------------------------------------------------------------------------
(* The two chains.  UmbArenaHead is the boundary between them. *)

UpperHeads == IF UmbArenaHead = 0 THEN {}
              ELSE {h \in DOMAIN mcb : h >= UmbArenaHead}
LowHeads == DOMAIN mcb \ UpperHeads

Top == IF regions = <<>> THEN LowTop ELSE regions[Len(regions)].end

(* Between the first RegisterUmb and FinalizeUmb only SYSINIT runs, and it *)
(* makes no other memory call.                                             *)
Quiet == regions = <<>> \/ umbReady

InitMcb ==
    [h \in {ArenaHead} |-> [sig |-> End, owner |-> OwnerSystem,
                             size |-> LowTop - ArenaHead - 1]]

Init ==
    /\ mcb = InitMcb
    /\ UmbArenaHead = 0 /\ UmbArenaTail = 0 /\ UmbLinkMcb = 0
    /\ UmbLinked = FALSE
    /\ regions = <<>>
    /\ UmbRegionFilter = 1 .. MaxRegions
    /\ AllocMethod = [fit |-> "first", domain |-> "low"]
    /\ CurrentPDB \in Procs
    /\ umbReady = FALSE

-----------------------------------------------------------------------------
(* $ALLOC *)

StartsUpper ==
    UmbLinked /\ AllocMethod.domain \in {"upper", "fallback"}

FreeLow == {h \in LowHeads : IsFree(mcb, h)}
FreeUpper ==
    {h \in UpperHeads : IsFree(mcb, h)
                        /\ RegionAllowed(regions, UmbRegionFilter, h)}

(* The free blocks alloc_scan visits before the first alloc_end. *)
FirstScan ==
    CASE StartsUpper -> FreeUpper
      [] UmbLinked /\ AllocMethod.domain = "low" -> FreeLow \cup FreeUpper
      [] OTHER -> FreeLow

(* The blocks of G that fit n paragraphs once the scan has merged each     *)
(* with the free blocks after it.                                          *)
FitsIn(G, n) ==
    LET m == CoalesceAll(mcb, G)
    IN  {h \in G \cap DOMAIN m : n <= Room(m, regions, h)}

(* A fallback strategy goes on to conventional memory when the upper chain *)
(* has nothing to offer.                                                   *)
Scanned(n) ==
    IF StartsUpper /\ AllocMethod.domain = "fallback"
       /\ FitsIn(FirstScan, n) = {}
    THEN FirstScan \cup FreeLow
    ELSE FirstScan

AllocOk(n) ==
    /\ Quiet
    /\ FitsIn(Scanned(n), n) # {}
    /\ LET m    == CoalesceAll(mcb, Scanned(n))
           fits == FitsIn(Scanned(n), n)
       IN  mcb' = CASE AllocMethod.fit = "first" ->
                         TakeLow(m, FirstFit(fits), n, CurrentPDB)
                    [] AllocMethod.fit = "best" ->
                         TakeLow(m, BestFit(m, regions, fits), n, CurrentPDB)
                    [] AllocMethod.fit = "last" ->
                         TakeHigh(m, LastFit(fits), n, CurrentPDB)
    /\ UNCHANGED <<umbVars, profileVars, CurrentPDB>>

(* Not enough memory: what the scan merged stays merged. *)
AllocFail(n) ==
    /\ Quiet
    /\ FitsIn(Scanned(n), n) = {}
    /\ mcb' = CoalesceAll(mcb, Scanned(n))
    /\ UNCHANGED <<umbVars, profileVars, CurrentPDB>>

-----------------------------------------------------------------------------
(* $SETBLOCK and $DEALLOC on a block of the calling process.  Neither      *)
(* checks the owner; programs that pass blocks they do not own are outside *)
(* the model.  $SETBLOCK merges first, and on failure leaves the block     *)
(* grown.                                                                  *)

SetBlock(h, n) ==
    LET m == CoalesceAll(mcb, {h})
    IN  /\ Quiet
        /\ mcb[h].owner = CurrentPDB
        /\ mcb' = IF n <= m[h].size THEN TakeLow(m, h, n, CurrentPDB) ELSE m
        /\ UNCHANGED <<umbVars, profileVars, CurrentPDB>>

Dealloc(h) ==
    /\ Quiet
    /\ mcb[h].owner = CurrentPDB
    /\ mcb' = Give(mcb, h, OwnerSystem)
    /\ UNCHANGED <<umbVars, profileVars, CurrentPDB>>

(* arena_free_process walks the conventional chain and then, whether the   *)
(* chains are linked or not, the upper one.  Blocks are not merged.        *)
FreedOf(p) == {h \in LowHeads \cup UpperHeads : mcb[h].owner = p}

FreeProcess ==
    /\ Quiet
    /\ mcb' = [h \in DOMAIN mcb |->
                  IF h \in FreedOf(CurrentPDB)
                  THEN [mcb[h] EXCEPT !.owner = OwnerSystem] ELSE mcb[h]]
    /\ UNCHANGED <<umbVars, profileVars, CurrentPDB>>

(* The caller changes: EXEC, process exit, or $SET_CURRENT_PDB. *)
SetCurrentPDB(p) ==
    /\ Quiet
    /\ CurrentPDB' = p
    /\ UNCHANGED <<mcb, umbVars, profileVars>>

-----------------------------------------------------------------------------
(* $AllocOper: strategy, link state, region filter and limits. *)

SetMethod(method) ==
    /\ Quiet
    /\ AllocMethod' = method
    /\ UNCHANGED <<mcb, umbVars, UmbRegionFilter, CurrentPDB>>

(* The conventional block whose end is the bridge. *)
LinkMcbs == {h \in LowHeads : Following(mcb, h) = UmbArenaHead}

CanSetLink(on) ==
    /\ UmbArenaHead # 0
    /\ \E h \in LinkMcbs : mcb[h].sig = IF on THEN End ELSE Normal

(* Mutant: the link state is stored, the signature is not. *)
SetLinkForgetsSignature(on) ==
    /\ Quiet
    /\ on # UmbLinked
    /\ CanSetLink(on)
    /\ UmbLinkMcb' \in LinkMcbs
    /\ UmbLinked' = on
    /\ UNCHANGED <<mcb, UmbArenaHead, UmbArenaTail, regions, umbReady,
                   profileVars, CurrentPDB>>

SetLink(on) ==
    /\ Quiet
    /\ on # UmbLinked
    /\ CanSetLink(on)
    /\ UmbLinkMcb' \in LinkMcbs
    /\ mcb' = [mcb EXCEPT ![UmbLinkMcb'].sig = IF on THEN Normal ELSE End]
    /\ UmbLinked' = on
    /\ UNCHANGED <<UmbArenaHead, UmbArenaTail, regions, umbReady,
                   profileVars, CurrentPDB>>

SetRegionFilter(filter) ==
    /\ Quiet
    /\ UmbRegionFilter' = filter
    /\ UNCHANGED <<mcb, umbVars, AllocMethod, CurrentPDB>>

SetRegionLimit(i, limit) ==
    /\ Quiet
    /\ regions' = [regions EXCEPT ![i].limit = limit]
    /\ UNCHANGED <<mcb, UmbArenaHead, UmbArenaTail, UmbLinkMcb, UmbLinked,
                   umbReady, profileVars, CurrentPDB>>

(* Mutant: the running total is reset at every block. *)
LargestFreeBlock(i) ==
    LET inside == {h \in DOMAIN mcb : i \in RegionOf(regions, h) /\ IsFree(mcb, h)}
    IN  LastFit({mcb[h].size : h \in inside} \cup {0})

(* UmbRegionLargestFree, the answer of AllocOperGetRegionInfo: the longest *)
(* run of free blocks in region i, computed without changing the chain.    *)
(* The running total counts a header for every block it is not zero at:    *)
(* empty blocks at the beginning of a run, and their headers, go missing.  *)
LargestFree(i) ==
    LET inside == {h \in DOMAIN mcb : i \in RegionOf(regions, h)}
        runs   == {r \in inside \X inside :
                     \A k \in inside : r[1] <= k /\ k <= r[2] => IsFree(mcb, k)}
    IN  LastFit({Following(mcb, r[2]) - r[1] - 1 :
                   r \in {r \in runs : mcb[r[1]].size # 0}} \cup {0})

-----------------------------------------------------------------------------
(* RegisterUmb, FinalizeUmb and ResetUmb, which only SYSINIT calls, and    *)
(* never again once it has finalized (UmbBoot is its side of this).        *)

LowTail == CHOOSE h \in LowHeads : mcb[h].sig = End

CanRegister(start, size) ==
    /\ Len(regions) < MaxRegions
    /\ size >= 3
    /\ start + size < WordSize
    /\ IF UmbArenaHead = 0
       THEN mcb[LowTail].size # 0 /\ Following(mcb, LowTail) <= start
       ELSE UmbArenaTail # 0 /\ UmbArenaTail + 1 <= start

(* Mutant: the guard is left free. *)
MakeExtentFreeGuard(m, start, size) ==
    [h \in DOMAIN m \cup {start, start + size - 1} |->
        CASE h = start -> [sig |-> Normal, owner |-> OwnerSystem,
                           size |-> size - 2]
          [] h = start + size - 1 -> [sig |-> End, owner |-> OwnerSystem,
                                      size |-> 0]
          [] OTHER -> m[h]]

(* RegisterUmbMakeExtent: one free block, then the guard in the last       *)
(* paragraph of the extent.                                                *)
MakeExtent(m, start, size) ==
    [h \in DOMAIN m \cup {start, start + size - 1} |->
        CASE h = start -> [sig |-> Normal, owner |-> OwnerSystem,
                           size |-> size - 2]
          [] h = start + size - 1 -> [sig |-> End, owner |-> OwnerDos,
                                      size |-> 0]
          [] OTHER -> m[h]]

AddRegion(start, size) ==
    /\ regions' = Append(regions, [start |-> start, end |-> start + size,
                                   limit |-> NoLimit])
    /\ UmbArenaTail' = start + size - 1

(* The first extent: the conventional tail, whoever owns it, gives up its  *)
(* last paragraph to the bridge, which spans the space up to the extent.   *)
RegisterFirst(start, size) ==
    LET bridge == Following(mcb, LowTail) - 1
        m == [h \in DOMAIN mcb \cup {bridge} |->
                CASE h = LowTail -> [mcb[h] EXCEPT !.size = @ - 1]
                  [] h = bridge -> [sig |-> Normal, owner |-> OwnerDos,
                                    size |-> start - bridge - 1]
                  [] OTHER -> mcb[h]]
    IN  /\ UmbArenaHead = 0
        /\ CanRegister(start, size)
        /\ mcb' = MakeExtent(m, start, size)
        /\ UmbLinkMcb' = LowTail
        /\ UmbArenaHead' = bridge
        /\ AddRegion(start, size)
        /\ UNCHANGED <<UmbLinked, umbReady, profileVars, CurrentPDB>>

(* A further extent: the last guard grows over the gap. *)
RegisterAppend(start, size) ==
    LET m == [mcb EXCEPT ![UmbArenaTail].sig = Normal,
                         ![UmbArenaTail].size = start - (UmbArenaTail + 1)]
    IN  /\ UmbArenaHead # 0
        /\ ~umbReady
        /\ CanRegister(start, size)
        /\ mcb' = MakeExtent(m, start, size)
        /\ AddRegion(start, size)
        /\ UNCHANGED <<UmbArenaHead, UmbLinkMcb, UmbLinked, umbReady,
                       profileVars, CurrentPDB>>

CanFinalize ==
    /\ ~UmbLinked
    /\ UmbArenaTail # 0
    /\ mcb[UmbArenaTail] = [sig |-> End, owner |-> OwnerDos, size |-> 0]

(* The last guard is joined to the block before it. *)
FinalizeUmb ==
    LET before == CHOOSE h \in UpperHeads : Following(mcb, h) = UmbArenaTail
    IN  /\ ~umbReady
        /\ CanFinalize
        /\ mcb' = [h \in DOMAIN mcb \ {UmbArenaTail} |->
                     IF h = before
                     THEN [mcb[h] EXCEPT !.size = @ + 1, !.sig = End]
                     ELSE mcb[h]]
        /\ UmbArenaTail' = before
        /\ umbReady' = TRUE
        /\ UNCHANGED <<UmbArenaHead, UmbLinkMcb, UmbLinked, regions,
                       profileVars, CurrentPDB>>

CanReset ==
    /\ ~UmbLinked
    /\ UmbLinkMcb \in {0} \cup {h \in LowHeads : mcb[h].sig = End}

(* The registration is abandoned: the conventional tail takes its last     *)
(* paragraph back and the upper chain is forgotten.                        *)
ResetUmb ==
    /\ ~umbReady
    /\ CanReset
    /\ mcb' = [h \in LowHeads |->
                 IF h = UmbLinkMcb THEN [mcb[h] EXCEPT !.size = @ + 1]
                 ELSE mcb[h]]
    /\ UmbArenaHead' = 0 /\ UmbArenaTail' = 0 /\ UmbLinkMcb' = 0
    /\ regions' = <<>>
    /\ UmbRegionFilter' = 1 .. MaxRegions
    /\ UNCHANGED <<UmbLinked, umbReady, AllocMethod, CurrentPDB>>

-----------------------------------------------------------------------------

Alloc == \E n \in Requests : AllocOk(n) \/ AllocFail(n)

OtherCalls ==
    \/ \E h \in DOMAIN mcb : Dealloc(h) \/ \E n \in Requests : SetBlock(h, n)
    \/ FreeProcess
    \/ \E p \in Procs : SetCurrentPDB(p)
    \/ \E method \in Methods : SetMethod(method)
    \/ \E on \in BOOLEAN : SetLink(on)
    \/ \E filter \in Filters : SetRegionFilter(filter)
    \/ \E i \in DOMAIN regions : \E limit \in Limits : SetRegionLimit(i, limit)

Registration ==
    \/ \E x \in Extents : RegisterFirst(x[1], x[2]) \/ RegisterAppend(x[1], x[2])
    \/ FinalizeUmb
    \/ ResetUmb

Next == Alloc \/ OtherCalls \/ Registration

Spec == Init /\ [][Next]_vars

-----------------------------------------------------------------------------
(* Invariants *)

TypeOK ==
    /\ DOMAIN mcb \subseteq Word
    /\ mcb \in [DOMAIN mcb -> Mcb]
    /\ {UmbArenaHead, UmbArenaTail, UmbLinkMcb} \subseteq Word
    /\ UmbLinked \in BOOLEAN
    /\ regions \in Seq(Region)
    /\ UmbRegionFilter \in SUBSET (1 .. MaxRegions)
    /\ AllocMethod \in AllMethods
    /\ CurrentPDB \in Procs
    /\ umbReady \in BOOLEAN

(* The blocks tile memory: each begins where the one before it ended, none *)
(* overlaps another, none is lost.  This is what makes every arena_next    *)
(* land on a header (no call ever sees a trashed arena).                   *)
ChainTiles == Tiles(mcb, ArenaHead, Top)

(* The end signature stands on the last block and, while the chains are    *)
(* apart, on the last conventional block, and nowhere else: a walk stops   *)
(* exactly where the link state says it does.                              *)
Ends == IF UmbLinked THEN {Top} ELSE {Top, UmbArenaHead}

EndMarks == Marked(mcb, Ends)

(* The bridge and the guards are in place, belong to DOS, and reach up to  *)
(* the start of the next provider extent.                                  *)
Barrier(h, next) ==
    /\ h \in DOMAIN mcb
    /\ mcb[h].owner = OwnerDos
    /\ Following(mcb, h) = next

Barriers ==
    /\ UmbArenaHead = 0 <=> regions = <<>>
    /\ regions # <<>> =>
          /\ UmbArenaHead = LowTop - 1 /\ ArenaHead < UmbArenaHead
          /\ Barrier(UmbArenaHead, regions[1].start)
          /\ \A i \in 1 .. Len(regions) - 1 :
                Barrier(regions[i].end - 1, regions[i + 1].start)
          /\ ~umbReady => Barrier(Top - 1, Top)

(* The regions are disjoint, in ascending order, above conventional memory *)
(* and large enough for a block and its guard.                             *)
RegionsApart ==
    /\ Len(regions) <= MaxRegions
    /\ \A i \in 1 .. Len(regions) :
          LowTop <= regions[i].start /\ regions[i].start + 3 <= regions[i].end
    /\ \A i \in 1 .. Len(regions) - 1 :
          regions[i].end <= regions[i + 1].start

(* The globals of the registration describe the chain: before it there is  *)
(* nothing, during it the newest extent is one untouched block and its     *)
(* guard, and linking waits for its end.                                   *)
BootState ==
    /\ umbReady => regions # <<>>
    /\ UmbLinked => umbReady
    /\ regions = <<>> => UmbArenaTail = 0 /\ UmbLinkMcb = 0
    /\ ~Quiet =>
          /\ UmbArenaTail = Top - 1
          /\ UmbLinkMcb \in LinkMcbs
          /\ LET last == regions[Len(regions)].start
             IN  /\ last \in DOMAIN mcb
                 /\ Following(mcb, last) = UmbArenaTail

(* The inductive invariant that ArenaProofs proves. *)
IInv == /\ TypeOK /\ ChainTiles /\ EndMarks
        /\ Barriers /\ RegionsApart /\ BootState

(* MEMORY.md: allocation and coalescing must not cross provider gaps.  No  *)
(* block that programs can own or be given reaches from conventional       *)
(* memory into the upper area, or out of the extent it begins in.          *)
NoBlockCrossesGap ==
    \A h \in DOMAIN mcb :
        mcb[h].owner # OwnerDos =>
            \/ Following(mcb, h) <= IF UmbArenaHead = 0 THEN LowTop
                                     ELSE UmbArenaHead
            \/ \E i \in DOMAIN regions :
                  regions[i].start <= h /\ Following(mcb, h) <= regions[i].end

(* The largest block an allocation confined to region i can get: its free  *)
(* blocks, merged as alloc_scan merges them.                               *)
Obtainable(i) ==
    LET G == {h \in UpperHeads : IsFree(mcb, h) /\ i \in RegionOf(regions, h)}
        m == CoalesceAll(mcb, G)
    IN  LastFit({m[h].size : h \in G \cap DOMAIN m} \cup {0})

(* What AllocOperGetRegionInfo tells LOADHIGH and DEVICEHIGH can be had in *)
(* that region: the two walks, one merging and one not, agree, except that *)
(* the answer may be too small where a free block is empty.                *)
RegionInfoSound ==
    Quiet => \A i \in DOMAIN regions :
        /\ LargestFree(i) <= Obtainable(i)
        /\ (\A h \in DOMAIN mcb : i \in RegionOf(regions, h) /\ IsFree(mcb, h)
                                  => mcb[h].size > 0)
           => LargestFree(i) = Obtainable(i)

(* ALLOC.ASM:977 says UmbRegionLargestFree returns the largest currently   *)
(* coalescible free payload.  It does not when a run begins with an empty  *)
(* free block.                                                             *)
RegionInfoExact ==
    Quiet => \A i \in DOMAIN regions : LargestFree(i) = Obtainable(i)

(* A request to link or unlink the chains can always be honoured. *)
LinkAlwaysPossible ==
    umbReady => CanSetLink(~UmbLinked)

-----------------------------------------------------------------------------
(* Action properties *)

(* A call never changes the place, the size or the owner of a block that   *)
(* belongs to another process or to DOS.  The one exception is boot: the   *)
(* registration takes the bridge from the conventional tail.               *)
BlocksOfOthersUntouched ==
    [][Quiet /\ UmbArenaHead' = UmbArenaHead =>
         \A h \in DOMAIN mcb :
            mcb[h].owner \notin {OwnerSystem, CurrentPDB} =>
                /\ h \in DOMAIN mcb'
                /\ mcb'[h].owner = mcb[h].owner
                /\ mcb'[h].size = mcb[h].size]_vars

(* The blocks a step hands to the calling process. *)
Granted == {h \in DOMAIN mcb' :
              /\ mcb'[h].owner = CurrentPDB
              /\ h \in DOMAIN mcb => mcb[h].owner # CurrentPDB}

(* CONST2.ASM calls UmbAllocLimit the "allocator cap end for current UMB   *)
(* candidate": a block granted in a limited region ends below the cap.     *)
LimitKept ==
    [][\A h \in Granted : \A i \in RegionOf(regions, h) :
          Following(mcb', h) <= CapEnd(regions[i])]_vars

=============================================================================
