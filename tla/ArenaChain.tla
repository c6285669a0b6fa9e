----------------------------- MODULE ArenaChain -----------------------------
(***************************************************************************)
(* The chain of memory control blocks (MCBs) of DOS/ALLOC.ASM, and the     *)
(* pure operators its calls are built from.                                *)
(*                                                                         *)
(* A chain m is a function whose domain is the set of paragraphs at which  *)
(* a live MCB stands; m[h] is that header: its signature, owner and size   *)
(* in paragraphs (the header excluded).  The size is kept as the code      *)
(* keeps it, never derived from the next header: that headers and sizes    *)
(* agree is what the invariants say.  Headers that coalescing leaves       *)
(* behind in free memory are not in the domain.                            *)
(*                                                                         *)
(* The loops that walk the chain are given here by what they compute;      *)
(* ArenaScan walks it one header at a time, as the code does, and          *)
(* implements these operators.                                             *)
(***************************************************************************)
EXTENDS Integers, Sequences, FiniteSets

CONSTANTS
    WordSize     \* 2^16 in the code: paragraph numbers are 16-bit words

ASSUME WordSizeAssumption == WordSize \in Nat \ {0, 1}

OwnerSystem == 0        \* arena_owner_system: the block is free
OwnerDos    == 8        \* arena_owner_dos: bridge and guard MCBs
Normal      == "M"      \* arena_signature_normal
End         == "Z"      \* arena_signature_end

Word == 0 .. WordSize - 1
NoLimit == WordSize - 1     \* 0FFFFh in UmbRegionLimits

Mcb == [sig : {Normal, End}, owner : Nat, size : Nat]

IsFree(m, h) == m[h].owner = OwnerSystem

(* arena_next: the paragraph after the block at h. *)
Following(m, h) == h + m[h].size + 1

(***************************************************************************)
(* Coalesce.  Run(m, h) is the set of headers the block at h absorbs: the  *)
(* free blocks that follow it without interruption, up to and including a  *)
(* block that carries the end signature.                                   *)
(***************************************************************************)
(* Mutant: the owner of the next block is not looked at. *)
RunIgnoresOwner(m, h) ==
    {g \in DOMAIN m :
        /\ h < g
        /\ \A k \in DOMAIN m : h <= k /\ k < g => m[k].sig = Normal}

Run(m, h) ==
    {g \in DOMAIN m :
        /\ h < g
        /\ \A k \in DOMAIN m : h < k /\ k <= g => IsFree(m, k)
        /\ \A k \in DOMAIN m : h <= k /\ k < g => m[k].sig = Normal}

LastOf(m, h) ==
    CHOOSE g \in Run(m, h) \cup {h} : \A k \in Run(m, h) : k <= g

(* The header at h after it absorbed its run: sizes and headers added up,  *)
(* the signature of the last block moved up.                               *)
Grown(m, h) ==
    [sig   |-> m[LastOf(m, h)].sig,
     owner |-> m[h].owner,
     size  |-> Following(m, LastOf(m, h)) - h - 1]

CoalesceAll(m, G) ==
    [h \in DOMAIN m \ UNION {Run(m, g) : g \in G} |->
        IF h \in G THEN Grown(m, h) ELSE m[h]]

(***************************************************************************)
(* A sound chain from the header first up to the paragraph top: each block *)
(* begins where the one before it ended, none overlaps another, and the    *)
(* end signature stands exactly on the blocks that end at one of ends.     *)
(***************************************************************************)
Tiles(m, first, top) ==
    /\ first \in DOMAIN m
    /\ \A h \in DOMAIN m :
          /\ first <= h
          /\ Following(m, h) <= top
          /\ Following(m, h) \in DOMAIN m \cup {top}
          /\ \A g \in DOMAIN m : g <= h \/ Following(m, h) <= g

Marked(m, ends) ==
    \A h \in DOMAIN m : m[h].sig = End <=> Following(m, h) \in ends

(* Mutant: the split forgets the header of the rest (no DEC CX). *)
SplitAtForgetsHeader(m, h, k) ==
    [g \in DOMAIN m \cup {h + k + 1} |->
        CASE g = h         -> [sig   |-> Normal,
                               owner |-> m[h].owner,
                               size  |-> k]
          [] g = h + k + 1 -> [sig   |-> m[h].sig,
                               owner |-> OwnerSystem,
                               size  |-> m[h].size - k]
          [] OTHER         -> m[g]]

(***************************************************************************)
(* alloc_set_sizes: the block at h keeps its first k paragraphs; a new     *)
(* header takes the rest, the old signature, and starts out free.          *)
(***************************************************************************)
SplitAt(m, h, k) ==
    [g \in DOMAIN m \cup {h + k + 1} |->
        CASE g = h         -> [sig   |-> Normal,
                               owner |-> m[h].owner,
                               size  |-> k]
          [] g = h + k + 1 -> [sig   |-> m[h].sig,
                               owner |-> OwnerSystem,
                               size  |-> m[h].size - k - 1]
          [] OTHER         -> m[g]]

Give(m, h, owner) == [m EXCEPT ![h].owner = owner]

(* alloc_get_size .. alloc_set_owner: n paragraphs from the low end of h,  *)
(* the rest split off unless the sizes are equal.                          *)
TakeLow(m, h, n, owner) ==
    Give(IF m[h].size = n THEN m ELSE SplitAt(m, h, n), h, owner)

(* alloc_do_split_high: n paragraphs from the high end of the block. *)
TakeHigh(m, h, n, owner) ==
    IF m[h].size = n
    THEN Give(m, h, owner)
    ELSE Give(SplitAt(m, h, m[h].size - n - 1), h + m[h].size - n, owner)

(***************************************************************************)
(* UmbRegionAllowed.  A region is a provider extent [start, end, limit];   *)
(* CapEnd is the exclusive end the limit leaves, computed in words: a sum  *)
(* that wraps to exactly zero means "no cap", one that wraps further is    *)
(* used as it is.                                                          *)
(***************************************************************************)
Region == [start : Word, end : Word, limit : Word]

RegionOf(rs, h) ==
    {i \in DOMAIN rs : rs[i].start <= h /\ h < rs[i].end}

CapEnd(r) ==
    LET sum == (r.start + r.limit + 1) % WordSize
    IN  IF r.limit = NoLimit \/ sum = 0 \/ sum > r.end THEN r.end ELSE sum

RegionAllowed(rs, filter, h) ==
    \E i \in RegionOf(rs, h) : i \in filter /\ h + 1 < CapEnd(rs[i])

(* The size alloc_free_sized compares with the request: that of the block, *)
(* cut at the cap when the block is in a UMB region (UmbAllocLimit).       *)
Room(m, rs, h) ==
    LET caps == {CapEnd(rs[i]) - (h + 1) : i \in RegionOf(rs, h)}
    IN  IF \E c \in caps : c < m[h].size
        THEN CHOOSE c \in caps : c < m[h].size
        ELSE m[h].size

(***************************************************************************)
(* The choice among the blocks that fit.  FirstArena and LastArena are     *)
(* the lowest and the highest; alloc_best compares the whole size of the   *)
(* best so far with the capped size of the candidate and replaces it only  *)
(* when strictly larger, which leaves the lowest block that no later       *)
(* candidate undercuts.                                                    *)
(***************************************************************************)
FirstFit(fits) == CHOOSE h \in fits : \A g \in fits : h <= g
LastFit(fits)  == CHOOSE h \in fits : \A g \in fits : g <= h

Unbeaten(m, rs, fits) ==
    {h \in fits : \A g \in fits : h < g => m[h].size <= Room(m, rs, g)}

BestFit(m, rs, fits) == FirstFit(Unbeaten(m, rs, fits))

=============================================================================
