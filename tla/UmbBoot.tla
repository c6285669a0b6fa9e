------------------------------ MODULE UmbBoot ------------------------------
(***************************************************************************)
(* How SYSINIT acquires upper memory: AcquireUmbs and SortUmbExtents of    *)
(* BIOS/SYSINIT1.ASM, composed with the arena they publish it in.          *)
(*                                                                         *)
(* AcquireUmbs asks the XMS provider for extents until it has no more,     *)
(* sorts and validates what it got, registers each extent with DOS and     *)
(* finalizes; when any step fails it resets the arena and gives every      *)
(* extent back.  One action per provider call and per DOS call.            *)
(*                                                                         *)
(* The provider is external: it may grant any extent, refuse, or fail in   *)
(* any state.  SYSINIT runs alone, so no memory call of a program comes    *)
(* between two steps; between two acquisitions (drivers, INSTALL=) any may.*)
(***************************************************************************)
EXTENDS Arena

VARIABLES
    pc,          \* where AcquireUmbs stands, "idle" outside it
    UmbExtents,  \* UmbExtentSegments, UmbExtentSizes, UmbExtentCount
    si,          \* SI: the extent being registered or released
    extra,       \* the extents the overflow check was granted
    held,        \* the provider's record of what it has granted
    entry        \* the chain when the acquisition began (history)

bootVars == <<pc, UmbExtents, si, extra, held, entry>>

BootInit ==
    /\ Init
    /\ pc = "idle"
    /\ UmbExtents = <<>>
    /\ si = 0
    /\ extra = {}
    /\ held = {}
    /\ entry = mcb

KeepTable == UNCHANGED <<UmbExtents, si, extra, held, entry>>

-----------------------------------------------------------------------------
(* The queries *)

Full == Len(UmbExtents) >= MaxRegions

(* DOS=UMB was given, nothing has been acquired and a provider is there.   *)
Acquire ==
    /\ pc = "idle"
    /\ UmbExtents = <<>>
    /\ pc' = "query"
    /\ entry' = mcb
    /\ UNCHANGED <<vars, UmbExtents, si, extra, held>>

(* Function 10h, for FFFFh paragraphs or for the largest size reported. *)
Granted10h(x) ==
    /\ (pc = "query" /\ ~Full) \/ pc = "request"
    /\ x \notin held
    /\ held' = held \cup {x}
    /\ UmbExtents' = Append(UmbExtents, x)
    /\ pc' = "query"
    /\ UNCHANGED <<vars, si, extra, entry>>

(* B0h: a smaller UMB is available; ask for exactly that. *)
SmallerAvailable ==
    /\ pc = "query"
    /\ pc' = IF Full THEN "rollback" ELSE "request"
    /\ UNCHANGED vars /\ KeepTable

(* B1h, or B0h with a largest size of zero. *)
NoneLeft ==
    /\ pc = "query"
    /\ pc' = IF UmbExtents = <<>> THEN "idle" ELSE "validate"
    /\ UNCHANGED vars /\ KeepTable

(* Mutant: what was granted is kept when a later request fails. *)
ProviderErrorKeeps ==
    /\ pc \in {"query", "request"}
    /\ pc' = IF pc = "query" THEN "rollback" ELSE "idle"
    /\ UNCHANGED vars /\ KeepTable

(* Mutant: after a failed request the provider is asked again. *)
ProviderErrorRetries ==
    /\ pc \in {"query", "request"}
    /\ pc' = IF pc = "query" THEN "rollback" ELSE "query"
    /\ UNCHANGED vars /\ KeepTable

ProviderError ==
    /\ pc \in {"query", "request"}
    /\ pc' = "rollback"
    /\ UNCHANGED vars /\ KeepTable

(* The table is full and the provider still grants: the extent is given    *)
(* back at once and the acquisition is abandoned. *)
OverflowOwned(x) ==
    /\ pc = "query" /\ Full
    /\ x \notin held
    /\ held' = held \cup {x}
    /\ extra' = {x}
    /\ pc' = "overflow"
    /\ UNCHANGED <<vars, UmbExtents, si, entry>>

ReleaseOverflow ==
    /\ pc = "overflow"
    /\ held' = held \ extra
    /\ extra' = {}
    /\ pc' = "rollback"
    /\ UNCHANGED <<vars, UmbExtents, si, entry>>

-----------------------------------------------------------------------------
(* Validation and registration *)

(* SortUmbExtents after its sort: long enough for a block and its guard,   *)
(* not past the end of the address space, not overlapping the one before.  *)
Acceptable(s) ==
    \A i \in DOMAIN s :
        /\ s[i][2] >= 3
        /\ s[i][1] + s[i][2] < WordSize
        /\ i > 1 => s[i - 1][1] + s[i - 1][2] <= s[i][1]

(* The ways to rearrange the table. *)
Orders(s) == {p \in [DOMAIN s -> DOMAIN s] :
                /\ \A i, j \in DOMAIN s : p[i] = p[j] => i = j
                /\ \A j \in DOMAIN s : \E i \in DOMAIN s : p[i] = j}

Ascending(s) == \A i, j \in DOMAIN s : i < j => s[i][1] <= s[j][1]

Validate ==
    /\ pc = "validate"
    /\ \E p \in Orders(UmbExtents) :
          UmbExtents' = [i \in DOMAIN UmbExtents |-> UmbExtents[p[i]]]
    /\ Ascending(UmbExtents')
    /\ IF Acceptable(UmbExtents')
       THEN pc' = "register" /\ si' = 1
       ELSE pc' = "rollback" /\ si' = si
    /\ UNCHANGED <<vars, extra, held, entry>>

(* Function 5804h. *)
Register ==
    LET x == UmbExtents[si]
    IN  /\ pc = "register"
        /\ RegisterFirst(x[1], x[2]) \/ RegisterAppend(x[1], x[2])
        /\ si' = si + 1
        /\ pc' = IF si = Len(UmbExtents) THEN "finalize" ELSE "register"
        /\ UNCHANGED <<UmbExtents, extra, held, entry>>

RegisterRefused ==
    LET x == UmbExtents[si]
    IN  /\ pc = "register"
        /\ ~CanRegister(x[1], x[2])
        /\ pc' = "reset"
        /\ UNCHANGED vars /\ KeepTable

(* Mutant: the test of the answer is inverted. *)
FinalizeTestInverted ==
    /\ pc = "finalize"
    /\ FinalizeUmb
    /\ pc' = "rollback"
    /\ si' = 0
    /\ UNCHANGED <<UmbExtents, extra, held, entry>>

(* Function 5806h.  It cannot be refused here (an action for its failure   *)
(* would never be taken), which the deadlock check shows.                  *)
Finalize ==
    /\ pc = "finalize"
    /\ FinalizeUmb
    /\ pc' = "idle"
    /\ si' = 0
    /\ UNCHANGED <<UmbExtents, extra, held, entry>>

(* Function 5805h; its answer is not looked at, and it is never refused.   *)
Reset ==
    /\ pc = "reset"
    /\ ResetUmb
    /\ pc' = "rollback"
    /\ UNCHANGED <<UmbExtents, si, extra, held, entry>>

(* AcquireUmbsRollback: from the first entry of the table again. *)
Rollback ==
    /\ pc = "rollback"
    /\ pc' = IF UmbExtents = <<>> THEN "idle" ELSE "release"
    /\ si' = IF UmbExtents = <<>> THEN 0 ELSE 1
    /\ UNCHANGED <<vars, UmbExtents, extra, held, entry>>

(* Function 11h, once per extent; the count is cleared after the last. *)
Release ==
    LET last == si = Len(UmbExtents)
    IN  /\ pc = "release"
        /\ held' = held \ {UmbExtents[si]}
        /\ UmbExtents' = IF last THEN <<>> ELSE UmbExtents
        /\ pc' = IF last THEN "idle" ELSE "release"
        /\ si' = IF last THEN 0 ELSE si + 1
        /\ UNCHANGED <<vars, extra, entry>>

AcquireStep ==
    \/ \E x \in Extents : Granted10h(x) \/ OverflowOwned(x)
    \/ SmallerAvailable \/ NoneLeft \/ ProviderError \/ ReleaseOverflow
    \/ Validate \/ Register \/ RegisterRefused \/ Finalize
    \/ Reset \/ Rollback \/ Release

(* Drivers, INSTALL= programs and, after boot, every program. *)
MemoryCall ==
    /\ pc = "idle"
    /\ Alloc \/ OtherCalls
    /\ UNCHANGED bootVars

BootNext == Acquire \/ AcquireStep \/ MemoryCall

(* AcquireUmbs is straight-line code: what it has begun goes on. *)
BootSpec == /\ BootInit /\ [][BootNext]_<<vars, bootVars>>
            /\ WF_<<vars, bootVars>>(AcquireStep)

-----------------------------------------------------------------------------

Registered == {<<regions[i].start, regions[i].end - regions[i].start>> :
                 i \in DOMAIN regions}

(* MEMORY.md: UMB acquisition and publication are transactional; a failed  *)
(* initialization must release its reservations and expose no partial      *)
(* arena.  Outside AcquireUmbs either every extent the provider has        *)
(* granted is a finalized region, or nothing is held and none is.          *)
AllOrNothing ==
    pc = "idle" =>
        /\ Registered = held
        /\ regions # <<>> => umbReady

(* MEMORY.md: storage that backs a region belongs to DOS while the region  *)
(* exists.  At no step is an extent in the arena that the provider has     *)
(* taken back (and could grant to someone else).                           *)
RegionsBacked == Registered \subseteq held

(* Every acquisition comes to an end: the table bounds what the provider   *)
(* can grant, and no refusal is retried.                                   *)
AcquireEnds == (pc # "idle") ~> (pc = "idle")

=============================================================================
