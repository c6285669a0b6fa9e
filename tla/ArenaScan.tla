----------------------------- MODULE ArenaScan -----------------------------
(***************************************************************************)
(* $ALLOC one header at a time: the loops alloc_scan, coalesce_check and   *)
(* alloc_next of DOS/ALLOC.ASM with the registers and globals they use.    *)
(* The scan changes the chain as it goes (it merges free blocks whether or *)
(* not the request succeeds) and implements Arena, where the               *)
(* whole call is one step.  Inside critMem no other call runs, so the      *)
(* chain of Arena is the one found at the entry until the call returns.    *)
(***************************************************************************)
EXTENDS Arena

VARIABLES
    at,               \* where the call stands, "idle" outside it
    ds,               \* DS: the header under examination
    bx,               \* BX: the size asked for
    allocMax,         \* the word on the stack: the largest size found
    FirstArena, BestArena, LastArena,
    AllocScanDomain,  \* 0 = public chain, 1 = upper, 2 = fallback low
    prior             \* the chain at the entry (history, for the refinement)

scanVars == <<at, ds, bx, allocMax, FirstArena, BestArena, LastArena,
              AllocScanDomain, prior>>

ScanInit ==
    /\ Init
    /\ at = "idle" /\ ds = 0 /\ bx = 0 /\ allocMax = 0
    /\ FirstArena = 0 /\ BestArena = 0 /\ LastArena = 0
    /\ AllocScanDomain = 0
    /\ prior = <<>>

KeepOptions == UNCHANGED <<bx, allocMax, FirstArena, BestArena, LastArena,
                           prior>>
KeepArena == UNCHANGED <<umbVars, profileVars, CurrentPDB>>

-----------------------------------------------------------------------------

(* From EnterCrit to alloc_start_scan. *)
Enter(n) ==
    /\ at = "idle" /\ Quiet
    /\ at' = "scan"
    /\ bx' = n
    /\ prior' = mcb
    /\ AllocScanDomain' = IF StartsUpper THEN 1 ELSE 0
    /\ ds' = IF StartsUpper THEN UmbArenaHead ELSE ArenaHead
    /\ UNCHANGED <<mcb, allocMax, FirstArena, BestArena, LastArena>>
    /\ KeepArena

(* alloc_scan and alloc_free: is the block one this scan may use? *)
Examine ==
    /\ at = "scan"
    /\ at' = IF /\ IsFree(mcb, ds)
                /\ AllocScanDomain = 1
                     => RegionAllowed(regions, UmbRegionFilter, ds)
             THEN "coalesce" ELSE "next"
    /\ UNCHANGED <<mcb, ds, AllocScanDomain>>
    /\ KeepOptions /\ KeepArena

(* coalesce: one turn of its loop. *)
Coalesce ==
    LET next == Following(mcb, ds)
    IN  /\ at = "coalesce"
        /\ IF mcb[ds].sig # End /\ next \in DOMAIN mcb /\ IsFree(mcb, next)
           THEN /\ mcb' = [h \in DOMAIN mcb \ {next} |->
                             IF h = ds
                             THEN [mcb[h] EXCEPT !.size = @ + mcb[next].size + 1,
                                                 !.sig = mcb[next].sig]
                             ELSE mcb[h]]
                /\ UNCHANGED at
           ELSE /\ at' = IF mcb[ds].sig # End /\ next \notin DOMAIN mcb
                         THEN "trashed" ELSE "fit"
                /\ UNCHANGED mcb
        /\ UNCHANGED <<ds, AllocScanDomain>>
        /\ KeepOptions /\ KeepArena

(* UmbAllocLimit caps the size in the upper domain; alloc_test .. *)
(* alloc_last then record the block. *)
CappedSize ==
    LET cap == CHOOSE c \in {CapEnd(regions[i]) : i \in RegionOf(regions, ds)} : TRUE
    IN  IF AllocScanDomain = 1 /\ mcb[ds].size > cap - (ds + 1)
        THEN cap - (ds + 1) ELSE mcb[ds].size

(* Mutant: the largest size found is recorded without the cap. *)
FitReportsWholeBlock ==
    /\ at = "fit"
    /\ at' = "next"
    /\ allocMax' = IF mcb[ds].size > allocMax THEN mcb[ds].size ELSE allocMax
    /\ IF bx > CappedSize
       THEN UNCHANGED <<FirstArena, BestArena, LastArena>>
       ELSE /\ FirstArena' = IF FirstArena = 0 THEN ds ELSE FirstArena
            /\ BestArena' = IF \/ BestArena = 0
                               \/ mcb[BestArena].size > CappedSize
                            THEN ds ELSE BestArena
            /\ LastArena' = ds
    /\ UNCHANGED <<mcb, ds, bx, AllocScanDomain, prior>>
    /\ KeepArena

Fit ==
    /\ at = "fit"
    /\ at' = "next"
    /\ allocMax' = IF CappedSize > allocMax THEN CappedSize ELSE allocMax
    /\ IF bx > CappedSize
       THEN UNCHANGED <<FirstArena, BestArena, LastArena>>
       ELSE /\ FirstArena' = IF FirstArena = 0 THEN ds ELSE FirstArena
            /\ BestArena' = IF \/ BestArena = 0
                               \/ mcb[BestArena].size > CappedSize
                            THEN ds ELSE BestArena
            /\ LastArena' = ds
    /\ UNCHANGED <<mcb, ds, bx, AllocScanDomain, prior>>
    /\ KeepArena

(* alloc_next: the end of a chain, the crossing into the upper one, or the *)
(* next header. *)
Advance ==
    LET next == Following(mcb, ds)
        crossing == next = UmbArenaHead
    IN  /\ at = "next"
        /\ at' = CASE mcb[ds].sig = End -> "end"
                   [] mcb[ds].sig # End /\ next \notin DOMAIN mcb -> "trashed"
                   [] OTHER ->
                        IF crossing /\ \/ AllocScanDomain = 2
                                       \/ /\ AllocScanDomain = 0
                                          /\ \/ AllocMethod.domain = "conventional"
                                             \/ ~UmbLinked
                        THEN "end" ELSE "scan"
        /\ ds' = IF at' = "scan" THEN next ELSE ds
        /\ AllocScanDomain' = IF at' = "scan" /\ crossing THEN 1
                              ELSE AllocScanDomain
        /\ UNCHANGED mcb
        /\ KeepOptions /\ KeepArena

(* Mutant: the fallback is an ordinary scan of the public chain. *)
FallBackReenters ==
    /\ at = "end" /\ FirstArena = 0
    /\ AllocScanDomain = 1 /\ AllocMethod.domain = "fallback"
    /\ at' = "scan"
    /\ AllocScanDomain' = 0
    /\ ds' = ArenaHead
    /\ UNCHANGED mcb
    /\ KeepOptions /\ KeepArena

(* alloc_end, nothing found: a fallback strategy starts again in           *)
(* conventional memory. *)
FallBack ==
    /\ at = "end" /\ FirstArena = 0
    /\ AllocScanDomain = 1 /\ AllocMethod.domain = "fallback"
    /\ at' = "scan"
    /\ AllocScanDomain' = 2
    /\ ds' = ArenaHead
    /\ UNCHANGED mcb
    /\ KeepOptions /\ KeepArena

Leave ==
    /\ at' = "idle" /\ ds' = 0 /\ bx' = 0 /\ allocMax' = 0
    /\ FirstArena' = 0 /\ BestArena' = 0 /\ LastArena' = 0
    /\ AllocScanDomain' = 0
    /\ prior' = <<>>
    /\ KeepArena

ScanFail ==
    /\ at = "end" /\ FirstArena = 0
    /\ AllocScanDomain # 1 \/ AllocMethod.domain # "fallback"
    /\ UNCHANGED mcb
    /\ Leave

(* Mutant: best fit splits the first block that fits. *)
SplitTakesFirst ==
    /\ at = "end" /\ FirstArena # 0
    /\ mcb' = IF AllocMethod.fit = "last"
              THEN TakeHigh(mcb, LastArena, bx, CurrentPDB)
              ELSE TakeLow(mcb, FirstArena, bx, CurrentPDB)
    /\ Leave

(* alloc_do_split: the strategy picks the block. *)
Split ==
    /\ at = "end" /\ FirstArena # 0
    /\ mcb' = CASE AllocMethod.fit = "first" ->
                     TakeLow(mcb, FirstArena, bx, CurrentPDB)
                [] AllocMethod.fit = "best" ->
                     TakeLow(mcb, BestArena, bx, CurrentPDB)
                [] AllocMethod.fit = "last" ->
                     TakeHigh(mcb, LastArena, bx, CurrentPDB)
    /\ Leave

ScanStep == Examine \/ Coalesce \/ Fit \/ Advance \/ FallBack \/ ScanFail \/ Split

OneStepCall ==
    /\ at = "idle"
    /\ OtherCalls \/ Registration
    /\ UNCHANGED scanVars

ScanNext == (\E n \in Requests : Enter(n)) \/ ScanStep \/ OneStepCall

(* The processor goes on executing a call it has begun. *)
ScanSpec == /\ ScanInit /\ [][ScanNext]_<<vars, scanVars>>
            /\ WF_<<vars, scanVars>>(ScanStep)

-----------------------------------------------------------------------------

(* The inductive invariant that ArenaProofs proves.  It says where a       *)
(* scan is, what it has left behind and what it has recorded.              *)

(* How far the walk has come: the block under examination is behind it     *)
(* once it has been taken care of.                                         *)
Reach == IF at \in {"next", "end"} THEN Following(mcb, ds) ELSE ds

High(h) == UmbArenaHead # 0 /\ UmbArenaHead <= h
Boundary == IF UmbArenaHead = 0 THEN Top ELSE UmbArenaHead

(* The free blocks of the entry that a scan could ever use, and those      *)
(* among them that one in domain d has dealt with when it is at r.         *)
Usable ==
    {h \in DOMAIN prior : /\ IsFree(prior, h)
                          /\ High(h) => RegionAllowed(regions, UmbRegionFilter, h)}

BehindAt(d, r) ==
    {h \in Usable : \/ d = 0 /\ h < r
                    \/ d = 1 /\ h < r /\ (StartsUpper => High(h))
                    \/ d = 2 /\ (h < r \/ High(h))}

Behind == BehindAt(AllocScanDomain, Reach)
Candidates == Behind \cap DOMAIN mcb
Fitting == {h \in Candidates : bx <= Room(mcb, regions, h)}

(* Each domain keeps to its part of the chain and is entered only under    *)
(* the strategies it belongs to; at its end its part is done.              *)
Place ==
    /\ ds \in DOMAIN mcb
    /\ \/ AllocScanDomain = 0 /\ ~StartsUpper /\ ds < Boundary
       \/ /\ AllocScanDomain = 1
          /\ High(ds)
          /\ UmbLinked /\ AllocMethod.domain # "conventional"
       \/ /\ AllocScanDomain = 2
          /\ UmbArenaHead # 0 /\ ds < UmbArenaHead
          /\ StartsUpper /\ AllocMethod.domain = "fallback"
          /\ \A h \in Fitting : ~High(h)
    /\ at = "end" =>
          /\ Reach = IF AllocScanDomain = 1 THEN Top ELSE Boundary
          /\ AllocScanDomain = 0 => ~(UmbLinked /\ AllocMethod.domain = "low")

(* The chain is that of the entry, merged behind the walk and, at the      *)
(* block under examination, as far as coalesce has come.                   *)
Merged ==
    IF at \in {"coalesce", "fit"}
    THEN /\ ds \in Usable
         /\ IsFree(mcb, ds)
         /\ CoalesceAll(mcb, {ds}) = CoalesceAll(prior, Behind \cup {ds})
         /\ at = "fit" => Run(mcb, ds) = {}
    ELSE mcb = CoalesceAll(prior, Behind)

(* The globals hold the choice among the blocks that fit so far, the word  *)
(* on the stack the largest room so far.                                   *)
Recorded ==
    /\ IF Fitting = {}
       THEN FirstArena = 0 /\ BestArena = 0 /\ LastArena = 0
       ELSE /\ FirstArena = FirstFit(Fitting)
            /\ BestArena = BestFit(mcb, regions, Fitting)
            /\ LastArena = LastFit(Fitting)
    /\ allocMax \in Nat
    /\ \A h \in Candidates : Room(mcb, regions, h) <= allocMax
    /\ allocMax # 0 => \E h \in Candidates : Room(mcb, regions, h) = allocMax

EntrySound ==
    /\ DOMAIN prior \subseteq Nat
    /\ prior \in [DOMAIN prior -> Mcb]
    /\ Tiles(prior, ArenaHead, Top)
    /\ Marked(prior, Ends)
    /\ UmbArenaHead # 0 => /\ UmbArenaHead \in DOMAIN prior
                           /\ ~IsFree(prior, UmbArenaHead)

ScanInv ==
    /\ IInv
    /\ at \in {"idle", "scan", "coalesce", "fit", "next", "end"}
    /\ IF at = "idle"
       THEN /\ FirstArena = 0 /\ BestArena = 0 /\ LastArena = 0
            /\ allocMax = 0
       ELSE /\ Quiet /\ bx \in Requests
            /\ EntrySound /\ Place /\ Merged /\ Recorded

-----------------------------------------------------------------------------

(* The scan is the one-step call: Arena sees the chain of the entry until  *)
(* the call returns, and then the effect of AllocOk or AllocFail.          *)
Atomic == INSTANCE Arena WITH mcb <- IF at = "idle" THEN mcb ELSE prior
ScanIsAtomic == Atomic!Spec

(* What BX reports when the call fails: with the largest size the scan     *)
(* found the same request would have succeeded, and with one more it would *)
(* not (Scanned and FitsIn are those of the chain the scan leaves).        *)
ReportedMaxIsExact ==
    at = "end" /\ FirstArena = 0
      /\ (AllocScanDomain # 1 \/ AllocMethod.domain # "fallback") =>
        /\ allocMax < bx \/ bx = 0
        /\ allocMax > 0 => FitsIn(Scanned(allocMax), allocMax) # {}
        /\ FitsIn(Scanned(allocMax + 1), allocMax + 1) = {}

(* No walk ever reaches a paragraph that is not a header. *)
NeverTrashed == at # "trashed"

(* Every allocation call returns: the fallback does not scan for ever. *)
AllocReturns == (at # "idle") ~> (at = "idle")

=============================================================================
