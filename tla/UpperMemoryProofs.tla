------------------------- MODULE UpperMemoryProofs -------------------------
(***************************************************************************)
(* Proofs about upper memory from its acquisition to its use, for every    *)
(* value of the constants.                                                 *)
(*                                                                         *)
(* UmbBoot: the acquisition is transactional, whatever the provider grants *)
(* and whenever it fails.  AcquireInv says how far the table, the          *)
(* provider's record and the arena agree at each point of AcquireUmbs.     *)
(*                                                                         *)
(* LoadHigh, for every arena, any number of interpreters inside each other *)
(* and all options of LOADHIGH: a command puts back what it changed, its   *)
(* program starts under the complete profile, and no cap outlives the      *)
(* commands that set it.                                                   *)
(***************************************************************************)
EXTENDS UmbBoot, LoadHigh, ArenaProofs

-----------------------------------------------------------------------------
(* UmbBoot: the invariant *)

Published == {"register", "reset", "finalize"}
Unpublished == {"query", "request", "overflow", "validate", "rollback",
                "release"}

(* The extents of the table from the k-th on. *)
From(k) == {UmbExtents[i] : i \in {j \in DOMAIN UmbExtents : k <= j}}

Table ==
    /\ UmbExtents \in Seq(Extents) /\ Len(UmbExtents) <= MaxRegions
    /\ \A i, j \in DOMAIN UmbExtents : UmbExtents[i] = UmbExtents[j] => i = j

Cursor ==
    /\ pc \in {"idle"} \cup Published \cup Unpublished
    /\ si \in Nat /\ si <= MaxRegions + 1
    /\ pc \in {"register", "release", "reset"} => si \in DOMAIN UmbExtents
    /\ pc = "finalize" => si = Len(UmbExtents) + 1
    /\ pc \in {"validate", "finalize"} => UmbExtents # <<>>
    /\ pc = "request" => ~Full

Holding ==
    /\ held \subseteq Extents
    /\ extra \subseteq held
    /\ pc # "overflow" => extra = {}
    /\ extra \cap From(1) = {}
    /\ held = IF pc = "release" THEN From(si) ELSE From(1) \cup extra

(* The first n regions are the first n extents of the table. *)
Match(n) ==
    /\ Len(regions) = n /\ n <= Len(UmbExtents)
    /\ \A i \in 1 .. n :
          <<regions[i].start, regions[i].end - regions[i].start>> = UmbExtents[i]

Publishing ==
    /\ regions \in Seq(Region)
    /\ umbReady \in BOOLEAN
    /\ umbReady => pc = "idle" /\ UmbExtents # <<>>
    /\ pc = "idle" => Match(Len(UmbExtents)) /\ (regions # <<>> => umbReady)
    /\ pc \in Published => Match(si - 1)
    /\ pc \in Unpublished => regions = <<>>

AcquireInv == Table /\ Cursor /\ Holding /\ Publishing

-----------------------------------------------------------------------------

(* Before the first acquisition the table, the record and the arena are    *)
(* empty.                                                                  *)
LEMMA BootInitSound == BootInit => AcquireInv
<1> SUFFICES ASSUME BootInit PROVE AcquireInv
  OBVIOUS
<1> USE DEF Published, Unpublished
<1>1. /\ pc = "idle" /\ UmbExtents = <<>> /\ si = 0 /\ extra = {} /\ held = {}
      /\ regions = <<>> /\ umbReady = FALSE
      /\ MaxRegions \in Nat
  BY ArenaAssumption DEF BootInit, Init
<1>2. UmbExtents \in Seq(Extents) /\ Len(UmbExtents) = 0 /\ DOMAIN UmbExtents = {}
  BY <1>1
<1>3. From(1) = {}
  BY <1>2 DEF From
<1>4. Table
  BY <1>1, <1>2 DEF Table
<1>5. Cursor
  BY <1>1 DEF Cursor
<1>6. Holding
  BY <1>1, <1>3 DEF Holding
<1>7. regions \in Seq(Region) /\ Match(0)
  BY <1>1, <1>2 DEF Match
<1>8. Publishing
  BY <1>1, <1>2, <1>7 DEF Publishing
<1> QED BY <1>4, <1>5, <1>6, <1>8 DEF AcquireInv

(* A grant (10h) enters the extent at the end of the table. *)
LEMMA GrantedKeepsAcquireInv ==
    ASSUME AcquireInv, NEW x \in Extents, Granted10h(x)
    PROVE  AcquireInv'
<1> USE DEF Published, Unpublished
<1>1. /\ Len(UmbExtents) < MaxRegions
      /\ pc \in {"query", "request"} /\ pc' = "query"
      /\ extra = {} /\ held = From(1)
      /\ x \notin From(1)
      /\ UmbExtents \in Seq(Extents)
      /\ UmbExtents' = Append(UmbExtents, x)
      /\ held' = held \cup {x}
      /\ MaxRegions \in Nat
  BY ArenaAssumption
     DEF Granted10h, AcquireInv, Table, Cursor, Holding, Full
<1>2. /\ UmbExtents' \in Seq(Extents)
      /\ Len(UmbExtents') = Len(UmbExtents) + 1
      /\ DOMAIN UmbExtents = 1 .. Len(UmbExtents)
      /\ DOMAIN UmbExtents' = 1 .. Len(UmbExtents) + 1
      /\ UmbExtents'[Len(UmbExtents) + 1] = x
      /\ \A i \in DOMAIN UmbExtents : UmbExtents'[i] = UmbExtents[i]
  BY <1>1
<1>3. \A i \in DOMAIN UmbExtents : UmbExtents[i] \in From(1)
  BY <1>2 DEF From
<1>4. From(1)' = From(1) \cup {x}
  BY <1>2 DEF From
<1>5. Table'
  BY <1>1, <1>2, <1>3 DEF AcquireInv, Table
<1>6. Cursor' /\ Holding'
  BY <1>1, <1>2, <1>4 DEF Granted10h, AcquireInv, Cursor, Holding
<1>7. Publishing'
  BY <1>1 DEF Granted10h, AcquireInv, Publishing, vars, umbVars
<1> QED BY <1>5, <1>6, <1>7 DEF AcquireInv

(* The steps of the queries that grant nothing, and those of the overflow. *)
LEMMA QueryKeepsAcquireInv ==
    ASSUME AcquireInv,
           \/ Acquire \/ SmallerAvailable \/ NoneLeft \/ ProviderError
           \/ ReleaseOverflow \/ RegisterRefused
           \/ \E x \in Extents : OverflowOwned(x)
    PROVE  AcquireInv'
<1> USE DEF Published, Unpublished, AcquireInv, Table, Cursor, Holding,
            Publishing, Match, vars, umbVars, KeepTable
<1>1. UNCHANGED <<regions, umbReady, UmbExtents, si>>
  BY DEF Acquire, SmallerAvailable, NoneLeft, ProviderError, ReleaseOverflow,
         RegisterRefused, OverflowOwned
<1>2. \A k : From(k)' = From(k)
  BY <1>1 DEF From
<1>3. CASE Acquire
  BY <1>1, <1>2, <1>3 DEF Acquire
<1>4. CASE SmallerAvailable
  BY <1>1, <1>2, <1>4 DEF SmallerAvailable, Full
<1>5. CASE NoneLeft
  BY <1>1, <1>2, <1>5 DEF NoneLeft
<1>6. CASE ProviderError
  BY <1>1, <1>2, <1>6 DEF ProviderError
<1>7. CASE ReleaseOverflow
  BY <1>1, <1>2, <1>7 DEF ReleaseOverflow
<1>8. CASE RegisterRefused
  BY <1>1, <1>2, <1>8 DEF RegisterRefused
<1>9. ASSUME NEW x \in Extents, OverflowOwned(x) PROVE AcquireInv'
  BY <1>1, <1>2, <1>9 DEF OverflowOwned
<1> QED BY <1>3, <1>4, <1>5, <1>6, <1>7, <1>8, <1>9

(* Sorting keeps the extents of the table. *)
LEMMA ValidateKeepsAcquireInv ==
    ASSUME AcquireInv, Validate
    PROVE  AcquireInv'
<1> USE DEF Published, Unpublished
<1> PICK p \in Orders(UmbExtents) :
      UmbExtents' = [i \in DOMAIN UmbExtents |-> UmbExtents[p[i]]]
  BY DEF Validate
<1> DEFINE D == DOMAIN UmbExtents
<1>1. /\ p \in [D -> D]
      /\ \A i, j \in D : p[i] = p[j] => i = j
      /\ \A j \in D : \E i \in D : p[i] = j
  BY DEF Orders
<1>2. /\ UmbExtents \in Seq(Extents) /\ D = 1 .. Len(UmbExtents)
      /\ Len(UmbExtents) \in Nat /\ Len(UmbExtents) # 0
      /\ \A i, j \in D : UmbExtents[i] = UmbExtents[j] => i = j
      /\ Len(UmbExtents) <= MaxRegions
      /\ pc = "validate"
  BY DEF Validate, AcquireInv, Table, Cursor
<1>3. /\ UmbExtents' \in Seq(Extents)
      /\ Len(UmbExtents') = Len(UmbExtents)
      /\ DOMAIN UmbExtents' = D
  BY <1>1, <1>2
<1>4. Table'
  BY <1>1, <1>2, <1>3 DEF Table
<1>5. From(1)' = From(1)
  BY <1>1, <1>2, <1>3 DEF From
<1>6. /\ extra = {} /\ held = From(1) /\ regions = <<>>
      /\ UNCHANGED <<regions, umbReady, extra, held>>
      /\ pc' \in {"register", "rollback"}
      /\ pc' = "register" => si' = 1
      /\ pc' = "rollback" => si' = si
      /\ ~umbReady
  BY <1>2 DEF Validate, AcquireInv, Holding, Publishing, vars, umbVars
<1>7. Cursor'
  BY <1>2, <1>3, <1>6, ArenaAssumption DEF AcquireInv, Cursor
<1>8. Holding' /\ Publishing'
  BY <1>2, <1>3, <1>5, <1>6 DEF AcquireInv, Holding, Publishing, Match
<1> QED BY <1>4, <1>7, <1>8 DEF AcquireInv

(* Registering an extent makes it the next region. *)
LEMMA RegisterKeepsAcquireInv ==
    ASSUME AcquireInv, Register
    PROVE  AcquireInv'
<1> USE DEF Published, Unpublished
<1> DEFINE x == UmbExtents[si]
           r == [start |-> x[1], end |-> x[1] + x[2], limit |-> NoLimit]
<1>1. /\ pc = "register" /\ si \in DOMAIN UmbExtents
      /\ UmbExtents \in Seq(Extents)
      /\ si \in Nat /\ si >= 1 /\ si <= Len(UmbExtents)
      /\ regions \in Seq(Region) /\ Match(si - 1)
      /\ ~umbReady /\ umbReady \in BOOLEAN
      /\ Len(UmbExtents) \in Nat /\ DOMAIN UmbExtents = 1 .. Len(UmbExtents)
      /\ MaxRegions \in Nat /\ Len(UmbExtents) <= MaxRegions
      /\ UmbExtents # <<>>
  <2>1. UmbExtents \in Seq(Extents) /\ MaxRegions \in Nat
    BY ArenaAssumption DEF AcquireInv, Table
  <2> QED BY <2>1 DEF Register, AcquireInv, Table, Cursor, Publishing
<1>2. /\ x \in Word \X Word
      /\ x[1] \in Nat /\ x[2] \in Nat /\ x[1] + x[2] < WordSize
      /\ regions' = Append(regions, r)
      /\ UNCHANGED umbReady
  <2>1. x \in Extents
    BY <1>1
  <2>2. x \in Word \X Word
    BY <2>1, ArenaAssumption
  <2> QED BY <2>2, WordSizeAssumption
          DEF Register, RegisterFirst, RegisterAppend, CanRegister, AddRegion,
              Word
<1>3. r \in Region /\ <<r.start, r.end - r.start>> = x
  BY <1>2, WordSizeAssumption DEF Region, Word, NoLimit
<1>4. /\ regions' \in Seq(Region)
      /\ Len(regions') = si
      /\ regions'[si] = r
      /\ \A i \in 1 .. si - 1 : regions'[i] = regions[i]
  BY <1>1, <1>2, <1>3 DEF Match
<1>5. /\ UNCHANGED <<UmbExtents, extra, held>>
      /\ si' = si + 1
      /\ pc' = IF si = Len(UmbExtents) THEN "finalize" ELSE "register"
  BY DEF Register
<1>6. Match(si - 1)'
  BY <1>1, <1>3, <1>4, <1>5 DEF Match
<1>7. From(1)' = From(1) /\ Table'
  BY <1>5 DEF From, AcquireInv, Table
<1>8. Cursor'
  BY <1>1, <1>5 DEF Cursor
<1>9. Holding' /\ Publishing'
  <2>1. Holding'
    BY <1>1, <1>5, <1>7 DEF AcquireInv, Holding
  <2>2. Publishing'
    BY <1>1, <1>2, <1>4, <1>5, <1>6 DEF Publishing
  <2> QED BY <2>1, <2>2
<1> QED BY <1>7, <1>8, <1>9 DEF AcquireInv

(* Function 5806h ends a successful acquisition, 5805h withdraws what was  *)
(* published.                                                              *)
LEMMA FinalizeAndResetKeepAcquireInv ==
    ASSUME AcquireInv, Finalize \/ Reset
    PROVE  AcquireInv'
<1> USE DEF Published, Unpublished
<1>1. From(1)' = From(1) /\ Table' /\ UNCHANGED <<UmbExtents, extra, held>>
  BY DEF From, Finalize, Reset, AcquireInv, Table
<1>2. CASE Finalize
  <2>1. /\ pc = "finalize" /\ pc' = "idle" /\ si' = 0 /\ umbReady' = TRUE
        /\ regions' = regions
    BY <1>2 DEF Finalize, FinalizeUmb
  <2>2. /\ UmbExtents # <<>> /\ MaxRegions \in Nat /\ Len(UmbExtents) \in Nat
        /\ si = Len(UmbExtents) + 1 /\ Match(si - 1)
    BY <2>1, ArenaAssumption DEF AcquireInv, Table, Cursor, Publishing
  <2>3. Cursor' /\ Holding'
    BY <1>1, <2>1, <2>2 DEF AcquireInv, Cursor, Holding
  <2>4. Match(Len(UmbExtents))'
    BY <1>1, <2>1, <2>2 DEF Match
  <2>5. Publishing'
    BY <1>1, <2>1, <2>2, <2>4 DEF AcquireInv, Publishing
  <2> QED BY <1>1, <2>3, <2>5 DEF AcquireInv
<1>3. CASE Reset
  <2>1. /\ pc = "reset" /\ pc' = "rollback" /\ si' = si /\ umbReady' = umbReady
        /\ regions' = <<>> /\ ~umbReady /\ umbReady \in BOOLEAN
    BY <1>3 DEF Reset, ResetUmb, AcquireInv, Publishing
  <2>2. Cursor' /\ Holding'
    BY <1>1, <2>1 DEF AcquireInv, Cursor, Holding
  <2>3. regions' \in Seq(Region)
    BY <2>1
  <2>4. Publishing'
    BY <2>1, <2>3 DEF Publishing
  <2> QED BY <1>1, <2>2, <2>4 DEF AcquireInv
<1> QED BY <1>2, <1>3

(* The release loop gives back the extents of the table one by one. *)
LEMMA RollbackKeepsAcquireInv ==
    ASSUME AcquireInv, Rollback \/ Release
    PROVE  AcquireInv'
<1> USE DEF Published, Unpublished
<1>1. /\ UmbExtents \in Seq(Extents) /\ Len(UmbExtents) \in Nat
      /\ DOMAIN UmbExtents = 1 .. Len(UmbExtents)
      /\ UmbExtents = <<>> <=> Len(UmbExtents) = 0
      /\ MaxRegions \in Nat
  BY ArenaAssumption DEF AcquireInv, Table
<1>2. /\ UNCHANGED <<regions, umbReady, extra>>
      /\ regions = <<>> /\ extra = {} /\ ~umbReady
  BY DEF Rollback, Release, AcquireInv, Holding, Publishing, vars, umbVars
<1>3. CASE Rollback
  <2>1. UNCHANGED <<UmbExtents, held>> /\ From(1)' = From(1)
    BY <1>3 DEF Rollback, From
  <2> QED BY <1>1, <1>2, <1>3, <2>1
          DEF Rollback, AcquireInv, Table, Cursor, Holding, Publishing, Match
<1>4. CASE Release
  <2>1. /\ pc = "release" /\ si \in 1 .. Len(UmbExtents)
        /\ held = From(si) /\ held' = held \ {UmbExtents[si]}
        /\ \A i, j \in DOMAIN UmbExtents :
              UmbExtents[i] = UmbExtents[j] => i = j
    BY <1>1, <1>4 DEF Release, AcquireInv, Table, Cursor, Holding
  <2>2. CASE si = Len(UmbExtents)
    <3>1. /\ UmbExtents' = <<>> /\ pc' = "idle" /\ si' = 0
      BY <1>4, <2>2 DEF Release
    <3>2. held' = {} /\ From(1)' = {}
      BY <1>1, <2>1, <2>2, <3>1 DEF From
    <3> QED BY <1>1, <1>2, <3>1, <3>2
            DEF AcquireInv, Table, Cursor, Holding, Publishing, Match
  <2>3. CASE si # Len(UmbExtents)
    <3>1. /\ UmbExtents' = UmbExtents /\ pc' = "release" /\ si' = si + 1
      BY <1>4, <2>3 DEF Release
    <3>2. From(si)' = From(si + 1) /\ From(1)' = From(1)
      BY <3>1 DEF From
    <3>3. ASSUME NEW e
          PROVE  e \in From(si) /\ e # UmbExtents[si] <=> e \in From(si + 1)
      <4>1. \A k : e \in From(k) <=>
                     \E i \in DOMAIN UmbExtents : k <= i /\ e = UmbExtents[i]
        BY DEF From
      <4>2. \A i \in DOMAIN UmbExtents :
              si <= i /\ UmbExtents[i] # UmbExtents[si] <=> si + 1 <= i
        BY <1>1, <2>1
      <4> QED BY <4>1, <4>2
    <3>4. held' = From(si + 1)
      BY <2>1, <3>3
    <3>5. Table' /\ Publishing'
      BY <1>2, <2>1, <3>1 DEF AcquireInv, Table, Publishing
    <3>6. Cursor'
      <4>1. Len(UmbExtents) <= MaxRegions
        BY DEF AcquireInv, Table
      <4>2. /\ si + 1 \in 1 .. Len(UmbExtents) /\ si + 1 \in Nat
            /\ si + 1 <= MaxRegions + 1
        <5>1. /\ Len(UmbExtents) \in Nat /\ MaxRegions \in Nat
              /\ si \in 1 .. Len(UmbExtents) /\ si # Len(UmbExtents)
          BY <1>1, <2>1, <2>3
        <5>2. si \in Nat /\ 1 <= si /\ si < Len(UmbExtents)
          BY <5>1
        <5> QED BY <5>1, <5>2, <4>1
      <4>3. /\ si' \in DOMAIN UmbExtents' /\ si' \in Nat
            /\ si' <= MaxRegions + 1
        BY <1>1, <3>1, <4>2
      <4> QED BY <3>1, <4>3 DEF Cursor
    <3>7. Holding'
      BY <1>2, <2>1, <3>1, <3>2, <3>4 DEF AcquireInv, Holding
    <3> QED BY <3>5, <3>6, <3>7 DEF AcquireInv
  <2> QED BY <2>2, <2>3
<1> QED BY <1>3, <1>4

(* No call of a program changes where a region is. *)
LEMMA MemoryCallKeepsAcquireInv ==
    ASSUME AcquireInv, MemoryCall
    PROVE  AcquireInv'
<1> USE DEF Published, Unpublished
<1>1. /\ pc = "idle" /\ UNCHANGED bootVars
      /\ regions \in Seq(Region) /\ Match(Len(UmbExtents))
  BY DEF MemoryCall, AcquireInv, Publishing
<1>2. /\ umbReady' = umbReady
      /\ regions' \in Seq(Region) /\ Len(regions') = Len(regions)
      /\ \A i \in 1 .. Len(regions) :
            regions'[i].start = regions[i].start /\ regions'[i].end = regions[i].end
  <2>1. CASE Alloc
    BY <1>1, <2>1 DEF Alloc, AllocOk, AllocFail, umbVars
  <2>2. CASE OtherCalls
    <3>1. CASE \E i \in DOMAIN regions : \E limit \in Limits :
                  SetRegionLimit(i, limit)
      <4> PICK i \in DOMAIN regions, limit \in Limits : SetRegionLimit(i, limit)
        BY <3>1
      <4>1. limit \in Word /\ umbReady' = umbReady
            /\ regions' = [regions EXCEPT ![i].limit = limit]
        BY ArenaAssumption DEF SetRegionLimit
      <4>2. \A j \in DOMAIN regions : regions[j] \in Region
        BY <1>1
      <4>3. /\ DOMAIN regions' = DOMAIN regions /\ Len(regions') = Len(regions)
            /\ \A j \in DOMAIN regions : /\ regions'[j] \in Region
                                         /\ regions'[j].start = regions[j].start
                                         /\ regions'[j].end = regions[j].end
        BY <1>1, <4>1, <4>2 DEF Region
      <4>4. regions' \in Seq(Region)
        BY <1>1, <4>1, <4>3
      <4>5. DOMAIN regions = 1 .. Len(regions)
        BY <1>1
      <4> QED BY <4>1, <4>3, <4>4, <4>5
    <3>2. CASE UNCHANGED <<regions, umbReady>>
      BY <1>1, <3>2
    <3> QED BY <2>2, <3>1, <3>2
            DEF OtherCalls, Dealloc, SetBlock, FreeProcess, SetCurrentPDB,
                SetMethod, SetLink, SetRegionFilter, umbVars
  <2> QED BY <2>1, <2>2 DEF MemoryCall
<1>3. Table' /\ Cursor' /\ Holding'
  BY <1>1 DEF bootVars, AcquireInv, Table, Cursor, Holding, From, Full
<1>4. Publishing'
  BY <1>1, <1>2 DEF bootVars, AcquireInv, Publishing, Match
<1> QED BY <1>3, <1>4 DEF AcquireInv

(* The invariant is inductive. *)
LEMMA BootNextKeepsAcquireInv ==
    ASSUME AcquireInv, [BootNext]_<<vars, bootVars>>
    PROVE  AcquireInv'
<1>1. CASE BootNext
  BY <1>1, GrantedKeepsAcquireInv, QueryKeepsAcquireInv, ValidateKeepsAcquireInv,
     RegisterKeepsAcquireInv, FinalizeAndResetKeepAcquireInv, RollbackKeepsAcquireInv,
     MemoryCallKeepsAcquireInv
     DEF BootNext, AcquireStep
<1>2. CASE UNCHANGED <<vars, bootVars>>
  BY <1>2 DEF vars, umbVars, bootVars, AcquireInv, Table, Cursor, Holding,
              Publishing, Match, From, Full
<1> QED BY <1>1, <1>2

(* What the invariant says of the regions. *)
LEMMA RegisteredExtents ==
    ASSUME AcquireInv
    PROVE  AllOrNothing /\ RegionsBacked
<1> USE DEF Published, Unpublished
<1>1. /\ UmbExtents \in Seq(Extents) /\ regions \in Seq(Region)
      /\ DOMAIN UmbExtents = 1 .. Len(UmbExtents)
      /\ DOMAIN regions = 1 .. Len(regions)
      /\ Len(UmbExtents) \in Nat
  BY DEF AcquireInv, Table, Publishing
<1>2. CASE pc = "idle"
  <2>1. Match(Len(UmbExtents)) /\ held = From(1) /\ (regions # <<>> => umbReady)
    BY <1>2 DEF AcquireInv, Publishing, Holding
  <2>2. Registered = {UmbExtents[i] : i \in 1 .. Len(UmbExtents)}
    BY <1>1, <2>1 DEF Registered, Match
  <2>3. From(1) = {UmbExtents[i] : i \in 1 .. Len(UmbExtents)}
    BY <1>1 DEF From
  <2> QED BY <2>1, <2>2, <2>3 DEF AllOrNothing, RegionsBacked
<1>3. CASE pc \in Published
  <2>1. Match(si - 1) /\ held = From(1)
    BY <1>3 DEF AcquireInv, Publishing, Holding
  <2>2. Registered \subseteq From(1)
    BY <1>1, <2>1 DEF Registered, Match, From
  <2> QED BY <1>3, <2>1, <2>2 DEF AllOrNothing, RegionsBacked
<1>4. CASE pc \in Unpublished
  BY <1>4 DEF AcquireInv, Publishing, AllOrNothing, RegionsBacked, Registered
<1> QED BY <1>2, <1>3, <1>4 DEF AcquireInv, Cursor

(* UMB acquisition and publication are transactional: outside AcquireUmbs  *)
(* the provider's extents are all finalized regions, or none is held and   *)
(* none is a region.                                                       *)
THEOREM AcquisitionIsTransactional == BootSpec => []AllOrNothing
<1>1. AcquireInv /\ [BootNext]_<<vars, bootVars>> => AcquireInv'
  BY BootNextKeepsAcquireInv
<1>2. AcquireInv => AllOrNothing
  BY RegisteredExtents
<1> QED BY BootInitSound, <1>1, <1>2, PTL DEF BootSpec

(* At no step is an extent in the arena that the provider has taken back.  *)
THEOREM RegionsAlwaysBacked == BootSpec => []RegionsBacked
<1>1. AcquireInv /\ [BootNext]_<<vars, bootVars>> => AcquireInv'
  BY BootNextKeepsAcquireInv
<1>2. AcquireInv => RegionsBacked
  BY RegisteredExtents
<1> QED BY BootInitSound, <1>1, <1>2, PTL DEF BootSpec

-----------------------------------------------------------------------------
(* LoadHigh: the invariant *)

Places == {"prompt", "save", "filter", "limit", "link", "strategy", "exec", "running",
           "unlimit", "unfilter", "unstrategy", "unlink"}

(* Where the command has saved the state and not yet put all of it back,   *)
(* its program's run aside.                                                *)
Changed == Places \ {"prompt", "save", "running"}

State == [strategy : AllMethods, link : BOOLEAN, filter : SUBSET AllRegions]

ShellState == [pc : Places, pending : BOOLEAN, profile : Profile, saved : State,
               todo : SUBSET AllRegions, before : State]

HighType == depth \in Shells /\ shell \in [Shells -> ShellState]

(* One interpreter's own books. *)
ShellInv(s) ==
    /\ s.pc \in Changed => s.pending
    /\ s.pending => s.saved = s.before /\ (s.saved.link => umbReady)
    /\ s.pc # "prompt" => Capped(s.profile) \subseteq DOMAIN regions
    /\ s.todo \subseteq Capped(s.profile)

(* All interpreters but the last wait for their program. *)
StackInv ==
    /\ \A d \in 1 .. depth : ShellInv(shell[d])
    /\ \A d \in 1 .. depth - 1 : shell[d].pc = "running"
    /\ Quiet \/ (depth = 1 /\ me.pc = "prompt")

LimitsSet(s) == \A i \in Capped(s.profile) \ s.todo : regions[i].limit = s.profile.minimum[i]

(* What is in force at each place of the command in control.               *)
PlaceInv ==
    /\ me.pc = "save" => me.before = AllocState
    /\ me.pc \in {"limit", "link", "strategy", "exec"} => UmbRegionFilter = me.profile.mask
    /\ me.pc \in {"limit", "link", "strategy", "exec"} => LimitsSet(me)
    /\ me.pc \in {"link", "strategy", "exec"} => me.todo = {}
    /\ me.pc \in {"strategy", "exec"} => (UmbArenaHead # 0 => UmbLinked)
    /\ me.pc = "exec" => AllocMethod = UpperFirst
    /\ me.pc \in {"unstrategy", "unlink"} => UmbRegionFilter = me.saved.filter
    /\ me.pc = "unlink" => AllocMethod = me.saved.strategy

(* The caps an interpreter has still to remove. *)
Claims(s) ==
    {i \in Capped(s.profile) :
        /\ s.pending
        /\ \/ s.pc \in {"limit", "link", "strategy", "exec", "running"}
           \/ s.pc = "unlimit" /\ i \in s.todo}

CapsInv ==
    \A i \in DOMAIN regions : regions[i].limit # NoLimit =>
        \E d \in 1 .. depth : i \in Claims(shell[d])

ShellsInv == HighType /\ StackInv /\ PlaceInv /\ CapsInv

HighInv == IInv /\ ShellsInv

-----------------------------------------------------------------------------
(* Types, and what single calls do *)

LEMMA NoProfileType == NoProfile \in Profile /\ Capped(NoProfile) = {} /\ Listed(NoProfile) = {}
<1>1. 0 \in Word
  BY WordSizeAssumption DEF Word
<1> QED BY <1>1 DEF NoProfile, Profile, Capped, Listed

LEMMA ProfileType ==
    ASSUME NEW p \in Profile
    PROVE  /\ p.mask \in SUBSET AllRegions
           /\ Capped(p) \in SUBSET AllRegions /\ Capped(p) \subseteq p.mask
           /\ \A i \in AllRegions : p.minimum[i] \in Word
BY DEF Profile, Capped

LEMMA StateType ==
    ASSUME IInv
    PROVE  /\ AllocState \in State
           /\ AllocState.strategy = AllocMethod
           /\ AllocState.link = UmbLinked
           /\ AllocState.filter = UmbRegionFilter
           /\ AllocState.link => umbReady
BY DEF IInv, TypeOK, BootState, AllocState, State, AllRegions

LEMMA StateIs ==
    ASSUME NEW s \in State, AllocMethod' = s.strategy, UmbLinked' = s.link,
           UmbRegionFilter' = s.filter
    PROVE  AllocState' = s
<1>1. s = [strategy |-> s.strategy, link |-> s.link, filter |-> s.filter]
  BY DEF State
<1> QED BY <1>1 DEF AllocState

LEMMA AtPromptType ==
    ASSUME IInv
    PROVE  /\ AtPrompt \in ShellState
           /\ AtPrompt.pc = "prompt" /\ AtPrompt.pending = FALSE
           /\ AtPrompt.profile = NoProfile /\ AtPrompt.todo = {}
           /\ AtPrompt.before = AllocState
BY NoProfileType, StateType DEF AtPrompt, ShellState, Places

LEMMA NextRegion ==
    ASSUME NEW S \in SUBSET AllRegions, S # {}
    PROVE  FirstFit(S) \in S
<1>1. S \in SUBSET Nat
  BY DEF AllRegions
<1>2. \E h \in S : \A g \in S : h <= g
  BY <1>1, MinExists
<1> QED BY <1>2 DEF FirstFit

(* Function 5803h with its error ignored: afterwards the link state is the *)
(* one asked for, if there is an upper arena or none is wanted.            *)
LEMMA LinkPut ==
    ASSUME IInv, NEW on \in BOOLEAN, PutLink(on)
    PROVE  /\ IInv' /\ UNCHANGED <<UmbArenaHead, regions, umbReady, UmbRegionFilter, AllocMethod>>
           /\ umbReady \/ ~ on => UmbLinked' = on
<1>t. UmbLinked \in BOOLEAN /\ (UmbLinked => umbReady)
  BY DEF IInv, TypeOK, BootState
<1>1. CASE SetLink(on)
  <2>1. IInv'
    BY <1>1, SetLinkKeepsInvariant
  <2> QED BY <1>1, <2>1 DEF SetLink, profileVars
<1>2. CASE (on = UmbLinked \/ ~ CanSetLink(on)) /\ UNCHANGED vars
  <2>1. IInv'
    BY <1>2, NextKeepsInvariant
  <2>2. UNCHANGED <<UmbArenaHead, regions, umbReady, UmbRegionFilter, AllocMethod, UmbLinked>>
    BY <1>2 DEF vars, umbVars, profileVars
  <2>3. umbReady => CanSetLink(~ UmbLinked)
    BY LinkPossible DEF LinkAlwaysPossible
  <2>4. umbReady \/ ~ on => UmbLinked = on
    <3>1. CASE on = ~ UmbLinked
      BY <1>t, <1>2, <2>3, <3>1
    <3>2. CASE on = UmbLinked
      BY <3>2
    <3> QED BY <1>t, <3>1, <3>2
  <2> QED BY <2>1, <2>2, <2>4
<1> QED BY <1>1, <1>2 DEF PutLink

(* What a program may do. *)
LEMMA ProgramKept ==
    ASSUME IInv, Program
    PROVE  /\ IInv'
           /\ UNCHANGED <<UmbArenaHead, umbReady, regions, UmbRegionFilter>>
<1>1. IInv'
  <2>1. Alloc \/ OtherCalls
    BY Zenon DEF Program, OtherCalls
  <2> QED BY <2>1, NextKeepsInvariant DEF Next
<1>2. UNCHANGED <<UmbArenaHead, umbReady, regions, UmbRegionFilter>>
  <2>1. CASE Alloc
    BY <2>1, Zenon DEF Alloc, AllocOk, AllocFail, umbVars, profileVars
  <2>2. CASE \/ \E h \in DOMAIN mcb : Dealloc(h)
             \/ FreeProcess
             \/ \E method \in Methods : SetMethod(method)
             \/ \E on \in BOOLEAN : SetLink(on)
    BY <2>2, Zenon DEF Dealloc, FreeProcess, SetMethod, SetLink, umbVars, profileVars
  <2> QED BY <2>1, <2>2 DEF Program
<1> QED BY <1>1, <1>2

-----------------------------------------------------------------------------
(* Changes of one interpreter's books *)

Others(d) ==
    /\ shell' \in [Shells -> ShellState]
    /\ \A e \in Shells \ {d} : shell'[e] = shell[e]

LEMMA Entered ==
    ASSUME HighType, NEW d \in Shells, NEW s \in ShellState, shell' = [shell EXCEPT ![d] = s]
    PROVE  Others(d) /\ shell'[d] = s
BY DEF HighType, Others

LEMMA Went ==
    ASSUME HighType, NEW p \in Places, Goto(p)
    PROVE  /\ Others(depth)
           /\ shell'[depth].pc = p
           /\ shell'[depth].pending = me.pending
           /\ shell'[depth].profile = me.profile
           /\ shell'[depth].saved = me.saved
           /\ shell'[depth].todo = me.todo
           /\ shell'[depth].before = me.before
<1> DEFINE s == [me EXCEPT !.pc = p]
<1>1. me \in ShellState /\ depth \in Shells
  BY DEF HighType, me
<1>2. s \in ShellState /\ s.pc = p /\ s.pending = me.pending /\ s.profile = me.profile
      /\ s.saved = me.saved /\ s.todo = me.todo /\ s.before = me.before
  BY <1>1 DEF ShellState
<1>3. shell' = [shell EXCEPT ![depth] = s]
  BY DEF Goto, me
<1> HIDE DEF s
<1> QED BY <1>1, <1>2, <1>3, Entered

LEMMA WentWith ==
    ASSUME HighType, NEW d \in Shells, NEW p \in Places, NEW t \in SUBSET AllRegions,
           shell' = [shell EXCEPT ![d].pc = p, ![d].todo = t]
    PROVE  /\ Others(d)
           /\ shell'[d].pc = p
           /\ shell'[d].pending = shell[d].pending
           /\ shell'[d].profile = shell[d].profile
           /\ shell'[d].saved = shell[d].saved
           /\ shell'[d].todo = t
           /\ shell'[d].before = shell[d].before
<1> DEFINE s == [shell[d] EXCEPT !.pc = p, !.todo = t]
<1>1. shell[d] \in ShellState
  BY DEF HighType
<1>2. s \in ShellState /\ s.pc = p /\ s.pending = shell[d].pending /\ s.profile = shell[d].profile
      /\ s.saved = shell[d].saved /\ s.todo = t /\ s.before = shell[d].before
  BY <1>1 DEF ShellState
<1>3. shell' = [shell EXCEPT ![d] = s]
  BY DEF HighType
<1> HIDE DEF s
<1> QED BY <1>1, <1>2, <1>3, Entered

LEMMA DidRegion ==
    ASSUME HighType, NEW i, shell' = [shell EXCEPT ![depth].todo = @ \ {i}]
    PROVE  /\ Others(depth)
           /\ shell'[depth].pc = me.pc
           /\ shell'[depth].pending = me.pending
           /\ shell'[depth].profile = me.profile
           /\ shell'[depth].saved = me.saved
           /\ shell'[depth].todo = me.todo \ {i}
           /\ shell'[depth].before = me.before
<1> DEFINE s == [me EXCEPT !.todo = me.todo \ {i}]
<1>1. me \in ShellState /\ depth \in Shells
  BY DEF HighType, me
<1>2. s \in ShellState /\ s.pc = me.pc /\ s.pending = me.pending /\ s.profile = me.profile
      /\ s.saved = me.saved /\ s.todo = me.todo \ {i} /\ s.before = me.before
  BY <1>1 DEF ShellState
<1>3. shell' = [shell EXCEPT ![depth] = s]
  BY DEF me
<1> HIDE DEF s
<1> QED BY <1>1, <1>2, <1>3, Entered

(* A step of the interpreter in control. *)
LEMMA OwnStep ==
    ASSUME HighInv, IInv', depth' = depth, Others(depth), ShellInv(me)', PlaceInv', Quiet',
           umbReady' = umbReady, DOMAIN regions' = DOMAIN regions,
           \A i \in DOMAIN regions :
              regions'[i].limit \in {regions[i].limit, NoLimit} \/ i \in Claims(me)',
           \A i \in Claims(me) : i \in Claims(me)' \/ regions'[i].limit = NoLimit
    PROVE  HighInv'
<1> USE DEF HighInv, ShellsInv
<1>1. depth \in Nat /\ 1 .. depth \subseteq Shells /\ depth \in 1 .. depth
      /\ me = shell[depth] /\ me' = shell'[depth]
  BY LoadHighAssumption DEF HighType, Shells, me
<1>2. \A d \in 1 .. depth : d # depth => shell'[d] = shell[d]
  BY <1>1 DEF Others
<1>3. StackInv'
  <2>1. \A d \in 1 .. depth : ShellInv(shell[d])'
    BY <1>1, <1>2 DEF StackInv, ShellInv
  <2>2. \A d \in 1 .. depth - 1 : shell'[d].pc = "running"
    BY <1>1, <1>2 DEF StackInv
  <2> QED BY <2>1, <2>2 DEF StackInv
<1>4. CapsInv'
  <2> SUFFICES ASSUME NEW i \in DOMAIN regions, regions'[i].limit # NoLimit
               PROVE  \E d \in 1 .. depth : i \in Claims(shell'[d])
    BY DEF CapsInv
  <2>1. CASE i \in Claims(me)'
    BY <1>1, <2>1
  <2>2. CASE i \notin Claims(me)'
    <3>1. regions[i].limit # NoLimit /\ i \notin Claims(me)
      BY <2>2
    <3>2. PICK d \in 1 .. depth : i \in Claims(shell[d])
      BY <3>1 DEF CapsInv
    <3> QED BY <1>1, <1>2, <3>1, <3>2
  <2> QED BY <2>1, <2>2
<1>5. HighType'
  BY DEF HighType, Others
<1> QED BY <1>3, <1>4, <1>5

LEMMA Me ==
    ASSUME HighInv
    PROVE  /\ me = shell[depth] /\ depth \in Nat /\ depth \in Shells /\ depth \in 1 .. depth
           /\ me \in ShellState /\ ShellInv(me)
           /\ me.profile \in Profile /\ Capped(me.profile) \in SUBSET AllRegions
           /\ me.pc # "prompt" => Quiet
           /\ IInv /\ regions \in Seq(Region)
           /\ AllocMethod \in AllMethods /\ UmbRegionFilter \in SUBSET AllRegions
<1>1. HighType /\ me = shell[depth] /\ depth \in Nat /\ depth \in Shells /\ depth \in 1 .. depth
  BY LoadHighAssumption DEF HighInv, ShellsInv, HighType, Shells, me
<1>2. me \in ShellState /\ ShellInv(me)
  BY <1>1 DEF HighInv, ShellsInv, HighType, StackInv
<1>3. me.profile \in Profile
  BY <1>2 DEF ShellState
<1> QED BY <1>1, <1>2, <1>3, ProfileType DEF HighInv, ShellsInv, StackInv, IInv, TypeOK, AllRegions

LEMMA MeWent ==
    ASSUME HighInv, depth' = depth, NEW p \in Places, NEW t \in SUBSET AllRegions,
           shell' = [shell EXCEPT ![depth].pc = p, ![depth].todo = t]
    PROVE  /\ Others(depth) /\ me'.pc = p /\ me'.pending = me.pending
           /\ me'.profile = me.profile /\ me'.saved = me.saved
           /\ me'.todo = t /\ me'.before = me.before
<1>1. HighType /\ depth \in Shells /\ me = shell[depth] /\ me' = shell'[depth]
  BY Me DEF HighInv, ShellsInv, me
<1> QED BY <1>1, WentWith

-----------------------------------------------------------------------------
(* The steps *)

(* Before the first prompt nothing is claimed and nothing capped. *)
LEMMA BootInv ==
    ASSUME HighInv, Boot
    PROVE  HighInv'
<1> USE DEF HighInv, ShellsInv
<1>1. depth = 1 /\ me = AtPrompt /\ Registration /\ UNCHANGED <<depth, shell>>
  BY DEF Boot, highVars
<1>2. IInv'
  BY <1>1, RegistrationKeepsInvariant
<1>3. shell[1].pc = "prompt" /\ shell[1].pending = FALSE /\ shell[1].todo = {} /\ me' = me
      /\ me = shell[1]
  BY <1>1, AtPromptType DEF me
<1>4. NoCap
  BY <1>1, <1>3 DEF CapsInv, Claims, NoCap
<1>5. NoCap'
  BY <1>1, <1>4, Me, RegistrationCalm
<1>6. StackInv'
  BY <1>1, <1>3 DEF StackInv, ShellInv
<1>7. PlaceInv'
  BY <1>3 DEF PlaceInv
<1>8. CapsInv'
  BY <1>5 DEF CapsInv, NoCap
<1> QED BY <1>1, <1>2, <1>6, <1>7, <1>8 DEF HighType

(* The parser's two ways to begin a command. *)
LEMMA CommandInv ==
    ASSUME HighInv, Ordinary \/ \E profile \in Profiles \cup {NoProfile} : LoadHigh(profile)
    PROVE  HighInv'
<1> USE DEF HighInv, ShellsInv
<1>1. ASSUME NEW s \in ShellState, me.pc = "prompt", Quiet, UNCHANGED <<vars, depth>>,
             shell' = [shell EXCEPT ![depth] = s], s.pc \in {"save", "running"},
             s.pending = FALSE, s.todo = {}, s.before = AllocState,
             Capped(s.profile) \subseteq DOMAIN regions
      PROVE  HighInv'
  <2>1. Others(depth) /\ me' = s
    BY <1>1, Me, Entered DEF me
  <2>2. UNCHANGED <<regions, umbReady, AllocMethod, UmbLinked, UmbRegionFilter>>
    BY <1>1 DEF vars, umbVars, profileVars
  <2>3. IInv'
    BY <1>1, NextKeepsInvariant
  <2>4. Quiet'
    BY <1>1, <2>2 DEF Quiet
  <2>5. ShellInv(me)'
    BY <1>1, <2>1, <2>2 DEF ShellInv, Changed
  <2>6. PlaceInv'
    BY <1>1, <2>1, <2>2 DEF PlaceInv, AllocState
  <2>7. \A i \in Claims(me) : i \in Claims(me)' \/ regions'[i].limit = NoLimit
    BY <1>1 DEF Claims
  <2> QED BY <1>1, <2>1, <2>2, <2>3, <2>4, <2>5, <2>6, <2>7, OwnStep
<1>2. CASE Ordinary
  <2> DEFINE s == [AtPrompt EXCEPT !.pc = "running"]
  <2>1. s \in ShellState /\ s.pc = "running" /\ s.pending = FALSE /\ s.todo = {}
        /\ s.before = AllocState /\ s.profile = NoProfile
    BY AtPromptType DEF ShellState, Places
  <2>2. me.pc = "prompt" /\ Quiet /\ UNCHANGED <<vars, depth>>
        /\ shell' = [shell EXCEPT ![depth] = s]
    BY <1>2 DEF Ordinary
  <2> HIDE DEF s
  <2> QED BY <1>1, <2>1, <2>2, NoProfileType
<1>3. ASSUME NEW profile \in Profiles \cup {NoProfile}, LoadHigh(profile)
      PROVE  HighInv'
  <2> DEFINE s == [AtPrompt EXCEPT !.pc = "save", !.profile = profile]
  <2>1. profile \in Profile
    BY LoadHighAssumption, NoProfileType
  <2>2. s \in ShellState /\ s.pc = "save" /\ s.pending = FALSE /\ s.todo = {}
        /\ s.before = AllocState /\ s.profile = profile
    BY <2>1, AtPromptType DEF ShellState, Places
  <2>3. me.pc = "prompt" /\ Quiet /\ UNCHANGED <<vars, depth>>
        /\ shell' = [shell EXCEPT ![depth] = s] /\ Listed(profile) \subseteq DOMAIN regions
    BY <1>3 DEF LoadHigh
  <2>4. Capped(profile) \subseteq DOMAIN regions
    <3>1. CASE profile = NoProfile
      BY <3>1, NoProfileType
    <3>2. CASE profile # NoProfile
      BY <2>3, <3>2 DEF Listed, Capped
    <3> QED BY <3>1, <3>2
  <2> HIDE DEF s
  <2> QED BY <1>1, <2>2, <2>3, <2>4
<1> QED BY <1>2, <1>3

(* Steps that change only the interpreter's books. *)
LEMMA BookStep ==
    ASSUME HighInv, me.pc # "prompt", UNCHANGED <<vars, depth>>, Others(depth),
           ShellInv(me)', PlaceInv', \A i \in Claims(me) : i \in Claims(me)'
    PROVE  HighInv'
<1>1. UNCHANGED <<regions, umbReady>> /\ IInv'
  <2>1. IInv'
    BY NextKeepsInvariant DEF HighInv
  <2> QED BY <2>1 DEF vars, umbVars
<1>2. Quiet'
  BY <1>1, Me DEF Quiet
<1> QED BY <1>1, <1>2, OwnStep

LEMMA SaveInv ==
    ASSUME HighInv, Save
    PROVE  HighInv'
<1> USE DEF HighInv, ShellsInv
<1> DEFINE s == [me EXCEPT !.pc = "filter", !.pending = TRUE, !.saved = AllocState]
<1>1. me.pc = "save" /\ UNCHANGED <<vars, depth>> /\ shell' = [shell EXCEPT ![depth] = s]
  BY DEF Save, me
<1>2. AllocState \in State /\ (AllocState.link => umbReady)
  BY StateType
<1>3. s \in ShellState /\ s.pc = "filter" /\ s.pending = TRUE /\ s.profile = me.profile
      /\ s.saved = AllocState /\ s.todo = me.todo /\ s.before = me.before
  BY <1>2, Me DEF ShellState, Places
<1> HIDE DEF s
<1>4. Others(depth) /\ me' = s
  BY <1>1, <1>3, Me, Entered DEF me
<1>5. UNCHANGED <<regions, umbReady>> /\ me.before = AllocState
  BY <1>1 DEF vars, umbVars, PlaceInv
<1>6. ShellInv(me)'
  BY <1>1, <1>2, <1>3, <1>4, <1>5, Me DEF ShellInv
<1>7. PlaceInv'
  BY <1>3, <1>4 DEF PlaceInv
<1>8. Claims(me) = {}
  BY <1>1 DEF Claims
<1> QED BY <1>1, <1>4, <1>6, <1>7, <1>8, BookStep

LEMMA ExecInv ==
    ASSUME HighInv, ExecFails \/ ExecStarts
    PROVE  HighInv'
<1> USE DEF HighInv, ShellsInv
<1>1. me.pc = "exec" /\ UNCHANGED <<vars, depth>> /\ UNCHANGED <<regions, umbReady>>
  BY DEF ExecFails, ExecStarts, vars, umbVars
<1>2. ShellInv(me) /\ me.pending /\ Capped(me.profile) \in SUBSET AllRegions
  BY <1>1, Me DEF ShellInv, Changed, Places
<1>3. CASE ExecFails
  <2>1. shell' = [shell EXCEPT ![depth].pc = "unlimit", ![depth].todo = Capped(me.profile)]
    BY <1>3 DEF ExecFails
  <2>2. /\ Others(depth) /\ me'.pc = "unlimit" /\ me'.pending = me.pending
        /\ me'.profile = me.profile /\ me'.saved = me.saved
        /\ me'.todo = Capped(me.profile) /\ me'.before = me.before
    BY <1>1, <1>2, <2>1, MeWent DEF Places
  <2>3. ShellInv(me)' /\ PlaceInv'
    BY <1>1, <1>2, <2>2 DEF ShellInv, PlaceInv
  <2>4. \A i \in Claims(me) : i \in Claims(me)'
    BY <1>2, <2>2 DEF Claims
  <2> QED BY <1>1, <2>2, <2>3, <2>4, BookStep
<1>4. CASE ExecStarts
  <2>1. Goto("running")
    BY <1>4 DEF ExecStarts
  <2>2. /\ Others(depth) /\ me'.pc = "running" /\ me'.pending = me.pending
        /\ me'.profile = me.profile /\ me'.saved = me.saved
        /\ me'.todo = me.todo /\ me'.before = me.before
    BY <1>1, <2>1, Went DEF me, Places
  <2>3. ShellInv(me)' /\ PlaceInv'
    BY <1>1, <1>2, <2>2 DEF ShellInv, PlaceInv, Changed
  <2>4. \A i \in Claims(me) : i \in Claims(me)'
    BY <1>1, <1>2, <2>2 DEF Claims
  <2> QED BY <1>1, <2>2, <2>3, <2>4, BookStep
<1> QED BY <1>3, <1>4

(* The calls before the EXEC. *)
LEMMA SelectInv ==
    ASSUME HighInv, SelectRegions
    PROVE  HighInv'
<1> USE DEF HighInv, ShellsInv
<1>1. /\ me.pc = "filter" /\ SetRegionFilter(me.profile.mask) /\ depth' = depth
      /\ shell' = [shell EXCEPT ![depth].pc = "limit", ![depth].todo = Capped(me.profile)]
  BY DEF SelectRegions
<1>2. /\ UmbRegionFilter' = me.profile.mask
      /\ UNCHANGED <<mcb, umbVars, CurrentPDB, regions, umbReady, AllocMethod>>
  BY <1>1 DEF SetRegionFilter, umbVars
<1>3. me.profile.mask \in SUBSET AllRegions /\ Capped(me.profile) \in SUBSET AllRegions /\ Quiet
  BY <1>1, Me, ProfileType
<1>4. IInv' /\ Quiet'
  <2>1. IInv'
    BY <1>2, <1>3, Me, PolicyCallGood DEF AllRegions
  <2> QED BY <1>2, <1>3, <2>1 DEF Quiet
<1>5. /\ Others(depth) /\ me'.pc = "limit" /\ me'.pending = me.pending
      /\ me'.profile = me.profile /\ me'.saved = me.saved
      /\ me'.todo = Capped(me.profile) /\ me'.before = me.before
  BY <1>1, <1>3, MeWent DEF Places
<1>6. ShellInv(me)'
  BY <1>1, <1>2, <1>5, Me DEF ShellInv, Changed, Places
<1>7. PlaceInv'
  BY <1>2, <1>5 DEF PlaceInv, LimitsSet
<1>8. Claims(me) = {}
  BY <1>1 DEF Claims
<1> QED BY <1>1, <1>2, <1>4, <1>5, <1>6, <1>7, <1>8, OwnStep

(* One region of a loop. *)
LEMMA LimitStep ==
    ASSUME HighInv, me.pc \in {"limit", "unlimit"}, me.todo # {},
           NEW v, SetRegionLimit(FirstFit(me.todo), v),
           v = IF me.pc = "limit" THEN me.profile.minimum[FirstFit(me.todo)] ELSE NoLimit,
           shell' = [shell EXCEPT ![depth].todo = @ \ {FirstFit(me.todo)}], depth' = depth
    PROVE  HighInv'
<1> USE DEF HighInv, ShellsInv
<1> DEFINE k == FirstFit(me.todo)
<1>1. /\ ShellInv(me) /\ Capped(me.profile) \in SUBSET AllRegions /\ Quiet
      /\ me.profile \in Profile /\ regions \in Seq(Region)
  BY Me
<1>2. me.pending /\ me.todo \subseteq Capped(me.profile) /\ Capped(me.profile) \subseteq DOMAIN regions
  BY <1>1 DEF ShellInv, Changed, Places
<1>3. k \in me.todo
  BY <1>1, <1>2, NextRegion
<1>4. k \in DOMAIN regions /\ k \in Capped(me.profile)
  BY <1>2, <1>3
<1>5. v \in Word
  <2>1. NoLimit \in Word
    BY WordSizeAssumption DEF NoLimit, Word
  <2> QED BY <1>1, <1>4, <2>1, ProfileType
<1> HIDE DEF k
<1>6. SetRegionLimit(k, v) /\ shell' = [shell EXCEPT ![depth].todo = @ \ {k}]
      /\ v = IF me.pc = "limit" THEN me.profile.minimum[k] ELSE NoLimit
  BY DEF k
<1>7. /\ DOMAIN regions' = DOMAIN regions
      /\ \A j \in DOMAIN regions : regions'[j].limit = IF j = k THEN v ELSE regions[j].limit
      /\ UNCHANGED <<UmbArenaHead, UmbLinked, umbReady, AllocMethod, UmbRegionFilter>>
  BY <1>1, <1>4, <1>5, <1>6, LimitSet
<1>8. IInv' /\ Quiet'
  <2>1. IInv'
    BY <1>4, <1>5, <1>6, SetRegionLimitKeepsInvariant
  <2>2. regions' # <<>>
    BY <1>4, <1>7
  <2>3. umbReady
    BY <1>1, <1>4 DEF Quiet
  <2> QED BY <1>7, <2>1, <2>3 DEF Quiet
<1>9. /\ Others(depth) /\ me'.pc = me.pc /\ me'.pending = me.pending
      /\ me'.profile = me.profile /\ me'.saved = me.saved
      /\ me'.todo = me.todo \ {k} /\ me'.before = me.before
  BY <1>6, DidRegion DEF me
<1>10. ShellInv(me)'
  BY <1>1, <1>2, <1>7, <1>9 DEF ShellInv
<1>11. PlaceInv'
  <2>1. CASE me.pc = "limit"
    <3>1. LimitsSet(me)
      BY <2>1 DEF PlaceInv
    <3>2. LimitsSet(me)'
      BY <1>2, <1>6, <1>7, <1>9, <2>1, <3>1 DEF LimitsSet
    <3> QED BY <1>7, <1>9, <2>1, <3>2 DEF PlaceInv
  <2>2. CASE me.pc = "unlimit"
    BY <1>9, <2>2 DEF PlaceInv
  <2> QED BY <2>1, <2>2
<1>12. \A i \in DOMAIN regions :
          regions'[i].limit \in {regions[i].limit, NoLimit} \/ i \in Claims(me)'
  BY <1>2, <1>4, <1>6, <1>7, <1>9 DEF Claims
<1>13. \A i \in Claims(me) : i \in Claims(me)' \/ regions'[i].limit = NoLimit
  BY <1>2, <1>6, <1>7, <1>9 DEF Claims
<1> QED BY <1>7, <1>8, <1>9, <1>10, <1>11, <1>12, <1>13, OwnStep

LEMMA LimitRegionInv ==
    ASSUME HighInv, LimitRegion \/ UnlimitRegion
    PROVE  HighInv'
<1> USE DEF HighInv, ShellsInv
<1>1. CASE me.todo # {}
  BY <1>1, LimitStep DEF LimitRegion, UnlimitRegion
<1>2. CASE me.todo = {} /\ LimitRegion
  <2>1. me.pc = "limit" /\ Goto("link") /\ UNCHANGED <<vars, depth>>
        /\ UNCHANGED <<regions, umbReady, UmbRegionFilter>>
    BY <1>2 DEF LimitRegion, vars, umbVars, profileVars
  <2>2. /\ Others(depth) /\ me'.pc = "link" /\ me'.pending = me.pending
        /\ me'.profile = me.profile /\ me'.saved = me.saved
        /\ me'.todo = me.todo /\ me'.before = me.before
    BY <2>1, Went DEF me, Places
  <2>3. ShellInv(me)'
    BY <2>1, <2>2, Me DEF ShellInv, Changed, Places
  <2>4. PlaceInv'
    BY <1>2, <2>1, <2>2 DEF PlaceInv, LimitsSet
  <2>5. \A i \in Claims(me) : i \in Claims(me)'
    BY <2>1, <2>2 DEF Claims
  <2> QED BY <2>1, <2>2, <2>3, <2>4, <2>5, BookStep
<1>3. CASE me.todo = {} /\ UnlimitRegion
  <2>1. me.pc = "unlimit" /\ Goto("unfilter") /\ UNCHANGED <<vars, depth>>
        /\ UNCHANGED <<regions, umbReady, UmbRegionFilter>>
    BY <1>3 DEF UnlimitRegion, vars, umbVars, profileVars
  <2>2. /\ Others(depth) /\ me'.pc = "unfilter" /\ me'.pending = me.pending
        /\ me'.profile = me.profile /\ me'.saved = me.saved
        /\ me'.todo = me.todo /\ me'.before = me.before
    BY <2>1, Went DEF me, Places
  <2>3. ShellInv(me)'
    BY <2>1, <2>2, Me DEF ShellInv, Changed, Places
  <2>4. PlaceInv'
    BY <2>2 DEF PlaceInv
  <2>5. Claims(me) = {}
    BY <1>3, <2>1 DEF Claims
  <2> QED BY <2>1, <2>2, <2>3, <2>4, <2>5, BookStep
<1> QED BY <1>1, <1>2, <1>3

(* The calls that change one part of the policy and go on. *)
LEMMA PolicyStep ==
    ASSUME HighInv, me.pc \in {"link", "strategy", "unfilter", "unstrategy", "unlink"},
           NEW p \in Places, Goto(p), depth' = depth, IInv', PlaceInv',
           UNCHANGED <<regions, umbReady>>,
           p \in Changed \/ p = "prompt",
           me.pc = "link" => p = "strategy", me.pc = "strategy" => p = "exec"
    PROVE  HighInv'
<1> USE DEF HighInv, ShellsInv
<1>1. /\ Others(depth) /\ me'.pc = p /\ me'.pending = me.pending
      /\ me'.profile = me.profile /\ me'.saved = me.saved
      /\ me'.todo = me.todo /\ me'.before = me.before
  BY Went DEF me
<1>2. ShellInv(me) /\ Quiet /\ me.pending
  BY Me DEF ShellInv, Changed, Places
<1>3. Quiet'
  BY <1>2 DEF Quiet
<1>4. ShellInv(me)'
  BY <1>1, <1>2 DEF ShellInv
<1>5. \A i \in Claims(me) : i \in Claims(me)'
  BY <1>1 DEF Claims
<1> QED BY <1>1, <1>3, <1>4, <1>5, OwnStep

LEMMA PolicyStepsInv ==
    ASSUME HighInv, Link \/ Strategy \/ UnselectRegions \/ Unstrategy \/ Unlink
    PROVE  HighInv'
<1> USE DEF HighInv, ShellsInv
<1>t. /\ ShellInv(me) /\ me \in ShellState /\ me.saved \in State /\ me.profile \in Profile
      /\ AllocMethod \in AllMethods /\ UmbRegionFilter \in SUBSET AllRegions
  BY Me DEF ShellState
<1>u. /\ me.saved.strategy \in AllMethods /\ me.saved.link \in BOOLEAN
      /\ me.saved.filter \in SUBSET AllRegions
  BY <1>t DEF State
<1>m. ASSUME NEW p \in Places, Goto(p), depth' = depth
      PROVE  me'.pc = p /\ me'.profile = me.profile /\ me'.saved = me.saved
             /\ me'.todo = me.todo
  BY <1>m, Went DEF me
<1>1. CASE Link
  <2>1. me.pc = "link" /\ PutLink(TRUE) /\ Goto("strategy") /\ depth' = depth
    BY <1>1 DEF Link
  <2>2. /\ IInv' /\ UNCHANGED <<UmbArenaHead, regions, umbReady, UmbRegionFilter>>
        /\ umbReady => UmbLinked'
    BY <2>1, LinkPut
  <2>3. UmbArenaHead # 0 => umbReady
    BY <2>1, Me DEF Quiet, IInv, Barriers
  <2>4. PlaceInv'
    BY <1>m, <2>1, <2>2, <2>3 DEF PlaceInv, LimitsSet, Places
  <2> QED BY <2>1, <2>2, <2>4, PolicyStep DEF Places, Changed
<1>2. CASE Strategy
  <2>1. /\ me.pc = "strategy" /\ Quiet /\ AllocMethod' = UpperFirst /\ Goto("exec") /\ depth' = depth
        /\ UNCHANGED <<mcb, umbVars, UmbRegionFilter, CurrentPDB>>
        /\ UNCHANGED <<UmbArenaHead, UmbLinked, regions, umbReady>>
    BY <1>2 DEF Strategy, SetMethod, umbVars
  <2>2. IInv'
    <3>1. UpperFirst \in AllMethods
      BY DEF UpperFirst, AllMethods, Fits, Domains
    <3> QED BY <1>t, <2>1, <3>1, PolicyCallGood DEF AllRegions
  <2>3. PlaceInv'
    BY <1>m, <2>1 DEF PlaceInv, LimitsSet, Places
  <2> QED BY <2>1, <2>2, <2>3, PolicyStep DEF Places, Changed
<1>3. CASE UnselectRegions
  <2>1. /\ me.pc = "unfilter" /\ Quiet /\ UmbRegionFilter' = me.saved.filter
        /\ Goto("unstrategy") /\ depth' = depth
        /\ UNCHANGED <<mcb, umbVars, AllocMethod, CurrentPDB>>
        /\ UNCHANGED <<regions, umbReady>>
    BY <1>3 DEF UnselectRegions, SetRegionFilter, umbVars
  <2>2. IInv'
    BY <1>t, <1>u, <2>1, PolicyCallGood DEF AllRegions
  <2>3. PlaceInv'
    BY <1>m, <2>1 DEF PlaceInv, Places
  <2> QED BY <2>1, <2>2, <2>3, PolicyStep DEF Places, Changed
<1>4. CASE Unstrategy
  <2>1. /\ me.pc = "unstrategy" /\ Quiet /\ AllocMethod' = me.saved.strategy
        /\ Goto("unlink") /\ depth' = depth
        /\ UNCHANGED <<mcb, umbVars, UmbRegionFilter, CurrentPDB>>
        /\ UNCHANGED <<regions, umbReady>>
    BY <1>4 DEF Unstrategy, SetMethod, umbVars
  <2>2. IInv'
    BY <1>t, <1>u, <2>1, PolicyCallGood DEF AllRegions
  <2>3. PlaceInv'
    BY <1>m, <2>1 DEF PlaceInv, Places
  <2> QED BY <2>1, <2>2, <2>3, PolicyStep DEF Places, Changed
<1>5. CASE Unlink
  <2>1. me.pc = "unlink" /\ PutLink(me.saved.link) /\ Goto("prompt") /\ depth' = depth
    BY <1>5 DEF Unlink
  <2>2. IInv' /\ UNCHANGED <<regions, umbReady>>
    BY <1>u, <2>1, LinkPut
  <2>3. PlaceInv'
    BY <1>m, <2>1 DEF PlaceInv, Places
  <2> QED BY <2>1, <2>2, <2>3, PolicyStep DEF Places, Changed
<1> QED BY <1>1, <1>2, <1>3, <1>4, <1>5

(* Whatever a program does, the books of the interpreters stand. *)
LEMMA ProgramInv ==
    ASSUME HighInv, Program
    PROVE  HighInv'
<1> USE DEF HighInv, ShellsInv
<1>1. me.pc = "running" /\ UNCHANGED <<depth, shell>> /\ me' = me
  BY DEF Program, highVars, me
<1>2. IInv' /\ UNCHANGED <<UmbArenaHead, umbReady, regions, UmbRegionFilter>>
  BY ProgramKept
<1>3. HighType' /\ CapsInv'
  BY <1>1, <1>2 DEF HighType, CapsInv
<1>4. StackInv'
  BY <1>1, <1>2 DEF StackInv, ShellInv, Quiet
<1>5. PlaceInv'
  BY <1>1 DEF PlaceInv
<1> QED BY <1>2, <1>3, <1>4, <1>5

LEMMA ShellBeginsInv ==
    ASSUME HighInv, ProgramIsShell
    PROVE  HighInv'
<1> USE DEF HighInv, ShellsInv
<1>1. /\ me.pc = "running" /\ depth < MaxShells /\ depth' = depth + 1
      /\ shell' = [shell EXCEPT ![depth + 1] = AtPrompt] /\ UNCHANGED vars
  BY DEF ProgramIsShell
<1>2. depth \in Nat /\ me = shell[depth] /\ Quiet /\ MaxShells \in Nat /\ depth >= 1
  BY <1>1, Me, LoadHighAssumption DEF Shells
<1>3. depth + 1 \in Shells /\ 1 .. depth \subseteq Shells
  BY <1>1, <1>2 DEF Shells
<1>4. Others(depth + 1) /\ shell'[depth + 1] = AtPrompt
  BY <1>1, <1>3, AtPromptType, Entered
<1>5. /\ IInv' /\ UNCHANGED <<regions, umbReady>> /\ Quiet'
  <2>1. IInv' /\ UNCHANGED <<regions, umbReady>>
    BY <1>1, NextKeepsInvariant DEF vars, umbVars
  <2> QED BY <1>2, <2>1 DEF Quiet
<1>6. \A d \in 1 .. depth : d # depth + 1 /\ shell'[d] = shell[d]
  BY <1>2, <1>3, <1>4 DEF Others
<1>7. AtPrompt.pc = "prompt" /\ AtPrompt.pending = FALSE /\ AtPrompt.todo = {}
  BY AtPromptType
<1>8. me' = AtPrompt
  BY <1>1, <1>4 DEF me
<1>9. StackInv'
  <2>1. \A d \in 1 .. depth + 1 : d \in 1 .. depth \/ d = depth + 1
    BY <1>2
  <2>2. \A d \in 1 .. depth + 1 : ShellInv(shell[d])'
    BY <1>4, <1>5, <1>6, <1>7, <2>1 DEF StackInv, ShellInv, Changed
  <2>3. \A d \in 1 .. depth : shell'[d].pc = "running"
    <3>1. \A d \in 1 .. depth : d \in 1 .. depth - 1 \/ d = depth
      BY <1>2
    <3> QED BY <1>1, <1>2, <1>6, <3>1 DEF StackInv
  <2>4. depth' - 1 = depth
    BY <1>1, <1>2
  <2> QED BY <1>1, <1>5, <2>2, <2>3, <2>4 DEF StackInv
<1>10. CapsInv'
  <2> SUFFICES ASSUME NEW i \in DOMAIN regions, regions[i].limit # NoLimit
               PROVE  \E d \in 1 .. depth + 1 : i \in Claims(shell'[d])
    BY <1>1, <1>5 DEF CapsInv
  <2>1. PICK d \in 1 .. depth : i \in Claims(shell[d])
    BY DEF CapsInv
  <2>2. d \in 1 .. depth + 1 /\ shell'[d] = shell[d]
    BY <1>2, <1>6
  <2> QED BY <2>1, <2>2
<1>11. PlaceInv' /\ HighType'
  BY <1>1, <1>3, <1>4, <1>7, <1>8 DEF PlaceInv, HighType, Others
<1> QED BY <1>5, <1>9, <1>10, <1>11

(* Control comes back to an interpreter whose program has ended. *)
LEMMA BackInv ==
    ASSUME HighInv, NEW d \in 1 .. depth, Back(d), UNCHANGED vars, Quiet,
           shell[d].pc = "running", \A e \in 1 .. depth : e > d => Claims(shell[e]) = {}
    PROVE  HighInv'
<1> USE DEF HighInv, ShellsInv
<1> DEFINE p == IF shell[d].pending THEN "unlimit" ELSE "prompt"
           t == Capped(shell[d].profile)
<1>1. depth' = d /\ shell' = [shell EXCEPT ![d].pc = p, ![d].todo = t]
  BY DEF Back
<1>2. depth \in Nat /\ d \in Nat /\ 1 .. depth \subseteq Shells /\ d \in Shells
      /\ 1 .. d \subseteq 1 .. depth
  BY Me, LoadHighAssumption DEF Shells
<1>3. shell[d] \in ShellState /\ ShellInv(shell[d])
  BY <1>2 DEF HighType, StackInv
<1>4. t \in SUBSET AllRegions /\ t \subseteq DOMAIN regions
  BY <1>3, ProfileType DEF ShellState, ShellInv
<1>5. p \in Places
  BY DEF Places
<1>6. /\ Others(d) /\ shell'[d].pc = p /\ shell'[d].pending = shell[d].pending
      /\ shell'[d].profile = shell[d].profile /\ shell'[d].saved = shell[d].saved
      /\ shell'[d].todo = t /\ shell'[d].before = shell[d].before
  <2> HIDE DEF p, t
  <2> QED BY <1>1, <1>2, <1>4, <1>5, WentWith
<1>7. /\ IInv' /\ UNCHANGED <<regions, umbReady>> /\ Quiet'
  <2>1. IInv' /\ UNCHANGED <<regions, umbReady>>
    BY NextKeepsInvariant DEF vars, umbVars
  <2> QED BY <2>1 DEF Quiet
<1>8. me' = shell'[d]
  BY <1>1 DEF me
<1>9. \A e \in 1 .. d : e # d => shell'[e] = shell[e]
  BY <1>2, <1>6 DEF Others
<1>10. StackInv'
  <2>1. ShellInv(shell[d])'
    BY <1>3, <1>4, <1>6, <1>7 DEF ShellInv, Changed, Places
  <2>2. \A e \in 1 .. d : ShellInv(shell[e])'
    <3> SUFFICES ASSUME NEW e \in 1 .. d, e # d PROVE ShellInv(shell[e])'
      BY <2>1
    <3>1. ShellInv(shell[e]) /\ shell'[e] = shell[e]
      BY <1>2, <1>9 DEF StackInv
    <3> QED BY <1>7, <3>1 DEF ShellInv
  <2>3. \A e \in 1 .. d - 1 : shell'[e].pc = "running"
    <3> SUFFICES ASSUME NEW e \in 1 .. d - 1 PROVE shell'[e].pc = "running"
      OBVIOUS
    <3>1. e \in 1 .. depth - 1 /\ e \in 1 .. d /\ e # d
      BY <1>2
    <3> QED BY <1>9, <3>1 DEF StackInv
  <2> QED BY <1>1, <1>7, <2>2, <2>3 DEF StackInv
<1>11. CapsInv'
  <2> SUFFICES ASSUME NEW i \in DOMAIN regions, regions[i].limit # NoLimit
               PROVE  \E e \in 1 .. d : i \in Claims(shell'[e])
    BY <1>1, <1>7 DEF CapsInv
  <2>1. PICK e \in 1 .. depth : i \in Claims(shell[e])
    BY DEF CapsInv
  <2>2. e \in 1 .. d
    BY <1>2, <2>1
  <2>3. CASE e # d
    BY <1>9, <2>1, <2>2, <2>3
  <2>4. CASE e = d
    <3>1. i \in Claims(shell'[d])
      BY <1>3, <1>6, <2>1, <2>4 DEF Claims
    <3> QED BY <2>2, <2>4, <3>1
  <2> QED BY <2>3, <2>4
<1>12. PlaceInv'
  BY <1>6, <1>8 DEF PlaceInv
<1>13. HighType'
  BY <1>1, <1>2, <1>6 DEF HighType, Others
<1> QED BY <1>7, <1>10, <1>11, <1>12, <1>13

LEMMA EndsInv ==
    ASSUME HighInv, ProgramEnds \/ ShellExits
    PROVE  HighInv'
<1> USE DEF HighInv, ShellsInv
<1>1. me = shell[depth] /\ depth \in Nat /\ depth \in 1 .. depth
  BY Me
<1>2. CASE ProgramEnds
  <2>1. me.pc = "running" /\ Back(depth) /\ UNCHANGED vars /\ Quiet
    BY <1>2, Me DEF ProgramEnds
  <2>2. \A e \in 1 .. depth : ~ (e > depth)
    BY <1>1
  <2> QED BY <1>1, <2>1, <2>2, BackInv
<1>3. CASE ShellExits
  <2>1. me.pc = "prompt" /\ depth > 1 /\ Back(depth - 1) /\ UNCHANGED vars
    BY <1>3 DEF ShellExits
  <2>2. Quiet /\ depth - 1 \in 1 .. depth /\ shell[depth - 1].pc = "running"
    BY <1>1, <2>1 DEF StackInv
  <2>3. \A e \in 1 .. depth : e > depth - 1 => Claims(shell[e]) = {}
    <3>1. \A e \in 1 .. depth : e > depth - 1 => e = depth
      BY <1>1
    <3> QED BY <1>1, <2>1, <3>1 DEF Claims
  <2> QED BY <2>1, <2>2, <2>3, BackInv
<1> QED BY <1>2, <1>3

LEMMA HighInitInv == HighInit => HighInv
<1> SUFFICES ASSUME HighInit PROVE HighInv
  OBVIOUS
<1>1. IInv /\ depth = 1 /\ shell = [d \in Shells |-> AtPrompt] /\ regions = <<>>
  BY InitSound DEF HighInit, Init
<1>2. 1 \in Shells
  BY LoadHighAssumption DEF Shells
<1>3. HighType /\ me = AtPrompt /\ shell[1] = AtPrompt
  BY <1>1, <1>2, AtPromptType DEF HighType, me
<1>4. AtPrompt.pc = "prompt" /\ AtPrompt.pending = FALSE /\ AtPrompt.todo = {}
  BY <1>1, AtPromptType
<1>5. StackInv /\ PlaceInv
  BY <1>1, <1>3, <1>4 DEF StackInv, ShellInv, PlaceInv, Quiet, Changed
<1>6. CapsInv
  <2>1. DOMAIN regions = {}
    BY <1>1
  <2> QED BY <2>1 DEF CapsInv
<1> QED BY <1>1, <1>3, <1>5, <1>6 DEF HighInv, ShellsInv

LEMMA StutterInv ==
    ASSUME HighInv, UNCHANGED <<vars, highVars>>
    PROVE  HighInv'
<1> USE DEF HighInv, ShellsInv
<1>1. /\ UNCHANGED <<regions, umbReady, UmbArenaHead, UmbLinked, AllocMethod, UmbRegionFilter>>
      /\ UNCHANGED <<depth, shell>> /\ me' = me
  BY DEF vars, umbVars, profileVars, highVars, me
<1>2. IInv'
  BY NextKeepsInvariant
<1>3. HighType' /\ CapsInv'
  BY <1>1 DEF HighType, CapsInv
<1>4. StackInv' /\ PlaceInv'
  BY <1>1 DEF StackInv, PlaceInv, ShellInv, LimitsSet, AllocState, Quiet
<1> QED BY <1>2, <1>3, <1>4

(* The inductive invariant. *)
THEOREM PolicyBooksHold == HighSpec => []HighInv
<1>1. ASSUME HighInv, HighNext PROVE HighInv'
  BY <1>1, BootInv, CommandInv, SaveInv, ExecInv, SelectInv, LimitRegionInv, PolicyStepsInv,
     ProgramInv, ShellBeginsInv, EndsInv DEF HighNext
<1>2. HighInv /\ [HighNext]_<<vars, highVars>> => HighInv'
  BY <1>1, StutterInv
<1> QED BY <1>2, HighInitInv, PTL DEF HighSpec

-----------------------------------------------------------------------------
(* What the interpreter answers for *)

(* The last call of the restore is the only way back to the prompt of a    *)
(* command that has saved the state.                                       *)
LEMMA LastCall ==
    ASSUME HighInv, HighNext, me.pending, depth' = depth, shell'[depth].pc = "prompt"
    PROVE  Unlink
<1>t. /\ me = shell[depth] /\ me' = shell'[depth] /\ me \in ShellState /\ HighType
      /\ depth \in Shells /\ Capped(me.profile) \in SUBSET AllRegions /\ ShellInv(me) /\ IInv
      /\ depth \in Nat
  BY Me DEF HighInv, ShellsInv, me
<1>g. \A p \in Places : Goto(p) => p = "prompt"
  BY <1>t, Went
<1>1. ASSUME Boot PROVE FALSE
  <2>1. me = AtPrompt
    BY <1>1 DEF Boot
  <2>2. AtPrompt.pending = FALSE
    BY <1>t, AtPromptType
  <2> QED BY <1>t, <2>1, <2>2
<1>2. ASSUME Ordinary PROVE FALSE
  <2> DEFINE s == [AtPrompt EXCEPT !.pc = "running"]
  <2>1. s \in ShellState /\ s.pc = "running"
    BY <1>t, AtPromptType DEF ShellState, Places
  <2>2. shell' = [shell EXCEPT ![depth] = s]
    BY <1>2 DEF Ordinary
  <2> HIDE DEF s
  <2> QED BY <1>t, <2>1, <2>2, Entered
<1>3. ASSUME NEW profile \in Profiles \cup {NoProfile}, LoadHigh(profile) PROVE FALSE
  <2> DEFINE s == [AtPrompt EXCEPT !.pc = "save", !.profile = profile]
  <2>1. s \in ShellState /\ s.pc = "save"
    BY <1>t, AtPromptType, LoadHighAssumption, NoProfileType DEF ShellState, Places
  <2>2. shell' = [shell EXCEPT ![depth] = s]
    BY <1>3 DEF LoadHigh
  <2> HIDE DEF s
  <2> QED BY <1>t, <2>1, <2>2, Entered
<1>4. ASSUME Save PROVE FALSE
  <2> DEFINE s == [me EXCEPT !.pc = "filter", !.pending = TRUE, !.saved = AllocState]
  <2>1. s \in ShellState /\ s.pc = "filter"
    BY <1>t, StateType DEF ShellState, Places
  <2>2. shell' = [shell EXCEPT ![depth] = s]
    BY <1>4 DEF Save, me
  <2> HIDE DEF s
  <2> QED BY <1>t, <2>1, <2>2, Entered
<1>5. ASSUME SelectRegions \/ ExecFails PROVE FALSE
  <2>1. \E p \in Places : p # "prompt" /\
           shell' = [shell EXCEPT ![depth].pc = p, ![depth].todo = Capped(me.profile)]
    BY <1>5 DEF SelectRegions, ExecFails, Places
  <2> QED BY <1>t, <2>1, MeWent
<1>6. ASSUME LimitRegion \/ UnlimitRegion PROVE FALSE
  <2>1. CASE me.todo = {}
    BY <1>6, <1>g, <2>1 DEF LimitRegion, UnlimitRegion, Places
  <2>2. CASE me.todo # {}
    <3>1. me.pc # "prompt" /\ shell' = [shell EXCEPT ![depth].todo = @ \ {FirstFit(me.todo)}]
      BY <1>6, <2>2 DEF LimitRegion, UnlimitRegion
    <3> QED BY <1>t, <3>1, DidRegion
  <2> QED BY <2>1, <2>2
<1>7. ASSUME Link \/ Strategy \/ ExecStarts \/ UnselectRegions \/ Unstrategy PROVE FALSE
  BY <1>7, <1>g DEF Link, Strategy, ExecStarts, UnselectRegions, Unstrategy, Places
<1>8. ASSUME Program PROVE FALSE
  BY <1>8, <1>t DEF Program, highVars
<1>9. ASSUME ProgramIsShell \/ ShellExits PROVE FALSE
  BY <1>9, <1>t DEF ProgramIsShell, ShellExits, Back
<1>10. ASSUME ProgramEnds PROVE FALSE
  <2>1. shell' = [shell EXCEPT ![depth].pc = "unlimit", ![depth].todo = Capped(me.profile)]
    BY <1>10, <1>t DEF ProgramEnds, Back
  <2>2. shell'[depth].pc = "unlimit"
    BY <1>t, <2>1, MeWent DEF Places
  <2> QED BY <2>2
<1> QED BY <1>1, <1>2, <1>3, <1>4, <1>5, <1>6, <1>7, <1>8, <1>9, <1>10 DEF HighNext

LEMMA LastCallRestores ==
    ASSUME HighInv, Unlink, me.pending
    PROVE  AllocState' = me.before
<1> USE DEF HighInv, ShellsInv
<1>1. me \in ShellState /\ ShellInv(me)
  BY Me
<1>2. me.saved \in State /\ me.saved = me.before /\ (me.saved.link => umbReady)
  BY <1>1 DEF ShellState, ShellInv
<1>3. me.saved.link \in BOOLEAN
  BY <1>2 DEF State
<1>4. me.pc = "unlink" /\ PutLink(me.saved.link)
  BY DEF Unlink
<1>5. UmbLinked' = me.saved.link /\ UNCHANGED <<UmbRegionFilter, AllocMethod>>
  BY <1>2, <1>3, <1>4, LinkPut
<1>6. AllocMethod' = me.saved.strategy /\ UmbRegionFilter' = me.saved.filter
  BY <1>4, <1>5 DEF PlaceInv
<1>7. AllocState' = me.saved
  BY <1>2, <1>5, <1>6, StateIs
<1> QED BY <1>2, <1>7

(* TMISC1.ASM and EXT_EXEC of COMMAND1.ASM: whatever the program did to    *)
(* the strategy and the link state, and whether it ran at all, the command *)
(* ends with the allocation state it began with, in the root interpreter   *)
(* and in every one started from it.                                       *)
THEOREM PolicyRestored == HighSpec => PolicyOnlyWhileChildRuns
<1>1. ASSUME HighInv, [HighNext]_<<vars, highVars>>
      PROVE  [me.pending /\ depth' = depth /\ shell'[depth].pc = "prompt" =>
                AllocState' = me.before]_<<vars, highVars>>
  BY <1>1, LastCall, LastCallRestores
<1> QED BY <1>1, PolicyBooksHold, PTL DEF HighSpec, PolicyOnlyWhileChildRuns

(* EXT_EXEC removes every cap that /S set, by a nested interpreter as well: *)
(* at the root's prompt each region has its full size.                      *)
THEOREM CapsRemoved == HighSpec => []NoCapsAtPrompt
<1>1. ASSUME HighInv PROVE NoCapsAtPrompt
  <2> SUFFICES ASSUME depth = 1, me.pc = "prompt", NEW i \in DOMAIN regions,
                      regions[i].limit # NoLimit
               PROVE  FALSE
    BY DEF NoCapsAtPrompt
  <2>1. PICK d \in 1 .. depth : i \in Claims(shell[d])
    BY <1>1 DEF HighInv, ShellsInv, CapsInv
  <2>2. d = depth
    BY <2>1
  <2> QED BY <2>1, <2>2 DEF Claims, me
<1> QED BY <1>1, PolicyBooksHold, PTL

(* EXT_EXEC calls EXEC with the whole profile in force: the listed regions *)
(* selected and capped, the upper arena linked, upper memory first, and,   *)
(* for a command of the root, no other region capped.                      *)
THEOREM ProfileInForce == HighSpec => []ProfileCompleteAtExec
<1>1. ASSUME HighInv PROVE ProfileCompleteAtExec
  <2> SUFFICES ASSUME me.pc = "exec" PROVE ProfileCompleteAtExec
    BY DEF ProfileCompleteAtExec
  <2>1. PlaceInv /\ CapsInv
    BY <1>1 DEF HighInv, ShellsInv
  <2>2. /\ UmbRegionFilter = me.profile.mask /\ AllocMethod = UpperFirst
        /\ UmbArenaHead # 0 => UmbLinked
        /\ LimitsSet(me) /\ me.todo = {}
    BY <2>1 DEF PlaceInv
  <2>3. ASSUME NEW i \in DOMAIN regions, i \in Capped(me.profile)
        PROVE  regions[i].limit = me.profile.minimum[i]
    BY <2>2, <2>3 DEF LimitsSet
  <2>4. ASSUME depth = 1, NEW i \in DOMAIN regions \ Capped(me.profile)
        PROVE  regions[i].limit = NoLimit
    <3> SUFFICES ASSUME regions[i].limit # NoLimit PROVE FALSE
      OBVIOUS
    <3>1. PICK d \in 1 .. depth : i \in Claims(shell[d])
      BY <2>1 DEF CapsInv
    <3>2. d = depth
      BY <2>4, <3>1
    <3> QED BY <2>4, <3>1, <3>2 DEF Claims, me
  <2> QED BY <2>2, <2>3, <2>4 DEF ProfileCompleteAtExec
<1> QED BY <1>1, PolicyBooksHold, PTL

=============================================================================
