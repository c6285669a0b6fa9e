----------------------------- MODULE DeviceHigh -----------------------------
(***************************************************************************)
(* DEVICE= and DEVICEHIGH= of BIOS/SYSCONF.ASM with SET_BREAK and ROUND of *)
(* SYSINIT2.ASM, composed with the arena.  SYSINIT owns all conventional   *)
(* memory as one block and hands it out upwards from MEMHI; a DEVICEHIGH   *)
(* line moves MEMHI into an upper block for its duration and, unless it    *)
(* commits that block, loads the driver low after all.                     *)
(*                                                                         *)
(* A driver file holds one device or more; DOS chains their headers and    *)
(* the DPBs of block devices, so their memory must stay.  Sizes are in     *)
(* paragraphs, break addresses are rounded as ROUND does, a DPB takes one  *)
(* paragraph, as does the DEVMARK in front of a driver.                    *)
(***************************************************************************)
EXTENDS Arena

CONSTANTS
    AllocLim,    \* ALLOCLIM: SYSINIT itself begins here
    MaxDrives,   \* 26
    Lines,       \* the options of DEVICEHIGH lines
    Drivers      \* driver files, the unreadable one included

AllRegions == 1 .. MaxRegions
Area == ArenaHead + 1      \* AREA: the first paragraph of SYSINIT's block

Device == {d \in [units : 0 .. MaxDrives, block : BOOLEAN, badBpb : BOOLEAN] :
              d.block \/ d.units = 0}

(* found: OPEN and EXEC succeed; image: what they load; keep: the break    *)
(* address INIT returns, from the load address.                            *)
Driver == [found : BOOLEAN, image : Word, keep : Word, devices : Seq(Device)]

(* What the files are to hold for memory to be safe.  Either a driver can  *)
(* never be loaded high, being as large as any extent, or it keeps no more *)
(* than its image with the DPBs, and has no drive of too large a sector; a *)
(* file with such a drive keeps something; and the devices of a file with  *)
(* several are character devices.                                          *)
NeverHigh(d) == \A x \in Extents : x[2] <= d.image + 1

DriversFit ==
    \A d \in Drivers : d.found =>
        /\ Len(d.devices) > 1 =>
              d.keep > 0 /\ \A j \in DOMAIN d.devices : ~d.devices[j].block
        /\ \A j \in DOMAIN d.devices :
              /\ d.devices[j].badBpb => d.keep > 0
              /\ \/ NeverHigh(d)
                 \/ d.keep + d.devices[j].units <= d.image /\ ~d.devices[j].badBpb

Line == [explicit : BOOLEAN, mask : SUBSET AllRegions, shrink : BOOLEAN,
         minimum : [AllRegions -> Word], size : Word]
DeviceLine == [explicit |-> FALSE, mask |-> {}, shrink |-> FALSE,
               minimum |-> [i \in AllRegions |-> 0], size |-> 0]

ASSUME DeviceHighAssumption ==
    /\ AllocLim \in Word /\ Area <= AllocLim /\ AllocLim < LowTop
    /\ MaxDrives \in Nat
    /\ Lines \subseteq Line /\ Drivers \subseteq Driver
    /\ \A d \in Drivers : d.found => d.devices # <<>>

VARIABLES
    pc, next,    \* next: where the restoring of the state returns to
    line,        \* DeviceHighRegionMask, Minimums, Shrink, MinSize
    old,         \* DeviceHighOldStrategy, OldLink, OldRegionMask
    high,        \* DeviceHighActive, Block, BlockSize, LowMemHi
    todo,        \* the region loops
    MEMHI,
    driver,      \* the file being loaded, at paragraph load
    load,
    rest,        \* its devices not yet initialized (MultDeviceFlag)
    drives,      \* SYSI_NUMIO
    linked       \* the paragraphs of chained drivers and DPBs

devVars == <<pc, next, line, old, high, todo, MEMHI, driver, load, rest,
             drives, linked>>
lineVars == <<line, old, driver, load, rest, drives, linked>>
idleVars == <<next, old, high, todo, MEMHI, load, rest, drives, linked>>

AllocState == [strategy |-> AllocMethod, link |-> UmbLinked,
               filter |-> UmbRegionFilter]

NotHigh == [active |-> FALSE, block |-> 0, size |-> 0, low |-> 0]
NoDriver == [found |-> FALSE, image |-> 0, keep |-> 0, devices |-> <<>>]

DevInit ==
    /\ Init
    /\ pc = "boot" /\ next = "done"
    /\ line = DeviceLine /\ old = AllocState
    /\ high = NotHigh /\ todo = {}
    /\ MEMHI = Area
    /\ driver = NoDriver /\ load = 0 /\ rest = <<>>
    /\ drives = 0 /\ linked = {}

(* SYSINIT asks for the largest block and gets all there is. *)
TakeMemory ==
    /\ pc = "boot" /\ pc' = "line"
    /\ AllocOk(mcb[ArenaHead].size)
    /\ UNCHANGED <<next, lineVars, high, todo, MEMHI>>

-----------------------------------------------------------------------------
(* DeviceHighPrepare *)

DeviceHighLine(l, d) ==
    /\ pc = "line" /\ pc' = "acquire"
    /\ line' = l /\ driver' = d
    /\ UNCHANGED <<vars, idleVars>>

DevicePlainLine(d) ==
    /\ pc = "line" /\ pc' = "load"
    /\ line' = DeviceLine /\ driver' = d
    /\ UNCHANGED <<vars, idleVars>>

(* CONFLP: the flags of the line are forgotten. *)
NextLine ==
    /\ pc = "done" /\ pc' = "line"
    /\ next' = "done" /\ todo' = {}
    /\ line' = DeviceLine /\ old' = AllocState
    /\ driver' = NoDriver /\ load' = 0 /\ rest' = <<>>
    /\ UNCHANGED <<vars, high, MEMHI, drives, linked>>

(* AcquireUmbs: the registration, the first time it is possible.           *)
Acquire ==
    /\ pc = "acquire"
    /\ Registration
    /\ UNCHANGED devVars

(* 5800h, 5802h; the third one, 5808h, only matters with regions.          *)
SaveState ==
    /\ pc = "acquire" /\ Quiet
    /\ pc' = IF UmbArenaHead = 0 THEN "load" ELSE "link"
    /\ old' = AllocState
    /\ UNCHANGED <<vars, next, line, high, todo, MEMHI, driver, load, rest,
                   drives, linked>>

PutLink(on) == SetLink(on) \/ (on = UmbLinked /\ UNCHANGED vars)

Link ==
    /\ pc = "link" /\ pc' = "strategy"
    /\ PutLink(TRUE)
    /\ UNCHANGED <<next, lineVars, high, todo, MEMHI>>

UpperOnly == [fit |-> "first", domain |-> "upper"]

Strategy ==
    /\ pc = "strategy"
    /\ pc' = IF line.explicit THEN "filter" ELSE "alloc"
    /\ SetMethod(UpperOnly)
    /\ UNCHANGED <<next, lineVars, high, todo, MEMHI>>

SelectRegions ==
    /\ pc = "filter" /\ pc' = "profile"
    /\ SetRegionFilter(line.mask)
    /\ todo' = line.mask
    /\ UNCHANGED <<next, lineVars, high, MEMHI>>

(* The regions DeviceHighResetLimits visits. *)
Capped == IF line.explicit /\ line.shrink
          THEN {i \in line.mask : line.minimum[i] # 0} ELSE {}

(* Mutant: the limits of /S are not reset. *)
RestoreThenKeepsLimits(k) == pc' = "unfilter" /\ next' = k /\ todo' = {}

(* Everything that was changed is put back, and then pc goes to k.         *)
RestoreThen(k) == pc' = "unlimit" /\ next' = k /\ todo' = Capped

(* DeviceHighApplyProfile *)
ProfileDone ==
    /\ pc = "profile" /\ todo = {}
    /\ pc' = "alloc"
    /\ UNCHANGED <<vars, next, lineVars, high, todo, MEMHI>>

RegionRefused(i) == i \notin DOMAIN regions \/ LargestFree(i) < line.minimum[i]

ProfileRefused ==
    /\ pc = "profile" /\ todo # {}
    /\ RegionRefused(FirstFit(todo))
    /\ RestoreThen("load")
    /\ UNCHANGED <<vars, lineVars, high, MEMHI>>

ProfileRegion ==
    /\ pc = "profile" /\ todo # {}
    /\ LET i == FirstFit(todo)
       IN  /\ ~RegionRefused(i)
           /\ IF i \in Capped THEN SetRegionLimit(i, line.minimum[i])
                              ELSE UNCHANGED vars
           /\ todo' = todo \ {i}
    /\ UNCHANGED <<pc, next, lineVars, high, MEMHI>>

(* The request for 0FFFFh paragraphs fails and tells the largest size.     *)
Largest ==
    LET m == CoalesceAll(mcb, FirstScan)
    IN  LastFit({Room(m, regions, h) : h \in FirstScan \cap DOMAIN m} \cup {0})

AskLargest ==
    /\ pc = "alloc"
    /\ AllocFail(NoLimit)
    /\ IF Largest = 0 \/ Largest < line.size
       THEN RestoreThen("load") /\ UNCHANGED high
       ELSE /\ pc' = "retry"
            /\ high' = [high EXCEPT !.size = Largest]
            /\ UNCHANGED <<next, todo>>
    /\ UNCHANGED <<lineVars, MEMHI>>

(* Deadlock checking shows that this request never fails.                  *)
TakeLargest ==
    /\ pc = "retry"
    /\ AllocOk(high.size)
    /\ MEMHI' = (CHOOSE h \in Granted : TRUE) + 1
    /\ high' = [high EXCEPT !.active = TRUE, !.block = MEMHI', !.low = MEMHI]
    /\ RestoreThen("load")
    /\ UNCHANGED lineVars

-----------------------------------------------------------------------------
(* DeviceHighRestoreAllocatorState *)

Unlimit ==
    /\ pc = "unlimit"
    /\ IF todo = {}
       THEN pc' = "unfilter" /\ UNCHANGED <<vars, todo>>
       ELSE LET i == FirstFit(todo)
            IN  /\ IF i \in DOMAIN regions THEN SetRegionLimit(i, NoLimit)
                                           ELSE UNCHANGED vars
                /\ todo' = todo \ {i}
                /\ UNCHANGED pc
    /\ UNCHANGED <<next, lineVars, high, MEMHI>>

Unfilter ==
    /\ pc = "unfilter" /\ pc' = "unstrategy"
    /\ IF line.explicit THEN SetRegionFilter(old.filter) ELSE UNCHANGED vars
    /\ UNCHANGED <<next, lineVars, high, todo, MEMHI>>

Unstrategy ==
    /\ pc = "unstrategy" /\ pc' = "unlink"
    /\ SetMethod(old.strategy)
    /\ UNCHANGED <<next, lineVars, high, todo, MEMHI>>

Unlink ==
    /\ pc = "unlink" /\ pc' = next
    /\ PutLink(old.link)
    /\ UNCHANGED <<next, lineVars, high, todo, MEMHI>>

-----------------------------------------------------------------------------
(* Loading the file *)

(* Mutant: the high block is not given back. *)
FailKeepsBlock(k, memhi) ==
    IF high.active
    THEN /\ MEMHI' = high.low
         /\ high' = NotHigh
         /\ RestoreThen(k)
         /\ UNCHANGED vars
    ELSE /\ pc' = k
         /\ MEMHI' = memhi
         /\ UNCHANGED <<vars, high, next, todo>>

(* The line has failed: a high block is given back, and MEMHI is again     *)
(* what it was, less the DEVMARK.  k is where the line goes on.            *)
Fail(k, memhi) ==
    IF high.active
    THEN /\ Dealloc(high.block - 1)
         /\ MEMHI' = high.low
         /\ high' = NotHigh
         /\ RestoreThen(k)
    ELSE /\ pc' = k
         /\ MEMHI' = memhi
         /\ UNCHANGED <<vars, high, next, todo>>

NotLoaded ==
    /\ pc = "load" /\ ~driver.found
    /\ Fail("done", MEMHI)
    /\ UNCHANGED lineVars

LoadEnd == MEMHI + 1 + driver.image

(* Mutant: the retry prepares a high block again. *)
TooBigHighRetries ==
    /\ pc = "load" /\ driver.found /\ high.active
    /\ LoadEnd > high.block + high.size
    /\ Fail("acquire", MEMHI)
    /\ UNCHANGED lineVars

(* The image does not fit: the high attempt is rolled back and retried     *)
(* low; in conventional memory SYSINIT stops (MEM_ERR).                    *)
TooBigHigh ==
    /\ pc = "load" /\ driver.found /\ high.active
    /\ LoadEnd > high.block + high.size
    /\ Fail("load", MEMHI)
    /\ UNCHANGED lineVars

TooBigLow ==
    /\ pc = "load" /\ driver.found /\ ~high.active
    /\ LoadEnd >= AllocLim
    /\ pc' = "stalled"
    /\ UNCHANGED <<vars, next, lineVars, high, todo, MEMHI>>

(* Mutant: the DEVMARK is not counted. *)
LoadForgetsDevmark ==
    /\ pc = "load" /\ driver.found
    /\ IF high.active THEN LoadEnd - 1 <= high.block + high.size
                      ELSE LoadEnd < AllocLim
    /\ pc' = "init"
    /\ rest' = driver.devices
    /\ load' = MEMHI + 1 /\ MEMHI' = MEMHI + 1
    /\ UNCHANGED <<vars, next, line, old, high, todo, driver, drives, linked>>

Load ==
    /\ pc = "load" /\ driver.found
    /\ IF high.active THEN LoadEnd <= high.block + high.size
                      ELSE LoadEnd < AllocLim
    /\ pc' = "init"
    /\ rest' = driver.devices
    /\ load' = MEMHI + 1 /\ MEMHI' = MEMHI + 1
    /\ UNCHANGED <<vars, next, line, old, high, todo, driver, drives, linked>>

-----------------------------------------------------------------------------
(* INIT of the next device, which returned the break address.              *)

First == rest = driver.devices
BreakAddr == load + driver.keep

(* SET_BREAK takes a break address equal to the load address for a failed  *)
(* INIT, except after the first device of the file.                        *)
BreakFailed == First /\ driver.keep = 0
BreakDone == Len(driver.devices) - Len(rest) > IF driver.keep = 0 THEN 1 ELSE 0
AfterBreak == IF BreakFailed THEN MEMHI ELSE BreakAddr

(* A break address beyond memory, a block device without units or with too *)
(* many, a character device that gives up: the driver is not linked.  DPBs *)
(* make no difference yet.                                                 *)
Erased(d) ==
    \/ ~high.active /\ BreakAddr >= LowTop
    \/ d.block /\ (d.units = 0 \/ drives + d.units > MaxDrives)
    \/ ~d.block /\ BreakFailed

EraseDevice ==
    /\ pc = "init" /\ Erased(Head(rest))
    /\ Fail("done", IF BreakDone THEN MEMHI ELSE MEMHI - 1)
    /\ UNCHANGED lineVars

(* ROUND compares MEMHI with ALLOCLIM when it is a conventional one.       *)
BoundsOk(memhi) == high.active \/ memhi < AllocLim

Resident == {load} \cup load .. BreakAddr - 1

(* The units of a block device: their DPBs are chained one by one at MEMHI *)
(* and the last one with a sector size that is too large ends the line.    *)
Dpbs(d) == AfterBreak .. AfterBreak + d.units - 1

InitOk(d) == ~Erased(d) /\ BoundsOk(AfterBreak + d.units)

BadSector ==
    LET d == Head(rest)
    IN  /\ pc = "init" /\ d.block /\ d.badBpb /\ InitOk(d)
        /\ linked' = linked \cup Dpbs(d)
        /\ drives' = drives + d.units
        /\ Fail("done", AfterBreak + d.units - IF BreakFailed THEN 1 ELSE 0)
        /\ UNCHANGED <<line, old, driver, load, rest>>

LinkDevice ==
    LET d == Head(rest)
    IN  /\ pc = "init" /\ ~(d.block /\ d.badBpb) /\ InitOk(d)
        /\ linked' = linked \cup Resident \cup Dpbs(d)
        /\ drives' = drives + d.units
        /\ MEMHI' = AfterBreak + d.units
        /\ rest' = Tail(rest)
        /\ pc' = IF rest' # <<>> THEN "init"
                 ELSE IF high.active THEN "commit" ELSE "done"
        /\ UNCHANGED <<vars, next, line, old, high, todo, driver, load>>

InitStalls ==
    /\ pc = "init" /\ ~Erased(Head(rest))
    /\ ~BoundsOk(AfterBreak + Head(rest).units)
    /\ pc' = "stalled"
    /\ UNCHANGED <<vars, next, lineVars, high, todo, MEMHI>>

-----------------------------------------------------------------------------
(* DeviceHighCommit: the block is cut at MEMHI (an error is not noticed),  *)
(* then its header says that DOS owns it.                                  *)

CommitSize ==
    /\ pc = "commit" /\ pc' = "own"
    /\ SetBlock(high.block - 1, MEMHI - high.block)
    /\ UNCHANGED <<next, lineVars, high, todo, MEMHI>>

(* Mutant: the block stays SYSINIT's. *)
CommitOwnerForgotten ==
    /\ pc = "own"
    /\ MEMHI' = high.low
    /\ high' = NotHigh
    /\ RestoreThen("done")
    /\ UNCHANGED <<vars, lineVars>>

CommitOwner ==
    /\ pc = "own"
    /\ mcb' = Give(mcb, high.block - 1, OwnerDos)
    /\ MEMHI' = high.low
    /\ high' = NotHigh
    /\ RestoreThen("done")
    /\ UNCHANGED <<umbVars, profileVars, CurrentPDB, lineVars>>

-----------------------------------------------------------------------------

DevStep ==
    \/ TakeMemory \/ NextLine \/ Acquire \/ SaveState \/ Link \/ Strategy \/ SelectRegions
    \/ ProfileDone \/ ProfileRefused \/ ProfileRegion
    \/ AskLargest \/ TakeLargest
    \/ Unlimit \/ Unfilter \/ Unstrategy \/ Unlink
    \/ NotLoaded \/ TooBigHigh \/ TooBigLow \/ Load
    \/ EraseDevice \/ BadSector \/ LinkDevice \/ InitStalls
    \/ CommitSize \/ CommitOwner

DevNext ==
    \/ \E d \in Drivers :
          DevicePlainLine(d) \/ \E l \in Lines : DeviceHighLine(l, d)
    \/ DevStep

(* Fairness: SYSINIT, once it has begun a line, goes on with it, and       *)
(* AcquireUmbs returns (UmbBoot checks that).                              *)
DevSpec ==
    /\ DevInit /\ [][DevNext]_<<vars, devVars>>
    /\ WF_<<vars, devVars>>(DevStep) /\ SF_<<vars, devVars>>(SaveState)

-----------------------------------------------------------------------------

(* SYSCONF.ASM: DOS exposes the caller's ordinary strategy and public link *)
(* state to INIT.  What one DEVICEHIGH line changes in the arena's policy, *)
(* with whatever outcome, no driver and no later line gets to see.         *)
PolicyOnlyInTransaction ==
    pc \in {"done", "load", "init", "stalled"} =>
        /\ AllocState = [strategy |-> [fit |-> "first", domain |-> "low"],
                         link |-> FALSE, filter |-> AllRegions]
        /\ \A i \in DOMAIN regions : regions[i].limit = NoLimit

(* SYSCONF.ASM: boot-loaded drivers are permanent system allocations.  The *)
(* drivers and DPBs that DOS has chained lie below the load address of the *)
(* next low driver, in the high block of this line, or in blocks DOS owns. *)
LowEnd == IF high.active THEN high.low ELSE MEMHI

InHigh(p) == high.active /\ high.block <= p /\ p < high.block + high.size

LinkedMemoryOwned ==
    \A p \in linked :
        \/ Area <= p /\ p < LowEnd
        \/ InHigh(p) \/ pc = "own"
        \/ \E h \in UpperHeads :
              mcb[h].owner = OwnerDos /\ h < p /\ p < Following(mcb, h)

(* ROUND: MEMHI is checked against the end of the memory it stands for, so *)
(* that neither a driver nor its DPBs run into the next memory block.      *)
CursorInBounds ==
    IF high.active THEN MEMHI <= high.block + high.size
                   ELSE MEMHI <= AllocLim

(* The conventional part of it, which a line that works high leaves alone: *)
(* ROUND does compare here, whatever break address INIT returns.           *)
LowCursorInBounds == Area <= LowEnd /\ LowEnd <= AllocLim

(* Between lines no upper block is left over: each is free, a bridge or a  *)
(* guard, or it holds a chained driver.                                    *)
NoBlockLost ==
    pc = "done" =>
        \A h \in UpperHeads :
            \/ IsFree(mcb, h)
            \/ RegionOf(regions, h) = {} \/ \E i \in DOMAIN regions : h + 1 = regions[i].end
            \/ \E p \in linked : h < p /\ p < Following(mcb, h)

(* The retries end: a high attempt that fails is made low once, and each   *)
(* line is done with, unless conventional memory is exhausted.             *)
LineEnds == pc # "line" ~> pc \in {"line", "stalled"}

=============================================================================
