----------------------------- MODULE StackPool -----------------------------
(***************************************************************************)
(* The interrupt stacks of STACKS=n,s: StackCommon, LongPath and Fatal of  *)
(* BIOS/MSSTACK.INC over the table that StackInit of STKINIT.INC builds.   *)
(*                                                                         *)
(* A hooked interrupt takes an entry of the table, switches to its stack,  *)
(* calls the previous owner of the vector and gives the entry back.  One   *)
(* action per instruction that touches what interrupts share; an           *)
(* interrupt pushes a frame, and only the last frame executes.             *)
(*                                                                         *)
(* StackCommon is entered with interrupts off and the previous owner (the  *)
(* handler, external) may enable them, so an IRQ arrives in a program or   *)
(* in a handler.  An NMI arrives anywhere, but not between the entry of    *)
(* another NMI and the next IRET.                                          *)
(***************************************************************************)
EXTENDS Integers, Sequences

CONSTANTS
    StackCount,    \* entries in the table (8 to 64)
    MaxArrivals,   \* bound: interrupts in a behaviour
    MaxNmi         \* bound: NMIs among them

ASSUME StackPoolAssumption ==
    /\ StackCount \in Nat \ {0}
    /\ MaxArrivals \in Nat /\ MaxNmi \in 0 .. MaxArrivals

FirstEntry == 1
LastEntry  == StackCount
Entries    == FirstEntry .. LastEntry

Free      == "free"
Allocated == "allocated"
Clobbered == "clobbered"

VARIABLES
    AllocByte,   \* the allocation byte of each entry
    SavedSP,     \* SavedSS:SavedSP of each entry: the context it interrupted
    link,        \* the word on top of each stack still points to its entry
    NextEntry,   \* the entry to be tried first
    frames,      \* the interrupts in service, innermost last
    nmiLatch,    \* the processor holds back NMIs
    arrivals, nmis

entryVars == <<AllocByte, SavedSP, link>>
countVars == <<arrivals, nmis>>
vars == <<entryVars, NextEntry, frames, nmiLatch, countVars>>

(* A context, the place SS:SP points to, is named by its nesting depth.    *)
depth == Len(frames)
me == frames[depth]

Frame(pc, bp) == [pc |-> pc, bp |-> bp, al |-> Allocated, sp |-> 0]

Init ==
    /\ AllocByte = [e \in Entries |-> Free]
    /\ SavedSP = [e \in Entries |-> 0]
    /\ link = [e \in Entries |-> TRUE]
    /\ NextEntry = LastEntry
    /\ frames = <<>>
    /\ nmiLatch = FALSE
    /\ arrivals = 0 /\ nmis = 0

Become(pc, bp, al, sp) ==
    frames' = [frames EXCEPT ![depth] = [pc |-> pc, bp |-> bp, al |-> al, sp |-> sp]]
GoWith(pc, bp, al) == Become(pc, bp, al, me.sp)
Go(pc) == GoWith(pc, me.bp, me.al)

Halted == depth > 0 /\ me.pc \in {"fatal", "crashed"}

-----------------------------------------------------------------------------
(* Arrivals *)

Arrive ==
    /\ arrivals < MaxArrivals /\ arrivals' = arrivals + 1
    /\ frames' = Append(frames, Frame("first", 0))
    /\ UNCHANGED <<entryVars, NextEntry>>

Irq ==
    /\ depth > 0 => me.pc = "handler"
    /\ Arrive
    /\ UNCHANGED <<nmiLatch, nmis>>

Nmi ==
    /\ ~Halted /\ ~nmiLatch
    /\ nmis < MaxNmi /\ nmis' = nmis + 1
    /\ Arrive
    /\ nmiLatch' = TRUE

-----------------------------------------------------------------------------
(* StackCommon: the fast path *)

ReadNext ==
    /\ depth > 0 /\ me.pc = "first"
    /\ GoWith("exchange", NextEntry, me.al)
    /\ UNCHANGED <<entryVars, NextEntry, nmiLatch, countVars>>

(* Mutant: the answer is not compared with "allocated". *)
AnsweredUnchecked(al) == IF al = Clobbered THEN "putback" ELSE "step"

(* Where the answer al of the exchange at NextEntry leads. *)
Answered(al) ==
    CASE al = Free -> "step" [] al = Allocated -> "scan" [] OTHER -> "putback"

(* XCHG AllocByte,AL *)
Exchange ==
    /\ depth > 0 /\ me.pc = "exchange" /\ me.bp \in Entries
    /\ AllocByte' = [AllocByte EXCEPT ![me.bp] = Allocated]
    /\ GoWith(Answered(AllocByte[me.bp]), me.bp, AllocByte[me.bp])
    /\ UNCHANGED <<SavedSP, link, NextEntry, nmiLatch, countVars>>

(* Below the first entry there is no table: the byte is whatever memory    *)
(* holds there.                                                            *)
ExchangeOutside ==
    /\ depth > 0 /\ me.pc = "exchange" /\ me.bp \notin Entries
    /\ \E al \in {Free, Allocated, Clobbered} : GoWith(Answered(al), me.bp, al)
    /\ UNCHANGED <<entryVars, NextEntry, nmiLatch, countVars>>

(* SUB NextEntry,EntrySize *)
StepNext ==
    /\ depth > 0 /\ me.pc = "step"
    /\ NextEntry' = NextEntry - 1
    /\ Go("switch")
    /\ UNCHANGED <<entryVars, nmiLatch, countVars>>

(* StackNotFree: an entry in an error state gets that state back. *)
PutBack ==
    /\ depth > 0 /\ me.pc = "putback"
    /\ AllocByte' = IF me.bp \in Entries
                    THEN [AllocByte EXCEPT ![me.bp] = me.al] ELSE AllocByte
    /\ Go("scan")
    /\ UNCHANGED <<SavedSP, link, NextEntry, nmiLatch, countVars>>

-----------------------------------------------------------------------------
(* LongPath: the entries from the last to the first *)

Scan ==
    /\ depth > 0 /\ me.pc = "scan"
    /\ GoWith("test", LastEntry, me.al)
    /\ UNCHANGED <<entryVars, NextEntry, nmiLatch, countVars>>

(* inuse *)
TryBelow(al) ==
    IF me.bp = FirstEntry THEN GoWith("fatal", me.bp, al)
                          ELSE GoWith("test", me.bp - 1, al)

Test ==
    /\ depth > 0 /\ me.pc = "test"
    /\ IF AllocByte[me.bp] = Free THEN Go("claim") ELSE TryBelow(me.al)
    /\ UNCHANGED <<entryVars, NextEntry, nmiLatch, countVars>>

(* An interrupt since the test may have found the entry to be clobbered.   *)
Claim ==
    LET al == AllocByte[me.bp]
    IN  /\ depth > 0 /\ me.pc = "claim"
        /\ AllocByte' = [AllocByte EXCEPT ![me.bp] = Allocated]
        /\ CASE al = Free      -> GoWith("switch", me.bp, al)
             [] al = Allocated -> TryBelow(al)
             [] OTHER          -> GoWith("restore", me.bp, al)
        /\ UNCHANGED <<SavedSP, link, NextEntry, nmiLatch, countVars>>

Restore ==
    /\ depth > 0 /\ me.pc = "restore"
    /\ AllocByte' = [AllocByte EXCEPT ![me.bp] = me.al]
    /\ TryBelow(me.al)
    /\ UNCHANGED <<SavedSP, link, NextEntry, nmiLatch, countVars>>

-----------------------------------------------------------------------------
(* StackFound *)

(* The interrupted context is saved in the entry; if the stack's top still *)
(* points to its entry, the handler is called on it.                       *)
Switch ==
    /\ depth > 0 /\ me.pc = "switch" /\ me.bp \in Entries /\ link[me.bp]
    /\ SavedSP' = [SavedSP EXCEPT ![me.bp] = depth]
    /\ Go("handler")
    /\ UNCHANGED <<AllocByte, link, NextEntry, nmiLatch, countVars>>

(* Mutant: the bad entry is not marked. *)
SwitchBadUnmarked ==
    /\ depth > 0 /\ me.pc = "switch"
    /\ me.bp \in Entries => ~link[me.bp]
    /\ Go("scan")
    /\ UNCHANGED <<entryVars, NextEntry, nmiLatch, countVars>>

(* Mutant: the bad entry is given back instead of set aside. *)
SwitchBadFreed ==
    /\ depth > 0 /\ me.pc = "switch"
    /\ IF me.bp \in Entries
       THEN ~link[me.bp] /\ AllocByte' = [AllocByte EXCEPT ![me.bp] = Free]
       ELSE UNCHANGED AllocByte
    /\ Go("scan")
    /\ UNCHANGED <<SavedSP, link, NextEntry, nmiLatch, countVars>>

(* StackFoundBad: the entry is set aside and another one looked for.       *)
(* Outside the table the word is taken not to match.                       *)
SwitchBad ==
    /\ depth > 0 /\ me.pc = "switch"
    /\ IF me.bp \in Entries
       THEN /\ ~link[me.bp]
            /\ SavedSP' = [SavedSP EXCEPT ![me.bp] = depth]
            /\ AllocByte' = [AllocByte EXCEPT ![me.bp] = Clobbered]
       ELSE UNCHANGED <<SavedSP, AllocByte>>
    /\ Go("scan")
    /\ UNCHANGED <<link, NextEntry, nmiLatch, countVars>>

(* The handler uses more stack than there is: the top of the next lower    *)
(* one is overwritten.  (Below the first stack lies the table itself; an   *)
(* overflow of that one is not modelled.)                                  *)
Overflow ==
    /\ depth > 0 /\ me.pc = "handler" /\ me.bp > FirstEntry
    /\ link' = [link EXCEPT ![me.bp - 1] = FALSE]
    /\ UNCHANGED <<AllocByte, SavedSP, NextEntry, frames, nmiLatch, countVars>>

(* A service the handler calls ends with an IRET, which lets NMIs in.      *)
HandlerCalls ==
    /\ depth > 0 /\ me.pc = "handler" /\ nmiLatch
    /\ nmiLatch' = FALSE
    /\ UNCHANGED <<entryVars, NextEntry, frames, countVars>>

HandlerReturns ==
    /\ depth > 0 /\ me.pc = "handler"
    /\ Go("unstack")
    /\ nmiLatch' = FALSE
    /\ UNCHANGED <<entryVars, NextEntry, countVars>>

(* Mutant: the entry is freed before SS:SP is read from it. *)
UnstackAfterFree ==
    /\ depth > 0 /\ me.pc = "unstack"
    /\ IF AllocByte[me.bp] = Allocated
       THEN AllocByte' = [AllocByte EXCEPT ![me.bp] = Free] /\ UNCHANGED frames
       ELSE /\ Become("setnext", me.bp, me.al, SavedSP[me.bp])
            /\ UNCHANGED AllocByte
    /\ UNCHANGED <<SavedSP, link, NextEntry, nmiLatch, countVars>>

(* BP from the top of the stack, then SS:SP from the entry.  If the top    *)
(* has been overwritten meanwhile both are garbage.                        *)
Unstack ==
    /\ depth > 0 /\ me.pc = "unstack"
    /\ Become(IF link[me.bp] THEN "release" ELSE "crashed",
              me.bp, me.al, SavedSP[me.bp])
    /\ UNCHANGED <<entryVars, NextEntry, nmiLatch, countVars>>

Release ==
    /\ depth > 0 /\ me.pc = "release"
    /\ AllocByte' = [AllocByte EXCEPT ![me.bp] = Free]
    /\ Go("setnext")
    /\ UNCHANGED <<SavedSP, link, NextEntry, nmiLatch, countVars>>

SetNext ==
    /\ depth > 0 /\ me.pc = "setnext"
    /\ NextEntry' = me.bp
    /\ Go("iret")
    /\ UNCHANGED <<entryVars, nmiLatch, countVars>>

Iret ==
    /\ depth > 0 /\ me.pc = "iret"
    /\ frames' = SubSeq(frames, 1, depth - 1)
    /\ nmiLatch' = FALSE
    /\ UNCHANGED <<entryVars, NextEntry, countVars>>

-----------------------------------------------------------------------------

Step ==
    \/ ReadNext \/ Exchange \/ ExchangeOutside \/ StepNext \/ PutBack
    \/ Scan \/ Test \/ Claim \/ Restore
    \/ Switch \/ SwitchBad \/ Unstack \/ Release \/ SetNext \/ Iret

Next == Irq \/ Nmi \/ Step \/ Overflow \/ HandlerCalls \/ HandlerReturns

(* The processor goes on, and handlers return. *)
Spec == Init /\ [][Next]_vars /\ WF_vars(Step \/ HandlerReturns)

-----------------------------------------------------------------------------

Holding == {"step", "putback", "restore", "switch", "handler", "unstack",
            "release", "crashed"}

TypeOK ==
    /\ AllocByte \in [Entries -> {Free, Allocated, Clobbered}]
    /\ SavedSP \in [Entries -> 0 .. MaxArrivals]
    /\ link \in [Entries -> BOOLEAN]
    /\ NextEntry \in -MaxArrivals .. LastEntry
    /\ \A d \in 1 .. depth : frames[d].bp \in Int /\ frames[d].sp \in 0 .. MaxArrivals
    /\ nmiLatch \in BOOLEAN

(* Two interrupts in service never have the same stack. *)
StacksDistinct ==
    \A c, d \in 1 .. depth :
        c # d /\ {frames[c].pc, frames[d].pc} \subseteq Holding
          => frames[c].bp # frames[d].bp \/ frames[c].bp \notin Entries

(* An allocated entry is some interrupt's, which will give it back.        *)
NoStackLost ==
    \A e \in Entries : AllocByte[e] = Allocated =>
        \E d \in 1 .. depth : frames[d].bp = e /\ frames[d].pc \in Holding

(* Whatever interrupted the switch or the way back, SS:SP is again that of *)
(* the context the interrupt found.                                        *)
OwnContext ==
    \A d \in 1 .. depth :
        frames[d].pc \in {"release", "setnext", "iret"} => frames[d].sp = d

(* MSSTACK.INC:26: "Picks a stack from pool of stacks".  An entry is looked *)
(* for outside the table only when none is left in it.                     *)
InsideTable ==
    depth > 0 /\ me.pc = "exchange" /\ me.bp \notin Entries =>
        \A e \in Entries : AllocByte[e] # Free

(* Every interrupt is served, or the machine has stopped.  The bound on    *)
(* arrivals stands for devices that do not interrupt for ever.             *)
InterruptsEnd == depth > 0 ~> depth = 0 \/ Halted

=============================================================================
