-------------------------- MODULE StackPoolProofs --------------------------
(***************************************************************************)
(* No two interrupts in service share a stack, no stack is lost, and each  *)
(* interrupt returns to the context it found, for any number of entries,   *)
(* of interrupts and of NMIs: StacksDistinct, NoStackLost and OwnContext   *)
(* of StackPool.                                                           *)
(*                                                                         *)
(* The reason is the exchange: it tells the state of the entry and makes   *)
(* it allocated in one instruction.  PoolInv adds the converse of          *)
(* NoStackLost, that the entry a frame holds is marked allocated.          *)
(***************************************************************************)
EXTENDS StackPool, TLAPS, SequenceTheorems

Bytes == {Free, Allocated, Clobbered}

PCs == {"first", "exchange", "step", "putback", "scan", "test", "claim",
        "restore", "switch", "handler", "unstack", "release", "setnext",
        "iret", "fatal", "crashed"}

Frames == [pc : PCs, bp : Int, al : Bytes, sp : Nat]

Holds(f, e) == f.pc \in Holding /\ f.bp = e

(* Where a frame has to stand in the table, and what it keeps in AL. *)
Sound(f) ==
    /\ f.pc \in {"test", "claim", "restore", "handler", "unstack", "release"}
          => f.bp \in Entries
    /\ f.pc \in {"putback", "restore"} => f.al = Clobbered

Types ==
    /\ AllocByte \in [Entries -> Bytes]
    /\ SavedSP \in [Entries -> Nat]
    /\ NextEntry \in Int
    /\ frames \in Seq(Frames)

Marked ==
    \A d \in 1 .. depth : \A e \in Entries :
        Holds(frames[d], e) => AllocByte[e] = Allocated

PoolInv ==
    /\ Types
    /\ \A d \in 1 .. depth : Sound(frames[d])
    /\ Marked /\ StacksDistinct /\ NoStackLost

(* The innermost frame has become f, the others are what they were. *)
Moved(f) ==
    /\ frames' \in Seq(Frames) /\ Len(frames') = Len(frames)
    /\ frames'[Len(frames)] = f
    /\ \A d \in 1 .. Len(frames) - 1 : frames'[d] = frames[d]

-----------------------------------------------------------------------------

LEMMA TopFrame ==
    ASSUME PoolInv, depth > 0
    PROVE  /\ depth \in Nat /\ depth \in 1 .. depth
           /\ me \in Frames /\ Sound(me) /\ me = frames[Len(frames)]
  BY LenProperties, ElementOfSeq DEF PoolInv, Types, depth, me

(* Writing the innermost frame. *)
LEMMA BecomeMoves ==
    ASSUME PoolInv, depth > 0,
           NEW p \in PCs, NEW b \in Int, NEW a \in Bytes, NEW s \in Nat,
           Become(p, b, a, s)
    PROVE  /\ [pc |-> p, bp |-> b, al |-> a, sp |-> s] \in Frames
           /\ Moved([pc |-> p, bp |-> b, al |-> a, sp |-> s])
<1>1. depth \in 1 .. Len(frames) /\ depth = Len(frames) /\ frames \in Seq(Frames)
  BY TopFrame DEF PoolInv, Types, depth
<1>2. [pc |-> p, bp |-> b, al |-> a, sp |-> s] \in Frames
  BY DEF Frames
<1> QED BY <1>1, <1>2, ExceptSeq DEF Moved, Become

LEMMA MovedFrames ==
    ASSUME PoolInv, depth > 0, NEW f \in Frames, Moved(f)
    PROVE  /\ depth' = depth /\ depth \in Nat /\ depth = Len(frames)
           /\ depth \in 1 .. depth
           /\ \A d \in 1 .. depth : frames'[d] = IF d = depth THEN f ELSE frames[d]
           /\ me = frames[depth] /\ frames' \in Seq(Frames)
<1>1. depth = Len(frames) /\ depth' = Len(frames') /\ depth \in Nat
  BY TopFrame DEF depth
<1>2. me = frames[depth] /\ depth \in 1 .. depth
  BY TopFrame DEF me
<1>3. \A d \in 1 .. depth : d # depth => d \in 1 .. Len(frames) - 1
  BY <1>1
<1> QED BY <1>1, <1>2, <1>3 DEF Moved

-----------------------------------------------------------------------------
(* The three ways a step changes what its frame holds. *)

LEMMA Keeps ==
    ASSUME PoolInv, depth > 0, NEW f \in Frames, Moved(f), Sound(f),
           UNCHANGED AllocByte, SavedSP' \in [Entries -> Nat], NextEntry' \in Int,
           \A e \in Entries : Holds(f, e) <=> Holds(me, e)
    PROVE  PoolInv'
<1> USE DEF PoolInv, Types
<1>1. /\ depth' = depth /\ depth \in Nat /\ depth = Len(frames)
      /\ depth \in 1 .. depth
      /\ \A d \in 1 .. depth : frames'[d] = IF d = depth THEN f ELSE frames[d]
      /\ me = frames[depth] /\ frames' \in Seq(Frames)
  BY MovedFrames
<1>2. \A d \in 1 .. depth : Sound(frames'[d])
  BY <1>1
<1>3. \A d \in 1 .. depth, e \in Entries :
        Holds(frames'[d], e) <=> Holds(frames[d], e)
  BY <1>1
<1>4. Marked'
  BY <1>1, <1>3 DEF Marked
<1>5. StacksDistinct'
  BY <1>1, <1>3 DEF StacksDistinct, Holds
<1>6. NoStackLost'
  BY <1>1, <1>3 DEF NoStackLost, Holds
<1> QED BY <1>1, <1>2, <1>4, <1>5, <1>6 DEF Sound

(* An exchange at b: the frame holds b afterwards unless b was allocated.  *)
LEMMA Takes ==
    ASSUME PoolInv, depth > 0, NEW f \in Frames, Moved(f), Sound(f),
           NEW b \in Entries,
           AllocByte' = [AllocByte EXCEPT ![b] = Allocated],
           UNCHANGED <<SavedSP, NextEntry>>,
           me.pc \notin Holding,
           IF AllocByte[b] = Allocated THEN f.pc \notin Holding
                                       ELSE Holds(f, b)
    PROVE  PoolInv'
<1> USE DEF PoolInv, Types
<1>1. /\ depth' = depth /\ depth \in Nat /\ depth = Len(frames)
      /\ depth \in 1 .. depth
      /\ \A d \in 1 .. depth : frames'[d] = IF d = depth THEN f ELSE frames[d]
      /\ me = frames[depth] /\ frames' \in Seq(Frames)
  BY MovedFrames
<1>2. \A d \in 1 .. depth : Sound(frames'[d])
  BY <1>1
<1>3. \A d \in 1 .. depth, e \in Entries : Holds(frames'[d], e) =>
        \/ Holds(frames[d], e) /\ d # depth
        \/ d = depth /\ e = b /\ AllocByte[b] # Allocated
  BY <1>1 DEF Holds
<1>4. \A d \in 1 .. depth, e \in Entries :
        Holds(frames[d], e) => Holds(frames'[d], e)
  BY <1>1 DEF Holds
<1>5. Marked'
  BY <1>1, <1>3 DEF Marked, Bytes
<1>6. StacksDistinct'
  <2> SUFFICES ASSUME NEW c \in 1 .. depth, NEW d \in 1 .. depth, c # d,
                      NEW e \in Entries, Holds(frames'[c], e), Holds(frames'[d], e)
               PROVE  FALSE
    BY <1>1 DEF StacksDistinct, Holds
  <2>1. CASE Holds(frames[c], e) /\ Holds(frames[d], e)
    BY <2>1 DEF StacksDistinct, Holds
  <2>2. CASE e = b /\ AllocByte[b] # Allocated
    BY <1>3, <2>2 DEF Marked
  <2> QED BY <1>3, <2>1, <2>2
<1>7. NoStackLost'
  <2> SUFFICES ASSUME NEW e \in Entries, AllocByte'[e] = Allocated
               PROVE  \E d \in 1 .. depth : Holds(frames'[d], e)
    BY <1>1 DEF NoStackLost, Holds
  <2>1. CASE AllocByte[e] = Allocated
    BY <2>1, <1>4 DEF NoStackLost, Holds
  <2>2. CASE AllocByte[e] # Allocated
    BY <2>2, <1>1, TopFrame
  <2> QED BY <2>1, <2>2
<1> QED BY <1>1, <1>2, <1>5, <1>6, <1>7 DEF Bytes, Sound

(* The entry a frame holds is given back, or set aside. *)
LEMMA Gives ==
    ASSUME PoolInv, depth > 0, NEW f \in Frames, Moved(f), Sound(f),
           me.pc \in Holding, me.bp \in Entries, f.pc \notin Holding,
           NEW v \in {Free, Clobbered},
           AllocByte' = [AllocByte EXCEPT ![me.bp] = v],
           SavedSP' \in [Entries -> Nat], UNCHANGED NextEntry
    PROVE  PoolInv'
<1> USE DEF PoolInv, Types
<1>1. /\ depth' = depth /\ depth \in Nat /\ depth = Len(frames)
      /\ depth \in 1 .. depth
      /\ \A d \in 1 .. depth : frames'[d] = IF d = depth THEN f ELSE frames[d]
      /\ me = frames[depth] /\ frames' \in Seq(Frames)
  BY MovedFrames
<1>2. \A d \in 1 .. depth : Sound(frames'[d])
  BY <1>1
<1>3. \A d \in 1 .. depth, e \in Entries :
        Holds(frames'[d], e) <=> Holds(frames[d], e) /\ d # depth
  BY <1>1 DEF Holds
<1>4. \A d \in 1 .. depth - 1 : ~Holds(frames[d], me.bp)
  BY <1>1 DEF StacksDistinct, Holds
<1>5. Marked'
  <2> SUFFICES ASSUME NEW d \in 1 .. depth, NEW e \in Entries, Holds(frames'[d], e)
               PROVE  AllocByte'[e] = Allocated
    BY <1>1 DEF Marked
  <2>1. Holds(frames[d], e) /\ d # depth /\ d \in 1 .. depth - 1
    BY <1>1, <1>3
  <2>2. e # me.bp
    BY <1>4, <2>1
  <2> QED BY <2>1, <2>2 DEF Marked
<1>6. StacksDistinct'
  BY <1>1, <1>3 DEF StacksDistinct, Holds
<1>7. NoStackLost'
  <2> SUFFICES ASSUME NEW e \in Entries, AllocByte'[e] = Allocated
               PROVE  \E d \in 1 .. depth : Holds(frames'[d], e)
    BY <1>1 DEF NoStackLost, Holds
  <2>1. e # me.bp /\ AllocByte[e] = Allocated
    BY DEF Free, Allocated, Clobbered
  <2>2. PICK d \in 1 .. depth : Holds(frames[d], e)
    BY <2>1 DEF NoStackLost, Holds
  <2>3. d # depth
    BY <1>1, <2>1, <2>2 DEF Holds
  <2> QED BY <1>3, <2>2, <2>3
<1> QED BY <1>1, <1>2, <1>5, <1>6, <1>7 DEF Bytes, Sound

-----------------------------------------------------------------------------
(* One lemma for each kind of action. *)

(* The move of the innermost frame to another place, without an exchange.  *)
LEMMA MovesOn ==
    ASSUME PoolInv, depth > 0,
           NEW p \in PCs, NEW b \in Int, NEW a \in Bytes, NEW s \in Nat,
           Become(p, b, a, s), Sound([pc |-> p, bp |-> b, al |-> a, sp |-> s]),
           UNCHANGED <<AllocByte, SavedSP>>, NextEntry' \in Int,
           \A e \in Entries : (p \in Holding /\ b = e) <=> Holds(me, e)
    PROVE  PoolInv'
<1> DEFINE f == [pc |-> p, bp |-> b, al |-> a, sp |-> s]
<1>1. f \in Frames /\ Moved(f)
  BY BecomeMoves
<1>2. \A e \in Entries : Holds(f, e) <=> Holds(me, e)
  BY DEF Holds
<1> HIDE DEF f
<1>3. Sound(f)
  BY DEF f
<1> QED BY <1>1, <1>2, <1>3, Keeps DEF PoolInv, Types

LEMMA ReadersKeep ==
    ASSUME PoolInv, ReadNext \/ Scan \/ ExchangeOutside \/ StepNext \/ SetNext
    PROVE  PoolInv'
<1>1. depth > 0 /\ me \in Frames /\ NextEntry \in Int
  BY TopFrame
  DEF ReadNext, Scan, ExchangeOutside, StepNext, SetNext, PoolInv, Types
<1>2. LastEntry \in Entries /\ LastEntry \in Int
  BY StackPoolAssumption DEF Entries, FirstEntry, LastEntry
<1> USE <1>1 DEF Frames, PCs, Holding, Holds, Sound, Go, GoWith, entryVars
<1>3. CASE ReadNext
  BY <1>3, MovesOn DEF ReadNext
<1>4. CASE Scan
  BY <1>2, <1>4, MovesOn DEF Scan
<1>5. CASE ExchangeOutside
  <2>1. PICK al \in Bytes : GoWith(Answered(al), me.bp, al)
    BY <1>5 DEF ExchangeOutside, Bytes
  <2>2. /\ Answered(al) \in {"step", "scan", "putback"}
        /\ Answered(al) = "putback" => al = Clobbered
    BY DEF Answered, Free, Allocated, Clobbered, Bytes
  <2> QED BY <1>5, <2>1, <2>2, MovesOn DEF ExchangeOutside
<1>6. CASE StepNext
  BY <1>6, MovesOn DEF StepNext
<1>7. CASE SetNext
  BY <1>7, MovesOn DEF SetNext
<1> QED BY <1>3, <1>4, <1>5, <1>6, <1>7

(* The next lower entry, or the end. *)
LEMMA BelowMoves ==
    ASSUME PoolInv, depth > 0, me.pc \in {"test", "claim", "restore"},
           NEW a \in Bytes, TryBelow(a)
    PROVE  \E f \in Frames :
             Moved(f) /\ Sound(f) /\ f.pc \in {"fatal", "test"}
                      /\ f.pc \notin Holding
<1> DEFINE p == IF me.bp = FirstEntry THEN "fatal" ELSE "test"
           b == IF me.bp = FirstEntry THEN me.bp ELSE me.bp - 1
           f == [pc |-> p, bp |-> b, al |-> a, sp |-> me.sp]
<1>1. me \in Frames /\ me.bp \in Entries /\ me.bp \in Int /\ me.sp \in Nat
  BY TopFrame DEF Sound, Frames
<1>2. b \in Entries /\ b \in Int
  BY <1>1, StackPoolAssumption DEF Entries, FirstEntry, LastEntry
<1>3. p \in PCs /\ p \in {"fatal", "test"}
  BY DEF PCs
<1>4. Become(p, b, a, me.sp)
  BY DEF TryBelow, GoWith
<1> HIDE DEF p, b
<1>5. f \in Frames /\ Moved(f)
  BY <1>1, <1>2, <1>3, <1>4, BecomeMoves
<1>6. Sound(f) /\ f.pc \in {"fatal", "test"} /\ f.pc \notin Holding
  BY <1>2, <1>3 DEF Sound, Holding
<1> QED BY <1>5, <1>6

LEMMA TestKeeps ==
    ASSUME PoolInv, Test PROVE PoolInv'
<1>1. depth > 0 /\ me.pc = "test" /\ me \in Frames /\ me.bp \in Entries
  BY TopFrame DEF Test, Sound
<1>2. CASE Go("claim")
  BY <1>1, <1>2, MovesOn
  DEF Test, Go, GoWith, Frames, PCs, Sound, Holding, Holds, entryVars, PoolInv, Types
<1>3. CASE TryBelow(me.al)
  <2>1. PICK f \in Frames : Moved(f) /\ Sound(f) /\ f.pc \notin Holding
    BY <1>1, <1>3, BelowMoves DEF Frames
  <2> QED BY <1>1, <2>1, Keeps DEF Test, entryVars, PoolInv, Types, Holds, Holding
<1> QED BY <1>1, <1>2, <1>3 DEF Test

LEMMA ExchangeTakes ==
    ASSUME PoolInv, Exchange PROVE PoolInv'
<1> DEFINE al == AllocByte[me.bp]
           f == [pc |-> Answered(al), bp |-> me.bp, al |-> al, sp |-> me.sp]
<1>1. /\ depth > 0 /\ me.pc = "exchange" /\ me \in Frames
      /\ me.bp \in Entries /\ al \in Bytes
  BY TopFrame DEF Exchange, PoolInv, Types
<1>2. /\ Answered(al) \in PCs /\ Answered(al) \in {"step", "scan", "putback"}
      /\ Answered(al) = "putback" => al = Clobbered
      /\ Answered(al) = "scan" <=> al = Allocated
  BY <1>1 DEF Answered, Free, Allocated, Clobbered, Bytes, PCs
<1>3. f \in Frames /\ Moved(f)
  BY <1>1, <1>2, BecomeMoves DEF Exchange, GoWith, Frames
<1>4. Sound(f) /\ (IF al = Allocated THEN f.pc \notin Holding ELSE Holds(f, me.bp))
  BY <1>2 DEF Sound, Holds, Holding
<1> HIDE DEF f
<1> QED BY <1>1, <1>3, <1>4, Takes DEF Exchange, Holding

LEMMA ClaimTakes ==
    ASSUME PoolInv, Claim PROVE PoolInv'
<1> DEFINE al == AllocByte[me.bp]
<1>1. /\ depth > 0 /\ me.pc = "claim" /\ me \in Frames
      /\ me.bp \in Entries /\ al \in Bytes
  BY TopFrame DEF Claim, PoolInv, Types, Sound
<1>2. CASE al = Allocated
  <2>1. TryBelow(al)
    BY <1>2 DEF Claim, Free, Allocated, Clobbered
  <2>2. PICK f \in Frames : Moved(f) /\ Sound(f) /\ f.pc \notin Holding
    BY <1>1, <2>1, BelowMoves
  <2> QED BY <1>1, <1>2, <2>2, Takes DEF Claim, Holding
<1>3. CASE al # Allocated
  <2> DEFINE p == IF al = Free THEN "switch" ELSE "restore"
             f == [pc |-> p, bp |-> me.bp, al |-> al, sp |-> me.sp]
  <2>1. GoWith(p, me.bp, al)
    BY <1>1, <1>3 DEF Claim, Free, Allocated, Clobbered
  <2>2. p \in PCs /\ p \in Holding /\ (p = "restore" => al = Clobbered) /\ p # "putback"
    BY <1>1, <1>3 DEF PCs, Holding, Bytes
  <2>3. f \in Frames /\ Moved(f)
    BY <1>1, <2>1, <2>2, BecomeMoves DEF GoWith, Frames
  <2>4. Sound(f) /\ Holds(f, me.bp)
    BY <1>1, <2>2 DEF Sound, Holds
  <2> HIDE DEF f, p
  <2> QED BY <1>1, <1>3, <2>3, <2>4, Takes DEF Claim, Holding
<1> QED BY <1>2, <1>3

LEMMA GiversGive ==
    ASSUME PoolInv, Restore \/ Release \/ PutBack \/ SwitchBad
    PROVE  PoolInv'
<1>1. depth > 0 /\ me \in Frames /\ Sound(me)
  BY TopFrame DEF Restore, Release, PutBack, SwitchBad
<1>2. CASE Restore
  <2>1. me.bp \in Entries /\ me.al = Clobbered /\ me.pc \in Holding
    BY <1>1, <1>2 DEF Restore, Sound, Holding
  <2>2. PICK f \in Frames : Moved(f) /\ Sound(f) /\ f.pc \notin Holding
    BY <1>1, <1>2, BelowMoves DEF Restore, Frames
  <2> QED BY <1>1, <1>2, <2>1, <2>2, Gives DEF Restore, PoolInv, Types
<1>3. CASE Release
  <2> DEFINE f == [pc |-> "setnext", bp |-> me.bp, al |-> me.al, sp |-> me.sp]
  <2>1. me.bp \in Entries /\ me.pc \in Holding
    BY <1>1, <1>3 DEF Release, Sound, Holding
  <2>2. f \in Frames /\ Moved(f)
    BY <1>1, <1>3, BecomeMoves DEF Release, Go, GoWith, Frames, PCs
  <2>3. Sound(f) /\ f.pc \notin Holding
    BY DEF Sound, Holding
  <2> HIDE DEF f
  <2> QED BY <1>1, <1>3, <2>1, <2>2, <2>3, Gives DEF Release, PoolInv, Types
<1>4. CASE PutBack \/ SwitchBad
  <2> DEFINE f == [pc |-> "scan", bp |-> me.bp, al |-> me.al, sp |-> me.sp]
  <2>1. f \in Frames /\ Moved(f) /\ me.pc \in Holding
    BY <1>1, <1>4, BecomeMoves
    DEF PutBack, SwitchBad, Go, GoWith, Frames, PCs, Holding
  <2>2. Sound(f) /\ f.pc \notin Holding /\ f.bp = me.bp
    BY DEF Sound, Holding
  <2> HIDE DEF f
  <2>3. CASE me.bp \notin Entries
    BY <1>1, <1>4, <2>1, <2>2, <2>3, Keeps
    DEF PutBack, SwitchBad, Holds, PoolInv, Types
  <2>4. CASE me.bp \in Entries
    <3>1. AllocByte' = [AllocByte EXCEPT ![me.bp] = Clobbered]
      BY <1>1, <1>4, <2>4 DEF PutBack, SwitchBad, Sound
    <3>2. SavedSP' \in [Entries -> Nat] /\ UNCHANGED NextEntry
      BY <1>1, <1>4, <2>4, TopFrame DEF PutBack, SwitchBad, PoolInv, Types
    <3> QED BY <1>1, <2>1, <2>2, <2>4, <3>1, <3>2, Gives
  <2> QED BY <2>3, <2>4
<1> QED BY <1>2, <1>3, <1>4

LEMMA HoldersKeep ==
    ASSUME PoolInv,
           Switch \/ HandlerCalls \/ HandlerReturns \/ Unstack \/ Overflow
    PROVE  PoolInv'
<1>1. depth > 0 /\ me \in Frames /\ Sound(me) /\ depth \in Nat
  BY TopFrame DEF Switch, HandlerCalls, HandlerReturns, Unstack, Overflow
<1>2. CASE Overflow \/ HandlerCalls
  <2>1. UNCHANGED <<AllocByte, SavedSP, NextEntry, frames>>
    BY <1>2 DEF Overflow, HandlerCalls, entryVars
  <2> QED BY <2>1 DEF PoolInv, Types, Sound, Marked, Holds, StacksDistinct, NoStackLost, depth
<1>3. CASE HandlerReturns
  <2>1. SavedSP \in [Entries -> Nat] /\ NextEntry \in Int
    BY DEF PoolInv, Types
  <2>2. me.pc = "handler" /\ me.bp \in Entries
    BY <1>1, <1>3 DEF HandlerReturns, Sound
  <2> QED BY <1>1, <1>3, <2>1, <2>2, MovesOn
  DEF HandlerReturns, Go, GoWith, Frames, PCs, Sound, Holding, Holds, entryVars
<1>4. CASE Unstack
  <2> DEFINE p == IF link[me.bp] THEN "release" ELSE "crashed"
  <2>1. /\ me.bp \in Entries /\ SavedSP[me.bp] \in Nat
        /\ p \in PCs /\ p \in {"release", "crashed"}
    BY <1>1, <1>4 DEF Unstack, Sound, PoolInv, Types, PCs
  <2>2. Become(p, me.bp, me.al, SavedSP[me.bp])
    BY <1>4 DEF Unstack
  <2> HIDE DEF p
  <2> QED BY <1>1, <1>4, <2>1, <2>2, MovesOn
    DEF Unstack, Frames, Sound, Holding, Holds, entryVars, PoolInv, Types
<1>5. CASE Switch
  <2> DEFINE f == [pc |-> "handler", bp |-> me.bp, al |-> me.al, sp |-> me.sp]
  <2>1. f \in Frames /\ Moved(f)
    BY <1>1, <1>5, BecomeMoves DEF Switch, Go, GoWith, Frames, PCs
  <2>2. Sound(f) /\ \A e \in Entries : Holds(f, e) <=> Holds(me, e)
    BY <1>5 DEF Switch, Sound, Holds, Holding
  <2>3. SavedSP' \in [Entries -> Nat]
    BY <1>1, <1>5 DEF Switch, PoolInv, Types
  <2> HIDE DEF f
  <2> QED BY <1>1, <1>5, <2>1, <2>2, <2>3, Keeps DEF Switch, PoolInv, Types
<1> QED BY <1>2, <1>3, <1>4, <1>5

-----------------------------------------------------------------------------
(* Interrupts come and go. *)

(* A new frame holds nothing. *)
LEMMA ArriveKeeps ==
    ASSUME PoolInv, Arrive PROVE PoolInv'
<1> DEFINE f == Frame("first", 0)
<1>1. f \in Frames /\ Sound(f) /\ f.pc \notin Holding
  BY DEF Frame, Frames, PCs, Bytes, Sound, Holding
<1>2. frames \in Seq(Frames) /\ frames' = Append(frames, f)
  BY DEF PoolInv, Types, Arrive
<1> HIDE DEF f
<1>3. /\ frames' \in Seq(Frames) /\ depth \in Nat /\ depth' = depth + 1
      /\ frames'[depth + 1] = f
      /\ \A d \in 1 .. depth : frames'[d] = frames[d]
  BY <1>1, <1>2, AppendProperties, LenProperties DEF depth
<1>4. \A d \in 1 .. depth + 1 : d \in 1 .. depth \/ d = depth + 1
  BY <1>3
<1>5. \A d \in 1 .. depth' : Sound(frames'[d])
  BY <1>1, <1>3, <1>4 DEF PoolInv
<1>6. Marked'
  BY <1>1, <1>3, <1>4 DEF PoolInv, Marked, Holds, Arrive, entryVars
<1>7. StacksDistinct'
  BY <1>1, <1>3, <1>4 DEF PoolInv, StacksDistinct
<1>8. NoStackLost'
  <2> SUFFICES ASSUME NEW e \in Entries, AllocByte'[e] = Allocated
               PROVE  \E d \in 1 .. depth' :
                        frames'[d].bp = e /\ frames'[d].pc \in Holding
    BY DEF NoStackLost
  <2>1. PICK d \in 1 .. depth : frames[d].bp = e /\ frames[d].pc \in Holding
    BY DEF PoolInv, NoStackLost, Arrive, entryVars
  <2>2. d \in 1 .. depth' /\ frames'[d] = frames[d]
    BY <1>3
  <2> QED BY <2>1, <2>2
<1> QED BY <1>3, <1>5, <1>6, <1>7, <1>8
  DEF PoolInv, Types, Arrive, entryVars, Sound, Bytes

(* The frame that leaves has given back what it held. *)
LEMMA IretKeeps ==
    ASSUME PoolInv, Iret PROVE PoolInv'
<1>1. /\ depth > 0 /\ depth \in Nat /\ frames \in Seq(Frames)
      /\ me = frames[depth] /\ me.pc \notin Holding
  BY TopFrame DEF Iret, PoolInv, Types, Holding, me
<1>2. /\ frames' \in Seq(Frames) /\ depth' = depth - 1
      /\ \A d \in 1 .. depth - 1 : frames'[d] = frames[d]
  <2>1. depth - 1 \in Int /\ 1 \in Int /\ depth = Len(frames)
    BY <1>1 DEF depth
  <2>2. \A i \in 1 .. depth - 1 : frames[i] \in Frames
    BY <1>1, <2>1, ElementOfSeq
  <2>3. /\ SubSeq(frames, 1, depth - 1) \in Seq(Frames)
        /\ Len(SubSeq(frames, 1, depth - 1)) = depth - 1
        /\ \A i \in 1 .. depth - 1 : SubSeq(frames, 1, depth - 1)[i] = frames[i]
    BY <1>1, <2>1, <2>2, SubSeqProperties
  <2> QED BY <2>3 DEF Iret, depth
<1>3. \A d \in 1 .. depth : d \in 1 .. depth - 1 \/ d = depth
  BY <1>1
<1>4. \A d \in 1 .. depth - 1 : d \in 1 .. depth
  BY <1>1
<1>5. \A d \in 1 .. depth' : Sound(frames'[d])
  BY <1>2, <1>4 DEF PoolInv
<1>6. Marked'
  BY <1>2, <1>4 DEF PoolInv, Marked, Holds, Iret, entryVars
<1>7. StacksDistinct'
  BY <1>2, <1>4 DEF PoolInv, StacksDistinct
<1>8. NoStackLost'
  BY <1>1, <1>2, <1>3 DEF PoolInv, NoStackLost, Iret, entryVars
<1> QED BY <1>2, <1>5, <1>6, <1>7, <1>8
  DEF PoolInv, Types, Iret, entryVars, Sound, Bytes

-----------------------------------------------------------------------------

LEMMA PoolInvInitially == Init => PoolInv
<1> SUFFICES ASSUME Init PROVE PoolInv
  OBVIOUS
<1>1. frames \in Seq(Frames) /\ depth = 0
  BY EmptySeq DEF Init, depth
<1>2. Types
  BY <1>1, StackPoolAssumption DEF Init, Types, Bytes, LastEntry
<1> QED BY <1>1, <1>2
  DEF PoolInv, Init, Marked, StacksDistinct, NoStackLost, Free, Allocated

LEMMA PoolInvPreserved == PoolInv /\ [Next]_vars => PoolInv'
<1> SUFFICES ASSUME PoolInv, [Next]_vars PROVE PoolInv'
  OBVIOUS
<1>1. CASE UNCHANGED vars
  BY <1>1 DEF vars, entryVars, countVars, PoolInv, Types, Sound, Marked,
              StacksDistinct, NoStackLost, Holds, depth
<1>2. CASE Irq \/ Nmi
  BY <1>2, ArriveKeeps DEF Irq, Nmi
<1>3. CASE ReadNext \/ Scan \/ ExchangeOutside \/ StepNext \/ SetNext
  BY <1>3, ReadersKeep
<1>4. CASE Test
  BY <1>4, TestKeeps
<1>5. CASE Exchange
  BY <1>5, ExchangeTakes
<1>6. CASE Claim
  BY <1>6, ClaimTakes
<1>7. CASE Restore \/ Release \/ PutBack \/ SwitchBad
  BY <1>7, GiversGive
<1>8. CASE Switch \/ HandlerCalls \/ HandlerReturns \/ Unstack \/ Overflow
  BY <1>8, HoldersKeep
<1>9. CASE Iret
  BY <1>9, IretKeeps
<1> QED BY <1>1, <1>2, <1>3, <1>4, <1>5, <1>6, <1>7, <1>8, <1>9 DEF Next, Step

THEOREM PoolInvHolds == Spec => []PoolInv
  BY PoolInvInitially, PoolInvPreserved, PTL DEF Spec

(* MSSTACK.INC:42: a nested interrupt never gets the same stack.           *)
THEOREM StacksAlwaysDistinct == Spec => []StacksDistinct
<1>1. PoolInv => StacksDistinct
  BY DEF PoolInv
<1> QED BY <1>1, PoolInvHolds, PTL

(* MSSTACK.INC:30: every stack taken from the pool is returned to it by    *)
(* the interrupt that took it.                                             *)
THEOREM NoStackIsLost == Spec => []NoStackLost
<1>1. PoolInv => NoStackLost
  BY DEF PoolInv
<1> QED BY <1>1, PoolInvHolds, PTL

-----------------------------------------------------------------------------
(* OwnContext.  A frame relies on the SS:SP saved in its entry only while  *)
(* its handler runs, and on the SS:SP it has loaded only on the way back.  *)

Running == {"handler", "unstack"}
Back    == {"release", "setnext", "iret"}

RightFor(f, d, saved) ==
    /\ f.pc \in Running => saved[f.bp] = d
    /\ f.pc \in Back => f.sp = d

ContextInv == \A d \in 1 .. depth : RightFor(frames[d], d, SavedSP)

(* Only the frame that holds an entry, on its way to a handler, writes the *)
(* SS:SP of that entry.                                                    *)
Saves ==
    \/ UNCHANGED SavedSP
    \/ /\ me.pc = "switch" /\ me.bp \in Entries
       /\ SavedSP' = [SavedSP EXCEPT ![me.bp] = depth]

LEMMA ContextKept ==
    ASSUME PoolInv, ContextInv, depth > 0, NEW f \in Frames, Moved(f),
           Saves, RightFor(f, depth, SavedSP')
    PROVE  ContextInv'
<1>1. /\ depth' = depth /\ depth \in Nat /\ depth \in 1 .. depth
      /\ \A d \in 1 .. depth : frames'[d] = IF d = depth THEN f ELSE frames[d]
      /\ me = frames[depth]
  BY MovedFrames
<1> SUFFICES ASSUME NEW d \in 1 .. depth, d # depth
             PROVE  RightFor(frames[d], d, SavedSP')
  BY <1>1 DEF ContextInv
<1>2. RightFor(frames[d], d, SavedSP)
  BY DEF ContextInv
<1>3. CASE UNCHANGED SavedSP
  BY <1>2, <1>3
<1>4. CASE /\ me.pc = "switch" /\ me.bp \in Entries
           /\ SavedSP' = [SavedSP EXCEPT ![me.bp] = depth]
  <2>1. CASE frames[d].pc \in Running
    <3>1. frames[d].bp \in Entries /\ frames[d].pc \in Holding
      BY <2>1 DEF PoolInv, Sound, Running, Holding
    <3>2. frames[d].bp # me.bp
      BY <1>1, <1>4, <3>1 DEF PoolInv, StacksDistinct, Holding
    <3>3. SavedSP \in [Entries -> Nat]
      BY DEF PoolInv, Types
    <3>4. SavedSP'[frames[d].bp] = SavedSP[frames[d].bp]
      BY <1>4, <3>1, <3>2, <3>3
    <3> QED BY <1>2, <3>4 DEF RightFor
  <2>2. CASE frames[d].pc \notin Running
    BY <1>2, <2>2 DEF RightFor
  <2> QED BY <2>1, <2>2
<1> QED BY <1>3, <1>4 DEF Saves

(* A step that leads neither to a handler nor back from one. *)
LEMMA ElsewhereKept ==
    ASSUME PoolInv, ContextInv, depth > 0, Saves, NEW f \in Frames, Moved(f),
           f.pc \notin Running \cup Back
    PROVE  ContextInv'
<1>1. RightFor(f, depth, SavedSP')
  BY DEF RightFor
<1> QED BY <1>1, ContextKept

LEMMA SwitchStepsKeepContext ==
    ASSUME PoolInv, ContextInv,
           \/ ReadNext \/ Exchange \/ ExchangeOutside \/ StepNext
           \/ PutBack \/ Scan \/ SwitchBad
    PROVE  ContextInv'
<1>1. depth > 0 /\ me \in Frames /\ NextEntry \in Int
  BY TopFrame DEF ReadNext, Exchange, ExchangeOutside, StepNext, PutBack, Scan,
                  SwitchBad, PoolInv, Types
<1>2. Saves
  BY DEF Saves, ReadNext, Exchange, ExchangeOutside, StepNext, PutBack, Scan,
         SwitchBad, entryVars
<1>3. PICK p \in {"exchange", "switch", "scan", "test", "step", "putback"},
           b \in Int, a \in Bytes : Become(p, b, a, me.sp)
  <2>1. LastEntry \in Int
    BY StackPoolAssumption DEF LastEntry
  <2>2. CASE ReadNext \/ StepNext \/ PutBack \/ Scan \/ SwitchBad
    BY <1>1, <2>1, <2>2
    DEF ReadNext, StepNext, PutBack, Scan, SwitchBad, Go, GoWith, Frames
  <2>3. CASE Exchange \/ ExchangeOutside
    <3>1. PICK a \in Bytes : GoWith(Answered(a), me.bp, a)
      BY <2>3 DEF Exchange, ExchangeOutside, Bytes, PoolInv, Types
    <3>2. Answered(a) \in {"step", "scan", "putback"}
      BY DEF Answered, Free, Allocated, Clobbered, Bytes
    <3> QED BY <1>1, <3>1, <3>2 DEF GoWith, Frames
  <2> QED BY <2>2, <2>3
<1>4. me.sp \in Nat /\ p \in PCs /\ p \notin Running \cup Back
  BY <1>1 DEF Frames, PCs, Running, Back
<1> DEFINE f == [pc |-> p, bp |-> b, al |-> a, sp |-> me.sp]
<1>5. f \in Frames /\ Moved(f) /\ f.pc \notin Running \cup Back
  BY <1>1, <1>3, <1>4, BecomeMoves
<1> HIDE DEF f
<1> QED BY <1>1, <1>2, <1>5, ElsewhereKept

LEMMA SearchStepsKeepContext ==
    ASSUME PoolInv, ContextInv, Test \/ Claim \/ Restore
    PROVE  ContextInv'
<1>1. /\ depth > 0 /\ me \in Frames /\ me.pc \in {"test", "claim", "restore"}
      /\ me.bp \in Entries /\ AllocByte[me.bp] \in Bytes
  BY TopFrame DEF Test, Claim, Restore, PoolInv, Types, Sound
<1>2. Saves
  BY DEF Saves, Test, Claim, Restore, entryVars
<1>3. CASE \E a \in Bytes : TryBelow(a)
  <2>1. PICK a \in Bytes : TryBelow(a)
    BY <1>3
  <2>2. PICK f \in Frames : Moved(f) /\ Sound(f) /\ f.pc \notin Holding
                            /\ f.pc \notin Running \cup Back
    BY <1>1, <2>1, BelowMoves DEF Running, Back
  <2> QED BY <1>1, <1>2, <2>2, ElsewhereKept
<1>4. CASE \E p \in {"claim", "switch", "restore"}, a \in Bytes :
             GoWith(p, me.bp, a)
  <2>1. PICK p \in {"claim", "switch", "restore"}, a \in Bytes :
          GoWith(p, me.bp, a)
    BY <1>4
  <2> DEFINE f == [pc |-> p, bp |-> me.bp, al |-> a, sp |-> me.sp]
  <2>2. f \in Frames /\ Moved(f)
    BY <1>1, <2>1, BecomeMoves DEF GoWith, Frames, PCs
  <2>3. f.pc \notin Running \cup Back
    BY DEF Running, Back
  <2> HIDE DEF f
  <2> QED BY <1>1, <1>2, <2>2, <2>3, ElsewhereKept
<1>5. CASE Test
  BY <1>1, <1>3, <1>4, <1>5 DEF Test, Go, Frames
<1>6. CASE Claim
  BY <1>1, <1>3, <1>4, <1>6 DEF Claim, Free, Allocated, Clobbered, Bytes
<1>7. CASE Restore
  BY <1>1, <1>3, <1>7 DEF Restore, Frames
<1> QED BY <1>5, <1>6, <1>7

LEMMA HandlerStepsKeepContext ==
    ASSUME PoolInv, ContextInv,
           Switch \/ HandlerReturns \/ Unstack \/ Release \/ SetNext
    PROVE  ContextInv'
<1>1. /\ depth > 0 /\ me \in Frames /\ Sound(me) /\ depth \in Nat
      /\ RightFor(me, depth, SavedSP) /\ SavedSP \in [Entries -> Nat]
  BY TopFrame DEF Switch, HandlerReturns, Unstack, Release, SetNext, ContextInv,
                  me, PoolInv, Types
<1>2. Saves
  BY DEF Saves, Switch, HandlerReturns, Unstack, Release, SetNext, entryVars
<1>3. PICK p \in {"handler", "unstack", "release", "crashed", "setnext", "iret"},
           s \in Nat :
        /\ Become(p, me.bp, me.al, s)
        /\ p \in Running => SavedSP'[me.bp] = depth
        /\ p \in Back => s = depth
  <2>1. CASE Switch
    BY <1>1, <2>1 DEF Switch, Go, GoWith, Frames, Back
  <2>2. CASE HandlerReturns
    BY <1>1, <2>2
    DEF HandlerReturns, Go, GoWith, Frames, RightFor, Running, Back, entryVars
  <2>3. CASE Unstack
    <3>1. me.bp \in Entries /\ SavedSP[me.bp] = depth
      BY <1>1, <2>3 DEF Unstack, Sound, RightFor, Running
    <3>2. \E p \in {"release", "crashed"} :
            Become(p, me.bp, me.al, SavedSP[me.bp])
      BY <2>3 DEF Unstack
    <3> QED BY <1>1, <3>1, <3>2 DEF Running
  <2>4. CASE Release \/ SetNext
    BY <1>1, <2>4
    DEF Release, SetNext, Go, GoWith, Frames, RightFor, Running, Back
  <2> QED BY <2>1, <2>2, <2>3, <2>4
<1> DEFINE f == [pc |-> p, bp |-> me.bp, al |-> me.al, sp |-> s]
<1>4. f \in Frames /\ Moved(f)
  BY <1>1, <1>3, BecomeMoves DEF Frames, PCs
<1>5. RightFor(f, depth, SavedSP')
  BY <1>3 DEF RightFor
<1> HIDE DEF f
<1> QED BY <1>1, <1>2, <1>4, <1>5, ContextKept

LEMMA ArrivalsKeepContext ==
    ASSUME PoolInv, ContextInv, Arrive \/ Iret
    PROVE  ContextInv'
<1>1. frames \in Seq(Frames) /\ depth = Len(frames) /\ depth \in Nat
  BY LenProperties DEF PoolInv, Types, depth
<1>2. CASE Arrive
  <2> DEFINE f == Frame("first", 0)
  <2>1. f \in Frames /\ f.pc \notin Running \cup Back
    BY DEF Frame, Frames, PCs, Bytes, Running, Back
  <2>2. frames' = Append(frames, f) /\ UNCHANGED SavedSP
    BY <1>2 DEF Arrive, entryVars
  <2> HIDE DEF f
  <2>3. /\ depth' = depth + 1 /\ frames'[depth + 1] = f
        /\ \A d \in 1 .. depth : frames'[d] = frames[d]
    BY <1>1, <2>1, <2>2, AppendProperties DEF depth
  <2>4. \A d \in 1 .. depth + 1 : d \in 1 .. depth \/ d = depth + 1
    BY <1>1
  <2> QED BY <2>1, <2>2, <2>3, <2>4 DEF ContextInv, RightFor
<1>3. CASE Iret
  <2>1. depth - 1 \in Int /\ 1 \in Int /\ depth > 0
    BY <1>1, <1>3 DEF Iret
  <2>2. \A i \in 1 .. depth - 1 : i \in 1 .. depth /\ frames[i] \in Frames
    BY <1>1, <2>1, ElementOfSeq
  <2>3. /\ depth' = depth - 1
        /\ \A d \in 1 .. depth - 1 : frames'[d] = frames[d]
    <3>1. /\ Len(SubSeq(frames, 1, depth - 1)) = depth - 1
          /\ \A i \in 1 .. depth - 1 : SubSeq(frames, 1, depth - 1)[i] = frames[i]
      BY <1>1, <2>1, <2>2, SubSeqProperties
    <3> QED BY <1>3, <3>1 DEF Iret, depth
  <2>4. UNCHANGED SavedSP
    BY <1>3 DEF Iret, entryVars
  <2> QED BY <2>2, <2>3, <2>4 DEF ContextInv
<1> QED BY <1>2, <1>3

LEMMA ContextInvPreserved ==
    PoolInv /\ ContextInv /\ [Next]_vars => ContextInv'
<1> SUFFICES ASSUME PoolInv, ContextInv, [Next]_vars PROVE ContextInv'
  OBVIOUS
<1>1. CASE UNCHANGED vars \/ Overflow \/ HandlerCalls
  <2>1. UNCHANGED <<frames, SavedSP>>
    BY <1>1 DEF vars, entryVars, Overflow, HandlerCalls
  <2> QED BY <2>1 DEF ContextInv, depth
<1>2. CASE Irq \/ Nmi \/ Iret
  BY <1>2, ArrivalsKeepContext DEF Irq, Nmi
<1>3. CASE \/ ReadNext \/ Exchange \/ ExchangeOutside \/ StepNext
           \/ PutBack \/ Scan \/ SwitchBad
  BY <1>3, SwitchStepsKeepContext
<1>4. CASE Test \/ Claim \/ Restore
  BY <1>4, SearchStepsKeepContext
<1>5. CASE Switch \/ HandlerReturns \/ Unstack \/ Release \/ SetNext
  BY <1>5, HandlerStepsKeepContext
<1> QED BY <1>1, <1>2, <1>3, <1>4, <1>5 DEF Next, Step

(* MSSTACK.INC:184-186: an interrupt nested anywhere in the switch or the  *)
(* way back leaves its caller's dispatch alone: SS:SP is again that of the *)
(* context the interrupt found.                                            *)
THEOREM ContextAlwaysOwn == Spec => []OwnContext
<1>1. Init => ContextInv
  BY DEF Init, ContextInv, depth
<1>2. ContextInv => OwnContext
  BY DEF ContextInv, RightFor, Back, OwnContext
<1> QED BY <1>1, <1>2, ContextInvPreserved, PoolInvHolds, PTL DEF Spec

=============================================================================
