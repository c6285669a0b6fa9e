-------------------------- MODULE DeviceHighProofs --------------------------
(***************************************************************************)
(* Proofs about DeviceHigh for every arena, every set of DEVICE= and       *)
(* DEVICEHIGH= lines and of driver files: what a line changes in the       *)
(* arena's policy is put back, whatever happens; the cursor in             *)
(* conventional memory stays within it, whatever drivers return; and, for  *)
(* drivers that fit (DriversFit), the memory of chained drivers stays      *)
(* theirs.                                                                 *)
(***************************************************************************)
EXTENDS DeviceHigh, ArenaProofs

-----------------------------------------------------------------------------
(* The policy.  At each place of a line: what has been changed and not yet *)
(* been put back.                                                          *)

LowFirst == [fit |-> "first", domain |-> "low"]

NoCapOutside(S) == \A i \in DOMAIN regions : i \notin S => regions[i].limit = NoLimit

Changing == {"strategy", "filter", "profile", "alloc", "retry"}
Restoring == {"unlimit", "unfilter", "unstrategy", "unlink"}
Ordinary == {"boot", "line", "acquire", "link", "load", "init", "commit", "own", "done", "stalled"}

PolicyType ==
    /\ pc \in Ordinary \cup Changing \cup Restoring
    /\ next \in {"load", "done"}
    /\ line \in Line
    /\ todo \in SUBSET AllRegions
    /\ regions \in Seq(Region)

PolicyInv ==
    /\ PolicyType
    /\ old.strategy = LowFirst /\ old.link = FALSE /\ old.filter = AllRegions
    /\ pc \in Ordinary \cup {"strategy", "filter", "unfilter", "unstrategy", "unlink"} =>
          NoCapOutside({})
    /\ pc \in Ordinary => UmbLinked = FALSE
    /\ pc \in Ordinary \cup {"strategy", "unlink"} => AllocMethod = LowFirst
    /\ pc \in Ordinary \cup {"strategy", "filter", "unstrategy", "unlink"} \/ ~ line.explicit =>
          UmbRegionFilter = AllRegions
    /\ pc \in Changing => UmbLinked = TRUE
    /\ pc \in Changing \ {"strategy"} => AllocMethod = UpperOnly
    /\ pc \in {"filter", "profile"} => line.explicit
    /\ pc = "profile" => NoCapOutside(Capped \ todo)
    /\ pc \in {"alloc", "retry"} => NoCapOutside(Capped)
    /\ pc = "unlimit" => NoCapOutside(todo)

LEMMA DeviceLineType == DeviceLine \in Line
BY WordSizeAssumption DEF DeviceLine, Line, Word

(* The registration leaves the policy alone. *)
LEMMA RegistrationPolicy ==
    ASSUME regions \in Seq(Region), Registration
    PROVE  /\ regions' \in Seq(Region)
           /\ NoCapOutside({}) => NoCapOutside({})'
           /\ UNCHANGED <<UmbLinked, AllocMethod, CurrentPDB>>
           /\ UmbRegionFilter' \in {UmbRegionFilter, AllRegions}
BY RegistrationCalm DEF NoCapOutside, NoCap, AllRegions

(* A region loop takes the lowest region it has not done. *)
LEMMA NextRegion ==
    ASSUME todo \in SUBSET AllRegions, todo # {}
    PROVE  FirstFit(todo) \in todo
<1>1. todo \in SUBSET Nat
  BY DEF AllRegions
<1>2. \E h \in todo : \A g \in todo : h <= g
  BY <1>1, MinExists
<1> QED BY <1>2 DEF FirstFit

LEMMA CappedType ==
    ASSUME line \in Line
    PROVE  Capped \in SUBSET AllRegions /\ (Capped # {} => line.explicit)
           /\ line.mask \in SUBSET AllRegions
           /\ \A i \in AllRegions : line.minimum[i] \in Word
BY DEF Line, Capped

(* Steps between places where everything is as it was. *)
LEMMA OrdinaryPolicy ==
    ASSUME PolicyInv, PolicyType', pc \in Ordinary, pc' \in Ordinary,
           UNCHANGED <<regions, UmbLinked, AllocMethod, UmbRegionFilter>>,
           UNCHANGED old \/ old' = AllocState
    PROVE  PolicyInv'
<1>1. /\ NoCapOutside({}) /\ UmbLinked = FALSE /\ AllocMethod = LowFirst
      /\ UmbRegionFilter = AllRegions
  BY DEF PolicyInv
<1>2. old'.strategy = LowFirst /\ old'.link = FALSE /\ old'.filter = AllRegions
  BY <1>1 DEF PolicyInv, AllocState
<1>3. NoCapOutside({})'
  BY <1>1 DEF NoCapOutside
<1>4. pc' \notin Changing \cup Restoring
  BY DEF Ordinary, Changing, Restoring
<1> QED BY <1>1, <1>2, <1>3, <1>4 DEF PolicyInv, Changing, Restoring

(* RestoreThen from a place where no limit but the line's own is set. *)
LEMMA RestorePolicy ==
    ASSUME PolicyInv, PolicyType', RestoreThen(next'), NoCapOutside(Capped)',
           UNCHANGED <<UmbLinked, AllocMethod, UmbRegionFilter, old, line>>
    PROVE  PolicyInv'
<1>1. pc' = "unlimit" /\ todo' = Capped /\ Capped' = Capped
  BY DEF RestoreThen, Capped
<1>2. NoCapOutside(todo)'
  BY <1>1 DEF NoCapOutside
<1>3. ~ line.explicit => UmbRegionFilter = AllRegions
  BY DEF PolicyInv
<1> QED BY <1>1, <1>2, <1>3 DEF PolicyInv, Ordinary, Changing

LEMMA InitPolicy == DevInit => PolicyInv
<1> SUFFICES ASSUME DevInit PROVE PolicyInv
  OBVIOUS
<1>1. /\ pc = "boot" /\ next = "done" /\ line \in Line /\ todo = {} /\ old = AllocState
      /\ regions = <<>> /\ UmbLinked = FALSE /\ UmbRegionFilter = AllRegions
      /\ AllocMethod = LowFirst
  BY DeviceLineType DEF DevInit, Init, AllRegions, LowFirst
<1>2. old.strategy = LowFirst /\ old.link = FALSE /\ old.filter = AllRegions
  BY <1>1 DEF AllocState
<1>3. NoCapOutside({}) /\ regions \in Seq(Region)
  BY <1>1 DEF NoCapOutside
<1> QED BY <1>1, <1>2, <1>3 DEF PolicyInv, PolicyType, Ordinary, Changing, Restoring

LEMMA LinesKeepPolicy ==
    ASSUME PolicyInv,
           \/ TakeMemory \/ NextLine \/ SaveState \/ Acquire \/ TooBigLow \/ Load
           \/ LinkDevice \/ InitStalls \/ CommitSize
           \/ \E d \in Drivers : DevicePlainLine(d) \/ \E l \in Lines : DeviceHighLine(l, d)
    PROVE  PolicyInv'
<1> USE DEF vars, umbVars, profileVars, lineVars, idleVars, devVars
<1>t. PolicyType
  BY DEF PolicyInv
<1>1. CASE TakeMemory
  <2>1. /\ UNCHANGED <<regions, UmbLinked, AllocMethod, UmbRegionFilter>>
        /\ UNCHANGED <<next, line, old, todo>> /\ pc = "boot" /\ pc' = "line"
    BY <1>1, Zenon DEF TakeMemory, AllocOk
  <2> QED BY <1>t, <2>1, OrdinaryPolicy DEF PolicyType, Ordinary
<1>2. CASE NextLine
  <2>1. /\ UNCHANGED <<regions, UmbLinked, AllocMethod, UmbRegionFilter>>
        /\ next' = "done" /\ todo' = {} /\ line' \in Line /\ old' = AllocState
        /\ pc = "done" /\ pc' = "line"
    BY <1>2, DeviceLineType DEF NextLine
  <2> QED BY <1>t, <2>1, OrdinaryPolicy DEF PolicyType, Ordinary
<1>3. CASE SaveState
  <2>1. /\ UNCHANGED <<regions, UmbLinked, AllocMethod, UmbRegionFilter>>
        /\ UNCHANGED <<next, line, todo>> /\ old' = AllocState
        /\ pc = "acquire" /\ pc' \in {"load", "link"}
    BY <1>3 DEF SaveState
  <2> QED BY <1>t, <2>1, OrdinaryPolicy DEF PolicyType, Ordinary
<1>4. CASE Acquire
  <2>1. /\ pc = "acquire" /\ Registration
        /\ UNCHANGED <<pc, next, line, old, todo>>
    BY <1>4 DEF Acquire
  <2>2. /\ regions' \in Seq(Region)
        /\ NoCapOutside({}) => NoCapOutside({})'
        /\ UNCHANGED <<UmbLinked, AllocMethod>>
        /\ UmbRegionFilter' \in {UmbRegionFilter, AllRegions}
    BY <1>t, <2>1, RegistrationPolicy DEF PolicyType
  <2>3. NoCapOutside({}) /\ UmbLinked = FALSE /\ AllocMethod = LowFirst
        /\ UmbRegionFilter = AllRegions
    BY <2>1 DEF PolicyInv, Ordinary
  <2>4. PolicyType'
    BY <1>t, <2>1, <2>2 DEF PolicyType
  <2> QED BY <2>1, <2>2, <2>3, <2>4 DEF PolicyInv, Ordinary, Changing
<1>5. CASE TooBigLow \/ Load \/ LinkDevice \/ InitStalls
  <2>1. /\ UNCHANGED <<regions, UmbLinked, AllocMethod, UmbRegionFilter>>
        /\ UNCHANGED <<next, line, old, todo>>
        /\ pc \in {"load", "init"} /\ pc' \in {"stalled", "init", "commit", "done"}
    BY <1>5 DEF TooBigLow, Load, LinkDevice, InitStalls
  <2> QED BY <1>t, <2>1, OrdinaryPolicy DEF PolicyType, Ordinary
<1>6. CASE CommitSize
  <2>1. /\ UNCHANGED <<regions, UmbLinked, AllocMethod, UmbRegionFilter>>
        /\ UNCHANGED <<next, line, old, todo>> /\ pc = "commit" /\ pc' = "own"
    BY <1>6, Zenon DEF CommitSize, SetBlock
  <2> QED BY <1>t, <2>1, OrdinaryPolicy DEF PolicyType, Ordinary
<1>7. CASE \E d \in Drivers : DevicePlainLine(d) \/ \E l \in Lines : DeviceHighLine(l, d)
  <2>1. /\ UNCHANGED <<regions, UmbLinked, AllocMethod, UmbRegionFilter>>
        /\ UNCHANGED <<next, old, todo>> /\ line' \in Line
        /\ pc = "line" /\ pc' \in {"load", "acquire"}
    BY <1>7, DeviceLineType, DeviceHighAssumption DEF DevicePlainLine, DeviceHighLine
  <2> QED BY <1>t, <2>1, OrdinaryPolicy DEF PolicyType, Ordinary
<1> QED BY <1>1, <1>2, <1>3, <1>4, <1>5, <1>6, <1>7

(* A line that fails, or commits its block. *)
LEMMA FailKeepsPolicy ==
    ASSUME PolicyInv, pc \in Ordinary, NEW k \in {"load", "done"}, NEW memhi,
           Fail(k, memhi), UNCHANGED <<line, old>>
    PROVE  PolicyInv'
<1> USE DEF vars, umbVars, profileVars
<1>t. PolicyType /\ NoCapOutside({})
  BY DEF PolicyInv, Ordinary
<1>1. CASE high.active
  <2>1. Dealloc(high.block - 1) /\ RestoreThen(k)
    BY <1>1 DEF Fail
  <2>2. UNCHANGED <<regions, UmbLinked, AllocMethod, UmbRegionFilter>>
    BY <2>1, Zenon DEF Dealloc
  <2>3. next' = k /\ pc' = "unlimit" /\ todo' = Capped /\ RestoreThen(next')
    BY <2>1 DEF RestoreThen
  <2>4. PolicyType' /\ NoCapOutside(Capped)'
    BY <1>t, <2>2, <2>3, CappedType DEF PolicyType, Restoring, NoCapOutside
  <2> QED BY <2>2, <2>3, <2>4, RestorePolicy
<1>2. CASE ~ high.active
  <2>1. UNCHANGED <<regions, UmbLinked, AllocMethod, UmbRegionFilter, next, todo>> /\ pc' = k
    BY <1>2 DEF Fail
  <2> QED BY <1>t, <2>1, OrdinaryPolicy DEF PolicyType, Ordinary
<1> QED BY <1>1, <1>2

LEMMA EndsKeepPolicy ==
    ASSUME PolicyInv,
           NotLoaded \/ TooBigHigh \/ EraseDevice \/ BadSector \/ CommitOwner
    PROVE  PolicyInv'
<1> USE DEF vars, umbVars, profileVars, lineVars
<1>1. CASE NotLoaded \/ TooBigHigh \/ EraseDevice \/ BadSector
  <2>1. PICK k \in {"load", "done"} : \E memhi : Fail(k, memhi)
    BY <1>1 DEF NotLoaded, TooBigHigh, EraseDevice, BadSector
  <2>2. pc \in Ordinary /\ UNCHANGED <<line, old>>
    BY <1>1 DEF NotLoaded, TooBigHigh, EraseDevice, BadSector, Ordinary
  <2> QED BY <2>1, <2>2, FailKeepsPolicy
<1>2. CASE CommitOwner
  <2>1. /\ RestoreThen("done") /\ pc = "own"
        /\ UNCHANGED <<regions, UmbLinked, AllocMethod, UmbRegionFilter, line, old>>
    BY <1>2, Zenon DEF CommitOwner
  <2>2. next' = "done" /\ pc' = "unlimit" /\ todo' = Capped /\ RestoreThen(next')
    BY <2>1 DEF RestoreThen
  <2>3. PolicyType /\ NoCapOutside({})
    BY <2>1 DEF PolicyInv, Ordinary
  <2>4. PolicyType' /\ NoCapOutside(Capped)'
    BY <2>1, <2>2, <2>3, CappedType DEF PolicyType, Restoring, NoCapOutside
  <2> QED BY <2>1, <2>2, <2>4, RestorePolicy
<1> QED BY <1>1, <1>2

(* The policy of the line is set ... *)
LEMMA ChangingKeepsPolicy ==
    ASSUME PolicyInv, Link \/ Strategy \/ SelectRegions \/ ProfileDone
    PROVE  PolicyInv'
<1> USE DEF vars, umbVars, profileVars, lineVars
<1>t. PolicyType /\ line \in Line
  BY DEF PolicyInv, PolicyType
<1>1. CASE Link
  <2>1. /\ pc = "link" /\ pc' = "strategy" /\ UmbLinked' = TRUE
        /\ UNCHANGED <<regions, AllocMethod, UmbRegionFilter, next, line, old, todo>>
    BY <1>1, Zenon DEF Link, PutLink, SetLink
  <2>2. NoCapOutside({}) /\ AllocMethod = LowFirst /\ UmbRegionFilter = AllRegions
    BY <2>1 DEF PolicyInv, Ordinary
  <2> QED BY <1>t, <2>1, <2>2 DEF PolicyInv, PolicyType, Ordinary, Changing, NoCapOutside
<1>2. CASE Strategy
  <2>1. /\ pc = "strategy" /\ pc' = IF line.explicit THEN "filter" ELSE "alloc"
        /\ AllocMethod' = UpperOnly
        /\ UNCHANGED <<regions, UmbLinked, UmbRegionFilter, next, line, old, todo>>
    BY <1>2 DEF Strategy, SetMethod
  <2>2. NoCapOutside({}) /\ UmbLinked = TRUE /\ UmbRegionFilter = AllRegions
    BY <2>1 DEF PolicyInv, Ordinary, Changing
  <2>3. NoCapOutside({})' /\ NoCapOutside(Capped)'
    BY <2>1, <2>2 DEF NoCapOutside
  <2>4. PolicyType'
    BY <1>t, <2>1 DEF PolicyType, Changing
  <2>5. pc' \in {"filter", "alloc"} /\ (pc' = "filter" => line.explicit)
    BY <2>1
  <2> QED BY <2>1, <2>2, <2>3, <2>4, <2>5 DEF PolicyInv, Ordinary, Changing
<1>3. CASE SelectRegions
  <2>1. /\ pc = "filter" /\ pc' = "profile"
        /\ UmbRegionFilter' = line.mask /\ todo' = line.mask
        /\ UNCHANGED <<regions, UmbLinked, AllocMethod, next, line, old>>
    BY <1>3 DEF SelectRegions, SetRegionFilter
  <2>2. NoCapOutside({}) /\ UmbLinked = TRUE /\ AllocMethod = UpperOnly /\ line.explicit
    BY <2>1 DEF PolicyInv, Ordinary, Changing
  <2>3. NoCapOutside(Capped \ todo)' /\ line.mask \in SUBSET AllRegions
    BY <1>t, <2>1, <2>2, CappedType DEF NoCapOutside
  <2>4. PolicyType'
    BY <1>t, <2>1, <2>3 DEF PolicyType, Changing
  <2> QED BY <2>1, <2>2, <2>3, <2>4 DEF PolicyInv, Ordinary, Changing
<1>4. CASE ProfileDone
  <2>1. /\ pc = "profile" /\ pc' = "alloc" /\ todo = {}
        /\ UNCHANGED <<regions, UmbLinked, AllocMethod, UmbRegionFilter, next, line, old, todo>>
    BY <1>4 DEF ProfileDone
  <2>2. UmbLinked = TRUE /\ AllocMethod = UpperOnly /\ line.explicit /\ NoCapOutside(Capped)
    BY <2>1 DEF PolicyInv, Changing, NoCapOutside
  <2>3. NoCapOutside(Capped)'
    BY <2>1, <2>2 DEF NoCapOutside, Capped
  <2>4. PolicyType'
    BY <1>t, <2>1 DEF PolicyType, Changing
  <2> QED BY <2>1, <2>2, <2>3, <2>4 DEF PolicyInv, Ordinary, Changing
<1> QED BY <1>1, <1>2, <1>3, <1>4

(* ... region by region ... *)
LEMMA RegionsKeepPolicy ==
    ASSUME PolicyInv, ProfileRefused \/ ProfileRegion
    PROVE  PolicyInv'
<1> USE DEF vars, umbVars, profileVars, lineVars
<1>t. PolicyType /\ line \in Line
  BY DEF PolicyInv, PolicyType
<1>p. pc = "profile" /\ todo # {}
  BY DEF ProfileRefused, ProfileRegion
<1>i. /\ UmbLinked = TRUE /\ AllocMethod = UpperOnly /\ line.explicit
      /\ NoCapOutside(Capped \ todo)
  BY <1>p DEF PolicyInv, Changing
<1>1. CASE ProfileRefused
  <2>1. /\ RestoreThen("load")
        /\ UNCHANGED <<regions, UmbLinked, AllocMethod, UmbRegionFilter, line, old>>
    BY <1>1, Zenon DEF ProfileRefused
  <2>2. next' = "load" /\ pc' = "unlimit" /\ todo' = Capped /\ RestoreThen(next')
    BY <2>1 DEF RestoreThen
  <2>3. NoCapOutside(Capped)'
    BY <1>i, <2>1 DEF NoCapOutside, Capped
  <2>4. PolicyType'
    BY <1>t, <2>1, <2>2, CappedType DEF PolicyType, Restoring
  <2> QED BY <2>1, <2>2, <2>3, <2>4, RestorePolicy
<1>2. CASE ProfileRegion
  <2> DEFINE i == FirstFit(todo)
  <2>1. /\ ~ RegionRefused(i)
        /\ IF i \in Capped THEN SetRegionLimit(i, line.minimum[i]) ELSE UNCHANGED vars
        /\ todo' = todo \ {i}
        /\ UNCHANGED <<pc, next, line, old>>
    BY <1>2, Zenon DEF ProfileRegion
  <2>2. i \in todo /\ i \in AllRegions
    BY <1>t, <1>p, NextRegion DEF PolicyType
  <2>3. i \in DOMAIN regions
    BY <2>1 DEF RegionRefused
  <2>4. line.minimum[i] \in Word
    BY <1>t, <2>2, CappedType
  <2> HIDE DEF i
  <2>5. CASE i \in Capped
    <3>1. SetRegionLimit(i, line.minimum[i])
      BY <2>1, <2>5
    <3>2. /\ regions' \in Seq(Region) /\ DOMAIN regions' = DOMAIN regions
          /\ \A j \in DOMAIN regions :
                regions'[j].limit = IF j = i THEN line.minimum[i] ELSE regions[j].limit
          /\ UNCHANGED <<UmbLinked, AllocMethod, UmbRegionFilter>>
      BY <1>t, <2>3, <2>4, <3>1, LimitSet DEF PolicyType
    <3>3. NoCapOutside(Capped \ todo)'
      BY <1>i, <2>1, <2>5, <3>2 DEF NoCapOutside, Capped
    <3> QED BY <1>t, <1>i, <1>p, <2>1, <3>2, <3>3 DEF PolicyInv, PolicyType, Ordinary, Changing
  <2>6. CASE i \notin Capped
    <3>1. UNCHANGED <<regions, UmbLinked, AllocMethod, UmbRegionFilter>>
      BY <2>1, <2>6
    <3>2. NoCapOutside(Capped \ todo)'
      BY <1>i, <2>1, <2>6, <3>1 DEF NoCapOutside, Capped
    <3> QED BY <1>t, <1>i, <1>p, <2>1, <3>1, <3>2 DEF PolicyInv, PolicyType, Ordinary, Changing
  <2> QED BY <2>5, <2>6
<1> QED BY <1>1, <1>2

LEMMA AllocationKeepsPolicy ==
    ASSUME PolicyInv, AskLargest \/ TakeLargest
    PROVE  PolicyInv'
<1> USE DEF vars, umbVars, profileVars, lineVars
<1>t. PolicyType /\ line \in Line
  BY DEF PolicyInv, PolicyType
<1>1. /\ pc \in {"alloc", "retry"}
      /\ UNCHANGED <<regions, UmbLinked, AllocMethod, UmbRegionFilter, line, old>>
      /\ RestoreThen("load") \/ (pc' = "retry" /\ UNCHANGED <<next, todo>>)
  BY Zenon DEF AskLargest, TakeLargest, AllocFail, AllocOk
<1>i. UmbLinked = TRUE /\ AllocMethod = UpperOnly /\ NoCapOutside(Capped)
  BY <1>1 DEF PolicyInv, Changing
<1>2. NoCapOutside(Capped)'
  BY <1>1, <1>i DEF NoCapOutside, Capped
<1>3. CASE RestoreThen("load")
  <2>1. next' = "load" /\ pc' = "unlimit" /\ todo' = Capped /\ RestoreThen(next')
    BY <1>3 DEF RestoreThen
  <2>2. PolicyType'
    BY <1>t, <1>1, <2>1, CappedType DEF PolicyType, Restoring
  <2> QED BY <1>1, <1>2, <2>1, <2>2, RestorePolicy
<1>4. CASE pc' = "retry" /\ UNCHANGED <<next, todo>>
  <2>1. PolicyType'
    BY <1>t, <1>1, <1>4 DEF PolicyType, Changing
  <2> QED BY <1>1, <1>2, <1>4, <1>i, <2>1 DEF PolicyInv, Ordinary, Changing
<1> QED BY <1>1, <1>3, <1>4

(* ... and put back. *)
LEMMA RestoringKeepsPolicy ==
    ASSUME PolicyInv, Unlimit \/ Unfilter \/ Unstrategy \/ Unlink
    PROVE  PolicyInv'
<1> USE DEF vars, umbVars, profileVars, lineVars
<1>t. PolicyType /\ line \in Line
  BY DEF PolicyInv, PolicyType
<1>1. CASE Unlimit /\ todo = {}
  <2>1. /\ pc = "unlimit" /\ pc' = "unfilter"
        /\ UNCHANGED <<regions, UmbLinked, AllocMethod, UmbRegionFilter, next, line, old, todo>>
    BY <1>1, Zenon DEF Unlimit
  <2>2. NoCapOutside({}) /\ NoCapOutside({})'
    BY <1>1, <2>1 DEF PolicyInv, NoCapOutside
  <2>3. PolicyType'
    BY <1>t, <2>1 DEF PolicyType, Restoring
  <2>4. pc' \notin Ordinary \cup Changing
    BY <2>1 DEF Ordinary, Changing
  <2> QED BY <2>1, <2>2, <2>3, <2>4 DEF PolicyInv, Changing
<1>2. CASE Unlimit /\ todo # {}
  <2> DEFINE i == FirstFit(todo)
  <2>1. /\ IF i \in DOMAIN regions THEN SetRegionLimit(i, NoLimit) ELSE UNCHANGED vars
        /\ todo' = todo \ {i} /\ pc = "unlimit"
        /\ UNCHANGED <<pc, next, line, old>>
    BY <1>2, Zenon DEF Unlimit
  <2>2. NoCapOutside(todo) /\ (~ line.explicit => UmbRegionFilter = AllRegions)
    BY <2>1 DEF PolicyInv
  <2>3. NoLimit \in Word
    BY WordSizeAssumption DEF NoLimit, Word
  <2> HIDE DEF i
  <2>4. /\ regions' \in Seq(Region) /\ UNCHANGED <<UmbLinked, AllocMethod, UmbRegionFilter>>
        /\ NoCapOutside(todo)'
    <3>1. CASE i \in DOMAIN regions
      <4>1. SetRegionLimit(i, NoLimit)
        BY <2>1, <3>1
      <4> QED BY <1>t, <2>1, <2>2, <2>3, <3>1, <4>1, LimitSet DEF PolicyType, NoCapOutside
    <3>2. CASE i \notin DOMAIN regions
      BY <1>t, <2>1, <2>2, <3>2 DEF PolicyType, NoCapOutside
    <3> QED BY <3>1, <3>2
  <2>5. PolicyType'
    BY <1>t, <2>1, <2>4 DEF PolicyType
  <2> QED BY <2>1, <2>2, <2>4, <2>5 DEF PolicyInv, Ordinary, Changing
<1>3. CASE Unfilter
  <2>1. /\ pc = "unfilter" /\ pc' = "unstrategy"
        /\ IF line.explicit THEN UmbRegionFilter' = old.filter ELSE UNCHANGED UmbRegionFilter
        /\ UNCHANGED <<regions, UmbLinked, AllocMethod, next, line, old, todo>>
    BY <1>3 DEF Unfilter, SetRegionFilter
  <2>2. UmbRegionFilter' = AllRegions /\ NoCapOutside({}) /\ NoCapOutside({})'
    BY <2>1 DEF PolicyInv, NoCapOutside
  <2> QED BY <1>t, <2>1, <2>2 DEF PolicyInv, PolicyType, Ordinary, Changing, Restoring
<1>4. CASE Unstrategy
  <2>1. /\ pc = "unstrategy" /\ pc' = "unlink"
        /\ AllocMethod' = old.strategy
        /\ UNCHANGED <<regions, UmbLinked, UmbRegionFilter, next, line, old, todo>>
    BY <1>4 DEF Unstrategy, SetMethod
  <2>2. /\ AllocMethod' = LowFirst /\ UmbRegionFilter = AllRegions
        /\ NoCapOutside({}) /\ NoCapOutside({})'
    BY <2>1 DEF PolicyInv, NoCapOutside
  <2> QED BY <1>t, <2>1, <2>2 DEF PolicyInv, PolicyType, Ordinary, Changing, Restoring
<1>5. CASE Unlink
  <2>1. /\ pc = "unlink" /\ pc' = next /\ UmbLinked' = old.link
        /\ UNCHANGED <<regions, AllocMethod, UmbRegionFilter, next, line, old, todo>>
    BY <1>5, Zenon DEF Unlink, PutLink, SetLink
  <2>2. /\ AllocMethod = LowFirst /\ UmbRegionFilter = AllRegions /\ UmbLinked' = FALSE
        /\ NoCapOutside({}) /\ NoCapOutside({})'
    BY <2>1 DEF PolicyInv, NoCapOutside
  <2> QED BY <1>t, <2>1, <2>2 DEF PolicyInv, PolicyType, Ordinary, Changing, Restoring
<1> QED BY <1>1, <1>2, <1>3, <1>4, <1>5

LEMMA PolicySpec == DevSpec => []PolicyInv
<1>1. PolicyInv /\ [DevNext]_<<vars, devVars>> => PolicyInv'
  <2>1. ASSUME PolicyInv, UNCHANGED <<vars, devVars>> PROVE PolicyInv'
    BY <2>1 DEF PolicyInv, PolicyType, NoCapOutside, Capped, vars, umbVars, profileVars, devVars
  <2>2. ASSUME PolicyInv, DevNext PROVE PolicyInv'
    BY <2>2, LinesKeepPolicy, EndsKeepPolicy, ChangingKeepsPolicy, RegionsKeepPolicy,
       AllocationKeepsPolicy, RestoringKeepsPolicy DEF DevNext, DevStep
  <2> QED BY <2>1, <2>2
<1> QED BY <1>1, InitPolicy, PTL DEF DevSpec

(* What a DEVICE= or DEVICEHIGH= line changes in the strategy, the link    *)
(* state, the region filter and the limits is as it was whenever INIT runs *)
(* and after the line, whatever the outcome (SYSCONF.ASM).                 *)
THEOREM PolicyPutBack == DevSpec => []PolicyOnlyInTransaction
<1>1. PolicyInv => PolicyOnlyInTransaction
  BY DEF PolicyInv, PolicyOnlyInTransaction, AllocState, Ordinary, NoCapOutside, LowFirst
<1> QED BY <1>1, PolicySpec, PTL

-----------------------------------------------------------------------------
(* The conventional cursor, for every driver file: nothing is asked of the *)
(* break addresses that INIT returns, of DPBs or of later devices.         *)

LowType ==
    /\ driver \in Drivers \cup {NoDriver} /\ rest \in Seq(Device)
    /\ DOMAIN high = {"active", "block", "size", "low"} /\ high.active \in BOOLEAN
    /\ LowEnd \in Int

(* Where a line may have a high block, and where it must.                  *)
LowPlaces ==
    /\ pc \in {"boot", "line", "acquire", "link", "done"} \cup Changing => ~ high.active
    /\ pc \in Restoring /\ next = "done" => ~ high.active
    /\ pc \in {"commit", "own"} => high.active

LowInv ==
    /\ LowType /\ LowPlaces /\ LowCursorInBounds
    /\ pc = "init" => driver \in Drivers /\ rest # <<>>
    /\ pc = "init" /\ ~ high.active => load \in Int /\ Area < load /\ load <= MEMHI

LEMMA LowAddresses ==
    /\ Area \in Nat /\ AllocLim \in Nat /\ Area <= AllocLim
BY ArenaAssumption, DeviceHighAssumption, WordSizeAssumption DEF Area, Word

LEMMA InitLow == DevInit => LowInv
<1> SUFFICES ASSUME DevInit PROVE LowInv
  OBVIOUS
<1>1. /\ pc = "boot" /\ high = NotHigh /\ MEMHI = Area /\ driver = NoDriver /\ rest = <<>>
  BY DEF DevInit
<1>2. LowEnd = Area /\ LowType
  BY <1>1, LowAddresses DEF LowEnd, NotHigh, LowType
<1> QED BY <1>1, <1>2, LowAddresses
        DEF LowInv, LowPlaces, LowCursorInBounds, NotHigh

(* Steps that move neither MEMHI nor the high block. *)
LEMMA LowSame ==
    ASSUME LowInv, UNCHANGED <<high, MEMHI>>, LowPlaces', pc' # "init",
           driver' \in Drivers \cup {NoDriver}, rest' \in Seq(Device)
    PROVE  LowInv'
<1>1. LowEnd' = LowEnd
  BY DEF LowEnd
<1>2. LowType' /\ LowCursorInBounds'
  BY <1>1 DEF LowInv, LowType, LowCursorInBounds
<1> QED BY <1>2 DEF LowInv

LEMMA LinesLow ==
    ASSUME LowInv,
           \/ TakeMemory \/ NextLine \/ SaveState \/ Link \/ Strategy \/ SelectRegions
           \/ ProfileDone \/ ProfileRefused \/ TooBigLow \/ InitStalls \/ CommitSize
           \/ \E d \in Drivers : DevicePlainLine(d) \/ \E l \in Lines : DeviceHighLine(l, d)
    PROVE  LowInv'
<1> USE DEF lineVars, idleVars
<1>t. LowPlaces /\ driver \in Drivers \cup {NoDriver} /\ rest \in Seq(Device)
  BY DEF LowInv, LowType
<1>1. CASE TakeMemory \/ SaveState \/ Link \/ Strategy \/ SelectRegions \/ ProfileDone
  <2>1. /\ UNCHANGED <<high, MEMHI, driver, rest>> /\ pc \notin Restoring \cup {"commit", "own"}
        /\ pc \in {"boot", "acquire", "link"} \cup Changing
        /\ pc' \in {"line", "link", "load"} \cup Changing
    BY <1>1 DEF TakeMemory, SaveState, Link, Strategy, SelectRegions, ProfileDone,
                Changing, Restoring
  <2> QED BY <1>t, <2>1, LowSame DEF LowPlaces, Changing, Restoring
<1>2. CASE NextLine
  <2>1. /\ UNCHANGED <<high, MEMHI>> /\ pc = "done" /\ pc' = "line"
        /\ driver' = NoDriver /\ rest' = <<>>
    BY <1>2 DEF NextLine
  <2> QED BY <1>t, <2>1, LowSame DEF LowPlaces, Changing, Restoring
<1>3. CASE \E d \in Drivers : DevicePlainLine(d) \/ \E l \in Lines : DeviceHighLine(l, d)
  <2>1. /\ UNCHANGED <<high, MEMHI, rest>> /\ pc = "line" /\ pc' \in {"load", "acquire"}
        /\ driver' \in Drivers
    BY <1>3 DEF DevicePlainLine, DeviceHighLine
  <2> QED BY <1>t, <2>1, LowSame DEF LowPlaces, Changing, Restoring
<1>4. CASE ProfileRefused
  <2>1. /\ UNCHANGED <<high, MEMHI, driver, rest>> /\ pc = "profile" /\ pc' = "unlimit"
        /\ next' = "load"
    BY <1>4, Zenon DEF ProfileRefused, RestoreThen
  <2> QED BY <1>t, <2>1, LowSame DEF LowPlaces, Changing, Restoring
<1>5. CASE TooBigLow \/ InitStalls \/ CommitSize
  <2>1. /\ UNCHANGED <<high, MEMHI, driver, rest>>
        /\ \/ pc' = "stalled"
           \/ pc = "commit" /\ pc' = "own"
    BY <1>5 DEF TooBigLow, InitStalls, CommitSize
  <2> QED BY <1>t, <2>1, LowSame DEF LowPlaces, Changing, Restoring
<1> QED BY <1>1, <1>2, <1>3, <1>4, <1>5

(* The state is put back, or nothing of the line changes. *)
LEMMA RestoringLow ==
    ASSUME LowInv, PolicyInv,
           Acquire \/ ProfileRegion \/ Unlimit \/ Unfilter \/ Unstrategy \/ Unlink
    PROVE  LowInv'
<1> USE DEF lineVars, devVars
<1>t. /\ LowPlaces /\ driver \in Drivers \cup {NoDriver} /\ rest \in Seq(Device)
      /\ next \in {"load", "done"}
  BY DEF LowInv, LowType, PolicyInv, PolicyType
<1>1. CASE Acquire \/ ProfileRegion
  <2>1. /\ UNCHANGED <<high, MEMHI, driver, rest, pc, next>> /\ pc \in {"acquire", "profile"}
    BY <1>1 DEF Acquire, ProfileRegion
  <2> QED BY <1>t, <2>1, LowSame DEF LowPlaces, Changing, Restoring
<1>2. CASE Unlimit \/ Unfilter \/ Unstrategy
  <2>1. /\ UNCHANGED <<high, MEMHI, driver, rest, next>>
        /\ pc \in Restoring /\ pc' \in Restoring
    BY <1>2 DEF Unlimit, Unfilter, Unstrategy, Restoring
  <2> QED BY <1>t, <2>1, LowSame DEF LowPlaces, Changing, Restoring
<1>3. CASE Unlink
  <2>1. /\ UNCHANGED <<high, MEMHI, driver, rest, next>> /\ pc = "unlink" /\ pc' = next
    BY <1>3 DEF Unlink
  <2> QED BY <1>t, <2>1, LowSame DEF LowPlaces, Changing, Restoring
<1> QED BY <1>1, <1>2, <1>3

(* MEMHI moves into a high block: its conventional value is kept in low.   *)
LEMMA HighBlockLow ==
    ASSUME LowInv, AskLargest \/ TakeLargest
    PROVE  LowInv'
<1> USE DEF lineVars
<1>t. /\ driver \in Drivers \cup {NoDriver} /\ rest \in Seq(Device) /\ ~ high.active
      /\ DOMAIN high = {"active", "block", "size", "low"}
      /\ LowEnd = MEMHI /\ MEMHI \in Int /\ Area <= MEMHI /\ MEMHI <= AllocLim
  BY DEF LowInv, LowType, LowPlaces, LowCursorInBounds, LowEnd, AskLargest, TakeLargest, Changing
<1>1. CASE AskLargest
  <2>1. /\ UNCHANGED <<MEMHI, driver, rest>>
        /\ \/ high' = high /\ pc' = "unlimit" /\ next' = "load"
           \/ high' = [high EXCEPT !.size = Largest] /\ pc' = "retry"
    BY <1>1, Zenon DEF AskLargest, RestoreThen
  <2>2. ~ high'.active /\ high'.active \in BOOLEAN
        /\ DOMAIN high' = {"active", "block", "size", "low"}
    BY <1>t, <2>1 DEF LowInv, LowType
  <2>3. LowEnd' = MEMHI
    BY <2>1, <2>2 DEF LowEnd
  <2> QED BY <1>t, <2>1, <2>2, <2>3
          DEF LowInv, LowType, LowPlaces, LowCursorInBounds, Changing, Restoring
<1>2. CASE TakeLargest
  <2>1. /\ UNCHANGED <<driver, rest>> /\ pc' = "unlimit" /\ next' = "load"
        /\ high' = [high EXCEPT !.active = TRUE, !.block = MEMHI', !.low = MEMHI]
    BY <1>2, Zenon DEF TakeLargest, RestoreThen
  <2>2. high'.active = TRUE /\ high'.low = MEMHI
        /\ DOMAIN high' = {"active", "block", "size", "low"}
    BY <1>t, <2>1
  <2>3. LowEnd' = MEMHI
    BY <2>2 DEF LowEnd
  <2> QED BY <1>t, <2>1, <2>2, <2>3
          DEF LowInv, LowType, LowPlaces, LowCursorInBounds, Changing, Restoring
<1> QED BY <1>1, <1>2

(* The line ends, or goes on low; a failing one in conventional memory may *)
(* give memory back, but none below its own load address.                  *)
LEMMA FailLow ==
    ASSUME LowInv, NEW k \in {"load", "done"}, NEW memhi, Fail(k, memhi),
           UNCHANGED <<driver, rest>>,
           ~ high.active => memhi \in Int /\ Area <= memhi /\ memhi <= AllocLim
    PROVE  LowInv'
<1>1. CASE high.active
  <2>1. /\ MEMHI' = high.low /\ high' = NotHigh /\ pc' = "unlimit"
        /\ LowEnd = high.low
    BY <1>1 DEF Fail, RestoreThen, LowEnd
  <2>2. LowEnd' = LowEnd
    BY <2>1 DEF LowEnd, NotHigh
  <2> QED BY <2>1, <2>2
          DEF LowInv, LowType, LowPlaces, LowCursorInBounds, NotHigh, Changing, Restoring
<1>2. CASE ~ high.active
  <2>1. MEMHI' = memhi /\ UNCHANGED <<high, next>> /\ pc' = k
    BY <1>2 DEF Fail
  <2>2. LowEnd' = memhi
    BY <1>2, <2>1 DEF LowEnd
  <2> QED BY <1>2, <2>1, <2>2
          DEF LowInv, LowType, LowPlaces, LowCursorInBounds, Changing, Restoring
<1> QED BY <1>1, <1>2

(* What is known of the device whose INIT returns. *)
LEMMA DeviceLow ==
    ASSUME LowInv, pc = "init"
    PROVE  /\ Head(rest).units \in Nat /\ driver.keep \in Nat /\ Tail(rest) \in Seq(Device)
           /\ ~ high.active => /\ load \in Int /\ Area < load /\ load <= MEMHI
                               /\ MEMHI \in Int /\ MEMHI <= AllocLim
                               /\ AfterBreak \in Int /\ load <= AfterBreak
                               /\ BreakFailed => AfterBreak = MEMHI
<1>1. driver \in Drivers /\ rest # <<>> /\ rest \in Seq(Device)
  BY DEF LowInv, LowType
<1>2. driver \in Driver
  BY <1>1, DeviceHighAssumption
<1>3. driver.keep \in Nat
  BY <1>2 DEF Driver, Word
<1>4. Head(rest) \in Device /\ Tail(rest) \in Seq(Device)
  BY <1>1
<1>5. Head(rest).units \in Nat
  BY <1>4, DeviceHighAssumption DEF Device
<1>6. ASSUME ~ high.active
      PROVE  /\ load \in Int /\ Area < load /\ load <= MEMHI
             /\ MEMHI \in Int /\ MEMHI <= AllocLim
             /\ AfterBreak \in Int /\ load <= AfterBreak
             /\ BreakFailed => AfterBreak = MEMHI
  <2>1. load \in Int /\ Area < load /\ load <= MEMHI /\ MEMHI \in Int /\ MEMHI <= AllocLim
    BY <1>6 DEF LowInv, LowType, LowCursorInBounds, LowEnd
  <2> QED BY <1>3, <2>1 DEF AfterBreak, BreakAddr
<1> QED BY <1>3, <1>4, <1>5, <1>6

LEMMA EndsLow ==
    ASSUME LowInv, NotLoaded \/ TooBigHigh \/ EraseDevice \/ BadSector \/ CommitOwner
    PROVE  LowInv'
<1> USE DEF lineVars
<1>t. ~ high.active => MEMHI \in Int /\ Area <= MEMHI /\ MEMHI <= AllocLim
  BY DEF LowInv, LowType, LowCursorInBounds, LowEnd
<1>1. CASE NotLoaded
  BY <1>1, <1>t, FailLow DEF NotLoaded
<1>2. CASE TooBigHigh
  BY <1>2, FailLow DEF TooBigHigh
<1>3. CASE EraseDevice
  <2> DEFINE memhi == IF BreakDone THEN MEMHI ELSE MEMHI - 1
  <2>1. pc = "init" /\ Fail("done", memhi) /\ UNCHANGED <<driver, rest>>
    BY <1>3 DEF EraseDevice
  <2>2. ~ high.active => memhi \in Int /\ Area <= memhi /\ memhi <= AllocLim
    BY <1>t, <2>1, DeviceLow, LowAddresses
  <2> HIDE DEF memhi
  <2> QED BY <2>1, <2>2, FailLow
<1>4. CASE BadSector
  <2> DEFINE memhi == AfterBreak + Head(rest).units - IF BreakFailed THEN 1 ELSE 0
  <2>1. /\ pc = "init" /\ Fail("done", memhi) /\ UNCHANGED <<driver, rest>>
        /\ BoundsOk(AfterBreak + Head(rest).units)
    BY <1>4 DEF BadSector, InitOk
  <2>2. ASSUME ~ high.active PROVE memhi \in Int /\ Area <= memhi /\ memhi <= AllocLim
    <3>1. AfterBreak + Head(rest).units < AllocLim
      BY <2>1, <2>2 DEF BoundsOk
    <3>2. /\ load \in Int /\ Area < load /\ AfterBreak \in Int /\ load <= AfterBreak
          /\ Head(rest).units \in Nat
      BY <2>1, <2>2, DeviceLow
    <3> QED BY <3>1, <3>2, LowAddresses
  <2> HIDE DEF memhi
  <2> QED BY <2>1, <2>2, FailLow
<1>5. CASE CommitOwner
  <2>1. /\ MEMHI' = high.low /\ high' = NotHigh /\ pc' = "unlimit" /\ high.active
        /\ UNCHANGED <<driver, rest>>
    BY <1>5, Zenon DEF CommitOwner, RestoreThen, LowInv, LowPlaces
  <2>2. LowEnd' = LowEnd
    BY <2>1 DEF LowEnd, NotHigh
  <2> QED BY <2>1, <2>2
          DEF LowInv, LowType, LowPlaces, LowCursorInBounds, NotHigh, Changing, Restoring
<1> QED BY <1>1, <1>2, <1>3, <1>4, <1>5

LEMMA LoadLow ==
    ASSUME LowInv, Load
    PROVE  LowInv'
<1>1. /\ pc = "load" /\ pc' = "init" /\ driver.found /\ rest' = driver.devices
      /\ load' = MEMHI + 1 /\ MEMHI' = MEMHI + 1 /\ UNCHANGED <<high, driver>>
      /\ ~ high.active => LoadEnd < AllocLim
  BY DEF Load
<1>2. driver \in Drivers
  BY <1>1 DEF LowInv, LowType, NoDriver
<1>3. driver.image \in Nat /\ driver.devices \in Seq(Device) /\ driver.devices # <<>>
  <2>1. driver \in Driver
    BY <1>2, DeviceHighAssumption
  <2> QED BY <1>1, <1>2, <2>1, DeviceHighAssumption DEF Driver, Word
<1>4. CASE high.active
  <2>1. LowEnd' = LowEnd
    BY <1>1, <1>4 DEF LowEnd
  <2> QED BY <1>1, <1>2, <1>3, <1>4, <2>1
          DEF LowInv, LowType, LowPlaces, LowCursorInBounds, Changing, Restoring
<1>5. CASE ~ high.active
  <2>1. LowEnd = MEMHI /\ LowEnd' = MEMHI + 1 /\ MEMHI \in Int /\ Area <= MEMHI
    BY <1>1, <1>5 DEF LowEnd, LowInv, LowType, LowCursorInBounds
  <2>2. MEMHI + 1 <= AllocLim
    BY <1>1, <1>3, <1>5, <2>1, LowAddresses DEF LoadEnd
  <2> QED BY <1>1, <1>2, <1>3, <1>5, <2>1, <2>2, LowAddresses
          DEF LowInv, LowType, LowPlaces, LowCursorInBounds, Changing, Restoring
<1> QED BY <1>4, <1>5

LEMMA LinkDeviceLow ==
    ASSUME LowInv, LinkDevice
    PROVE  LowInv'
<1>1. /\ pc = "init" /\ BoundsOk(AfterBreak + Head(rest).units)
      /\ MEMHI' = AfterBreak + Head(rest).units /\ rest' = Tail(rest)
      /\ pc' = IF rest' # <<>> THEN "init" ELSE IF high.active THEN "commit" ELSE "done"
      /\ UNCHANGED <<high, driver, load>>
  BY DEF LinkDevice, InitOk
<1>2. rest' \in Seq(Device) /\ driver \in Drivers /\ high.active \in BOOLEAN
  BY <1>1, DeviceLow DEF LowInv, LowType
<1>3. CASE high.active
  <2>1. LowEnd' = LowEnd
    BY <1>1, <1>3 DEF LowEnd
  <2> QED BY <1>1, <1>2, <1>3, <2>1
          DEF LowInv, LowType, LowPlaces, LowCursorInBounds, Changing, Restoring
<1>4. CASE ~ high.active
  <2>1. /\ load \in Int /\ Area < load /\ AfterBreak \in Int /\ load <= AfterBreak
        /\ Head(rest).units \in Nat
    BY <1>1, <1>4, DeviceLow
  <2>2. MEMHI' \in Int /\ load <= MEMHI' /\ MEMHI' <= AllocLim
    BY <1>1, <1>4, <2>1, LowAddresses DEF BoundsOk
  <2>3. LowEnd' = MEMHI'
    BY <1>1, <1>4 DEF LowEnd
  <2>4. LowCursorInBounds'
    BY <2>1, <2>2, <2>3, LowAddresses DEF LowCursorInBounds
  <2>5. LowType'
    BY <1>1, <1>2, <2>2, <2>3 DEF LowInv, LowType
  <2> QED BY <1>1, <1>2, <1>4, <2>1, <2>2, <2>4, <2>5
          DEF LowInv, LowPlaces, Changing, Restoring
<1> QED BY <1>2, <1>3, <1>4

(* SYSINIT's conventional memory is never passed: whatever drivers return, *)
(* and while a line works in upper memory, the load address of the next    *)
(* conventional driver stays between AREA and ALLOCLIM (ROUND,             *)
(* SYSINIT2.ASM).  ROUND makes no such comparison in upper memory.         *)
THEOREM LowCursorStaysInBounds == DevSpec => []LowCursorInBounds
<1>1. PolicyInv /\ LowInv /\ [DevNext]_<<vars, devVars>> => LowInv'
  <2>1. ASSUME LowInv, UNCHANGED <<vars, devVars>> PROVE LowInv'
    BY <2>1 DEF LowInv, LowType, LowPlaces, LowCursorInBounds, LowEnd, devVars
  <2>2. ASSUME PolicyInv, LowInv, DevNext PROVE LowInv'
    BY <2>2, LinesLow, RestoringLow, HighBlockLow, EndsLow, LoadLow, LinkDeviceLow
       DEF DevNext, DevStep
  <2> QED BY <2>1, <2>2
<1>2. LowInv => LowCursorInBounds
  BY DEF LowInv
<1> QED BY <1>1, <1>2, InitLow, PolicySpec, PTL DEF DevSpec

-----------------------------------------------------------------------------
(* The memory.  What a call leaves of upper memory, the blocks at B aside: *)
(* blocks that are not free keep place, owner and size, and no new ones    *)
(* but free ones come up.                                                  *)

SameExtents ==
    /\ DOMAIN regions' = DOMAIN regions
    /\ \A i \in DOMAIN regions : /\ regions'[i].start = regions[i].start
                                 /\ regions'[i].end = regions[i].end

UpperKept(B) ==
    /\ UNCHANGED <<umbReady, CurrentPDB>> /\ SameExtents
    /\ \A h \in UpperHeads \ B : ~ IsFree(mcb, h) =>
          /\ h \in UpperHeads'
          /\ mcb'[h].owner = mcb[h].owner /\ mcb'[h].size = mcb[h].size
    /\ \A h \in UpperHeads' \ B :
          \/ IsFree(mcb', h)
          \/ h \in UpperHeads /\ ~ IsFree(mcb, h)

LEMMA SameChainKept ==
    ASSUME UNCHANGED <<mcb, UmbArenaHead, umbReady, CurrentPDB>>, SameExtents
    PROVE  UpperKept({})
BY DEF UpperKept, UpperHeads, IsFree

LEMMA LinkKept ==
    ASSUME IInv, NEW on \in BOOLEAN, PutLink(on)
    PROVE  IInv' /\ UpperKept({})
<1>1. CASE SetLink(on)
  <2>1. IInv'
    BY <1>1, SetLinkKeepsInvariant
  <2> DEFINE l == UmbLinkMcb'
             s == IF on THEN Normal ELSE End
  <2>2. /\ mcb' = [mcb EXCEPT ![l].sig = s]
        /\ UNCHANGED <<UmbArenaHead, regions, umbReady, CurrentPDB>>
    BY <1>1 DEF SetLink
  <2> HIDE DEF l, s
  <2>3. ASSUME NEW h \in DOMAIN mcb
        PROVE  mcb'[h].owner = mcb[h].owner /\ mcb'[h].size = mcb[h].size
    <3>1. mcb[h] \in Mcb
      BY DEF IInv, TypeOK
    <3>2. CASE h = l
      <4>1. mcb'[h] = [mcb[h] EXCEPT !.sig = s]
        BY <2>2, <3>2
      <4> QED BY <4>1, <3>1 DEF Mcb
    <3>3. CASE h # l
      BY <2>2, <3>3
    <3> QED BY <3>2, <3>3
  <2>4. DOMAIN mcb' = DOMAIN mcb
    BY <2>2
  <2>5. UpperHeads' = UpperHeads /\ SameExtents
    BY <2>2, <2>4 DEF UpperHeads, SameExtents
  <2>6. UpperHeads \subseteq DOMAIN mcb
    BY DEF UpperHeads
  <2> QED BY <2>1, <2>2, <2>3, <2>5, <2>6 DEF UpperKept, IsFree
<1>2. CASE UNCHANGED vars
  <2>1. IInv'
    BY <1>2, NextKeepsInvariant
  <2>2. UNCHANGED <<mcb, UmbArenaHead, umbReady, CurrentPDB>> /\ SameExtents
    BY <1>2 DEF vars, umbVars, SameExtents
  <2> QED BY <2>1, <2>2, SameChainKept
<1> QED BY <1>1, <1>2 DEF PutLink

(* A failed request for memory. *)
LEMMA AskKept ==
    ASSUME IInv, NEW n, AllocFail(n)
    PROVE  IInv' /\ UpperKept({})
<1> DEFINE G == Scanned(n)
           m == CoalesceAll(mcb, G)
<1>1. /\ Quiet /\ mcb' = m /\ UNCHANGED <<umbVars, profileVars, CurrentPDB>>
  BY DEF AllocFail
<1>2. IInv'
  BY <1>1, AllocFailGood, CallKeepsRest
<1>3. G \in SUBSET {h \in DOMAIN mcb : IsFree(mcb, h)} /\ G \in SUBSET DOMAIN mcb
  BY ScannedFree
<1>4. \A h \in DOMAIN mcb : ~ IsFree(mcb, h) => h \in DOMAIN m /\ m[h] = mcb[h]
  BY <1>3, CoalesceFree
<1>5. \A h \in DOMAIN m : h \in DOMAIN mcb /\ m[h].owner = mcb[h].owner
  <2>1. ChainType(mcb) /\ Top \in Nat /\ Tiles(mcb, ArenaHead, Top)
    BY StateChain DEF SoundChain
  <2> QED BY <2>1, <1>3, CoalesceShape
<1> HIDE DEF m
<1>6. UNCHANGED <<UmbArenaHead, umbReady, CurrentPDB, regions>> /\ SameExtents
  BY <1>1 DEF umbVars, SameExtents
<1> QED BY <1>1, <1>2, <1>4, <1>5, <1>6 DEF UpperKept, UpperHeads, IsFree

(* Taking the low end of a block gives that block the size asked for, and  *)
(* leaves all others; what is new is free.                                 *)
LEMMA TakeLowShape ==
    ASSUME NEW m, NEW first, NEW top, NEW ends,
           SoundChain(m, first, top, ends), EndsFixed(m, top, ends),
           NEW h \in DOMAIN m, NEW n \in Nat, n <= m[h].size, NEW p \in Nat
    PROVE  /\ h \in DOMAIN TakeLow(m, h, n, p)
           /\ TakeLow(m, h, n, p)[h].owner = p
           /\ TakeLow(m, h, n, p)[h].size = n
           /\ \A g \in DOMAIN TakeLow(m, h, n, p) : g # h =>
                 \/ g \in DOMAIN m /\ TakeLow(m, h, n, p)[g] = m[g]
                 \/ TakeLow(m, h, n, p)[g].owner = OwnerSystem
<1>1. CASE m[h].size = n
  <2>1. TakeLow(m, h, n, p) = Give(m, h, p)
    BY <1>1 DEF TakeLow
  <2> QED BY <1>1, <2>1, GiveSound
<1>2. CASE m[h].size # n
  <2> DEFINE s == SplitAt(m, h, n)
  <2>1. n < m[h].size
    BY <1>2, HeaderType DEF SoundChain
  <2>2. /\ SoundChain(s, first, top, ends)
        /\ DOMAIN s = DOMAIN m \cup {h + n + 1}
        /\ h + n + 1 \notin DOMAIN m
        /\ \A g \in DOMAIN m : g # h => s[g] = m[g]
    BY <2>1, SplitSound
  <2>3. s[h].size = n /\ s[h + n + 1].owner = OwnerSystem
    <3>1. h \in Nat /\ h # h + n + 1
      BY HeaderType DEF SoundChain
    <3>2. s[h] = [sig |-> Normal, owner |-> m[h].owner, size |-> n]
      BY <2>2, <3>1 DEF SplitAt
    <3>3. s[h + n + 1] = [sig |-> m[h].sig, owner |-> OwnerSystem, size |-> m[h].size - n - 1]
      BY <2>2, <3>1 DEF SplitAt
    <3> QED BY <3>2, <3>3
  <2>4. TakeLow(m, h, n, p) = Give(s, h, p)
    BY <1>2 DEF TakeLow
  <2> HIDE DEF s
  <2>5. /\ DOMAIN Give(s, h, p) = DOMAIN s
        /\ \A g \in DOMAIN s : g # h => Give(s, h, p)[g] = s[g]
    BY DEF Give
  <2>6. SoundChain(s, first, top, ends) /\ h \in DOMAIN s
    BY <2>2
  <2>7. Give(s, h, p)[h].owner = p /\ Give(s, h, p)[h].size = s[h].size
    BY <2>6, GiveSound
  <2> QED BY <2>2, <2>3, <2>4, <2>5, <2>6, <2>7
<1> QED BY <1>1, <1>2

LEMMA CrossingNext == IInv' => NoBlockCrossesGap'
BY NoCrossing, PTL

(* The block a step hands out. *)
GrantedHead == CHOOSE h \in Granted : TRUE

(* The request that DEVICEHIGH makes grants one upper block. *)
LEMMA TakeKept ==
    ASSUME IInv, NEW n \in Nat, AllocOk(n), UmbLinked, AllocMethod = UpperOnly
    PROVE  /\ IInv' /\ UpperKept({GrantedHead})
           /\ GrantedHead \in UpperHeads'
           /\ mcb'[GrantedHead].owner = CurrentPDB
           /\ mcb'[GrantedHead].size = n
           /\ \E i \in DOMAIN regions : n < regions[i].end - regions[i].start
<1> DEFINE G == Scanned(n)
           m == CoalesceAll(mcb, G)
           fits == FitsIn(G, n)
           b == FirstFit(fits)
<1>0. AllocMethod.fit = "first" /\ AllocMethod.domain = "upper"
  BY DEF UpperOnly
<1>1. /\ Quiet /\ fits # {} /\ UNCHANGED <<umbVars, profileVars, CurrentPDB>>
      /\ mcb' = TakeLow(m, b, n, CurrentPDB)
  BY <1>0 DEF AllocOk
<1>2. IInv'
  BY <1>1, AllocOkGood, CallKeepsRest
<1>3. G \in SUBSET {h \in DOMAIN mcb : IsFree(mcb, h)} /\ G \in SUBSET DOMAIN mcb
  BY ScannedFree
<1>4. /\ SoundChain(m, ArenaHead, Top, Ends) /\ EndsFixed(m, Top, Ends)
      /\ \A h \in DOMAIN mcb : ~ IsFree(mcb, h) => h \in DOMAIN m /\ m[h] = mcb[h]
  BY <1>3, CoalesceFree
<1>5. \A h \in DOMAIN m : h \in DOMAIN mcb /\ m[h].owner = mcb[h].owner
  <2>1. ChainType(mcb) /\ Top \in Nat /\ Tiles(mcb, ArenaHead, Top)
    BY StateChain DEF SoundChain
  <2> QED BY <2>1, <1>3, CoalesceShape
<1>6. G = FreeUpper
  BY <1>0 DEF Scanned, FirstScan, StartsUpper
<1>7. b \in fits
  <2>1. fits \in SUBSET Nat
    <3>1. \A h \in DOMAIN m : h \in Nat
      BY <1>4, HeaderType DEF SoundChain
    <3> QED BY <3>1 DEF FitsIn
  <2>2. \E h \in fits : \A g \in fits : h <= g
    BY <2>1, <1>1, MinExists
  <2> QED BY <2>2 DEF FirstFit
<1>8. b \in G /\ b \in DOMAIN m /\ n <= m[b].size
  BY <1>3, <1>7, FitsAreBlocks
<1>9. b \in UpperHeads /\ IsFree(mcb, b)
  BY <1>6, <1>8 DEF FreeUpper
<1>10. CurrentPDB \in Nat /\ CurrentPDB # OwnerSystem /\ CurrentPDB # OwnerDos
  BY PidType
<1> HIDE DEF m, b, G, fits
<1>11. /\ b \in DOMAIN mcb' /\ mcb'[b].owner = CurrentPDB /\ mcb'[b].size = n
       /\ \A g \in DOMAIN mcb' : g # b =>
             (g \in DOMAIN m /\ mcb'[g] = m[g]) \/ mcb'[g].owner = OwnerSystem
  BY <1>1, <1>4, <1>8, <1>10, TakeLowShape
<1>12. \A g \in DOMAIN m : g # b => g \in DOMAIN mcb' /\ mcb'[g] = m[g]
  BY <1>1, <1>4, <1>8, <1>10, TakeLowSound
<1>13. Granted = {b}
  <2>1. b \in Granted
    BY <1>9, <1>10, <1>11 DEF Granted, IsFree, UpperHeads
  <2>2. ASSUME NEW h \in Granted PROVE h = b
    <3>1. h \in DOMAIN mcb' /\ mcb'[h].owner = CurrentPDB
          /\ (h \in DOMAIN mcb => mcb[h].owner # CurrentPDB)
      BY <2>2 DEF Granted
    <3> QED BY <3>1, <1>5, <1>10, <1>11
  <2> QED BY <2>1, <2>2
<1>14. GrantedHead = b
  BY <1>13 DEF GrantedHead
<1>15. UNCHANGED <<UmbArenaHead, umbReady, CurrentPDB, regions>> /\ SameExtents
  BY <1>1 DEF umbVars, SameExtents
<1>16. b \in UpperHeads'
  BY <1>9, <1>11, <1>15 DEF UpperHeads
<1>17. UpperKept({b})
  <2>1. ASSUME NEW h \in UpperHeads, h # b, ~ IsFree(mcb, h)
        PROVE  h \in UpperHeads' /\ mcb'[h].owner = mcb[h].owner /\ mcb'[h].size = mcb[h].size
    <3>1. h \in DOMAIN mcb
      BY DEF UpperHeads
    <3>2. h \in DOMAIN m /\ m[h] = mcb[h]
      BY <2>1, <3>1, <1>4
    <3>3. h \in DOMAIN mcb' /\ mcb'[h] = mcb[h]
      BY <2>1, <3>2, <1>12
    <3> QED BY <3>3, <1>15 DEF UpperHeads
  <2>2. ASSUME NEW h \in UpperHeads', h # b
        PROVE  IsFree(mcb', h) \/ (h \in UpperHeads /\ ~ IsFree(mcb, h))
    <3>1. h \in DOMAIN mcb'
      BY DEF UpperHeads
    <3>2. CASE h \in DOMAIN m /\ mcb'[h] = m[h]
      BY <3>2, <1>5, <1>15 DEF UpperHeads, IsFree
    <3>3. CASE mcb'[h].owner = OwnerSystem
      BY <3>3 DEF IsFree
    <3> QED BY <3>1, <3>2, <3>3, <2>2, <1>11
  <2> QED BY <2>1, <2>2, <1>15 DEF UpperKept
<1>18. \E i \in DOMAIN regions : n < regions[i].end - regions[i].start
  <2>1. NoBlockCrossesGap'
    BY <1>2, CrossingNext
  <2>2. /\ UmbArenaHead \in Nat /\ b \in Nat /\ UmbArenaHead <= b
        /\ Following(mcb', b) = b + n + 1
    <3>1. b \in DOMAIN mcb
      BY <1>9 DEF UpperHeads
    <3>2. b \in Nat /\ UmbArenaHead \in Nat
      BY <3>1, StateChain, HeaderType DEF SoundChain
    <3> QED BY <3>2, <1>9, <1>11 DEF UpperHeads, Following
  <2>3. UmbArenaHead # 0
    BY <1>9 DEF UpperHeads
  <2>4. PICK i \in DOMAIN regions : regions[i].start <= b /\ b + n + 1 <= regions[i].end
    BY <2>1, <2>2, <2>3, <1>10, <1>11, <1>15 DEF NoBlockCrossesGap
  <2>5. regions[i].start \in Nat /\ regions[i].end \in Nat
    <3>1. regions[i] \in Region
      BY DEF IInv, TypeOK
    <3> QED BY <3>1 DEF Region, Word
  <2>6. n < regions[i].end - regions[i].start
    BY <2>2, <2>4, <2>5
  <2> QED BY <2>6
<1> QED BY <1>2, <1>11, <1>14, <1>16, <1>17, <1>18

(* The block of a line is cut to what the line needs. *)
LEMMA CutKept ==
    ASSUME IInv, NEW h \in UpperHeads, NEW n \in Nat, n <= mcb[h].size, SetBlock(h, n)
    PROVE  /\ IInv' /\ UpperKept({h})
           /\ h \in UpperHeads' /\ mcb'[h].owner = CurrentPDB /\ mcb'[h].size = n
<1> DEFINE m == CoalesceAll(mcb, {h})
<1>0. h \in DOMAIN mcb
  BY DEF UpperHeads
<1>1. /\ Quiet /\ UNCHANGED <<umbVars, profileVars, CurrentPDB>>
      /\ mcb[h].owner = CurrentPDB
      /\ mcb' = IF n <= m[h].size THEN TakeLow(m, h, n, CurrentPDB) ELSE m
  BY DEF SetBlock
<1>2. IInv'
  BY <1>0, <1>1, SetBlockGood, CallKeepsRest
<1>3. CurrentPDB \in Nat /\ CurrentPDB # OwnerSystem /\ CurrentPDB # OwnerDos
  BY PidType
<1>4. /\ SoundChain(mcb, ArenaHead, Top, Ends) /\ {h} \in SUBSET DOMAIN mcb
      /\ ChainType(mcb) /\ Top \in Nat /\ Tiles(mcb, ArenaHead, Top)
  BY <1>0, StateChain DEF SoundChain
<1>5. \A g \in DOMAIN mcb : ~ IsFree(mcb, g) =>
         g \in DOMAIN m /\ (g # h => m[g] = mcb[g])
  <2> SUFFICES ASSUME NEW g \in DOMAIN mcb, ~ IsFree(mcb, g)
               PROVE  g \in DOMAIN m /\ (g # h => m[g] = mcb[g])
    OBVIOUS
  <2>1. g \in DOMAIN m /\ (g \notin {h} => m[g] = mcb[g])
    BY <1>4, CoalesceUntouched
  <2> QED BY <2>1
<1>6. SoundChain(m, ArenaHead, Top, Ends) /\ EndsFixed(m, Top, Ends)
  <2>1. \A g \in DOMAIN mcb : mcb[g].owner = OwnerDos => g \in DOMAIN m
    BY <1>5 DEF IsFree, OwnerDos, OwnerSystem
  <2> QED BY <1>4, <2>1, StateEnds, CoalesceSound
<1>7. \A g \in DOMAIN m : g \in DOMAIN mcb /\ m[g].owner = mcb[g].owner
  BY <1>4, CoalesceShape
<1>8. h \in DOMAIN m
  BY <1>0, <1>1, <1>3, <1>5 DEF IsFree
<1>9. n <= m[h].size
  <2>1. Following(m, h) = Following(mcb, LastOf(mcb, h))
    BY <1>4, <1>8, CoalesceShape
  <2>2. LastOf(mcb, h) \in DOMAIN mcb /\ h <= LastOf(mcb, h)
    BY <1>0, <1>4, LastOfRun
  <2>3. Following(mcb, h) <= Following(mcb, LastOf(mcb, h))
    <3>1. CASE LastOf(mcb, h) = h
      <4>1. Following(mcb, h) \in Nat
        BY <1>0, <1>4, HeaderType
      <4> QED BY <3>1, <4>1
    <3>2. CASE LastOf(mcb, h) # h
      <4>1. h \in Nat /\ LastOf(mcb, h) \in Nat /\ Following(mcb, h) \in Nat
            /\ Following(mcb, LastOf(mcb, h)) \in Nat
            /\ LastOf(mcb, h) < Following(mcb, LastOf(mcb, h))
        BY <1>0, <1>4, <2>2, HeaderType
      <4>2. LastOf(mcb, h) <= h \/ Following(mcb, h) <= LastOf(mcb, h)
        BY <1>0, <1>4, <2>2 DEF Tiles
      <4> QED BY <3>2, <4>1, <4>2, <2>2
    <3> QED BY <3>1, <3>2
  <2>4. /\ h \in Nat /\ mcb[h].size \in Nat /\ m[h].size \in Nat
        /\ Following(mcb, LastOf(mcb, h)) \in Nat
    <3>1. m[h].size \in Nat
      BY <1>6, <1>8, HeaderType DEF SoundChain
    <3> QED BY <1>0, <1>4, <2>2, <3>1, HeaderType
  <2> QED BY <2>1, <2>3, <2>4 DEF Following
<1> HIDE DEF m
<1>10. mcb' = TakeLow(m, h, n, CurrentPDB)
  BY <1>1, <1>9
<1>11. /\ h \in DOMAIN mcb' /\ mcb'[h].owner = CurrentPDB /\ mcb'[h].size = n
       /\ \A g \in DOMAIN mcb' : g # h =>
             (g \in DOMAIN m /\ mcb'[g] = m[g]) \/ mcb'[g].owner = OwnerSystem
  BY <1>3, <1>6, <1>8, <1>9, <1>10, TakeLowShape
<1>12. \A g \in DOMAIN m : g # h => g \in DOMAIN mcb' /\ mcb'[g] = m[g]
  BY <1>3, <1>6, <1>8, <1>9, <1>10, TakeLowSound
<1>13. UNCHANGED <<UmbArenaHead, umbReady, CurrentPDB, regions>> /\ SameExtents
  BY <1>1 DEF umbVars, SameExtents
<1>14. ASSUME NEW g \in UpperHeads, g # h, ~ IsFree(mcb, g)
       PROVE  g \in UpperHeads' /\ mcb'[g].owner = mcb[g].owner /\ mcb'[g].size = mcb[g].size
  <2>1. g \in DOMAIN mcb
    BY DEF UpperHeads
  <2>2. g \in DOMAIN mcb' /\ mcb'[g] = mcb[g]
    BY <2>1, <1>5, <1>12, <1>14
  <2> QED BY <2>2, <1>13 DEF UpperHeads
<1>15. ASSUME NEW g \in UpperHeads', g # h
       PROVE  IsFree(mcb', g) \/ (g \in UpperHeads /\ ~ IsFree(mcb, g))
  <2>1. g \in DOMAIN mcb'
    BY DEF UpperHeads
  <2>2. CASE g \in DOMAIN m /\ mcb'[g] = m[g]
    BY <2>2, <1>7, <1>13 DEF UpperHeads, IsFree
  <2>3. CASE mcb'[g].owner = OwnerSystem
    BY <2>3 DEF IsFree
  <2> QED BY <2>1, <2>2, <2>3, <1>11, <1>15
<1>16. h \in UpperHeads'
  BY <1>11, <1>13 DEF UpperHeads
<1> QED BY <1>2, <1>11, <1>13, <1>14, <1>15, <1>16 DEF UpperKept

(* The block of a line changes its owner, to nobody or to DOS. *)
LEMMA GiveKept ==
    ASSUME IInv, Quiet, NEW h \in UpperHeads, mcb[h].owner = CurrentPDB, NEW o \in Nat,
           mcb' = Give(mcb, h, o), UNCHANGED <<umbVars, profileVars, CurrentPDB>>
    PROVE  /\ IInv' /\ UpperKept({h})
           /\ h \in UpperHeads' /\ mcb'[h].owner = o /\ mcb'[h].size = mcb[h].size
<1>0. h \in DOMAIN mcb /\ SoundChain(mcb, ArenaHead, Top, Ends)
  BY StateChain DEF UpperHeads
<1>1. /\ SoundChain(mcb', ArenaHead, Top, Ends)
      /\ DOMAIN mcb' = DOMAIN mcb /\ mcb'[h].owner = o
      /\ \A g \in DOMAIN mcb : mcb'[g].size = mcb[g].size
      /\ \A g \in DOMAIN mcb : g # h => mcb'[g] = mcb[g]
  BY <1>0, GiveSound
<1>2. Untouched(mcb, mcb', CurrentPDB)
  BY <1>1 DEF Untouched
<1>3. IInv'
  BY <1>1, <1>2, CallKeepsRest DEF GoodStep
<1>4. UNCHANGED <<UmbArenaHead, umbReady, CurrentPDB, regions>> /\ SameExtents
  BY DEF umbVars, SameExtents
<1>5. UpperHeads' = UpperHeads /\ UpperHeads \subseteq DOMAIN mcb
  BY <1>1, <1>4 DEF UpperHeads
<1> QED BY <1>0, <1>1, <1>3, <1>4, <1>5 DEF UpperKept, IsFree

(* A block of upper memory that no line has taken: free, or a bridge or a  *)
(* guard of the registration.                                              *)
Placed(h) ==
    \/ IsFree(mcb, h)
    \/ /\ mcb[h].owner = OwnerDos
       /\ \/ RegionOf(regions, h) = {}
          \/ \E i \in DOMAIN regions : h + 1 = regions[i].end

ExtentInv ==
    \A i \in DOMAIN regions : \E x \in Extents : regions[i].end - regions[i].start = x[2]

LEMMA RegionAppended ==
    ASSUME IInv, NEW x \in Extents, RegisterFirst(x[1], x[2]) \/ RegisterAppend(x[1], x[2])
    PROVE  /\ regions \in Seq(Region) /\ Len(regions) \in Nat
           /\ DOMAIN regions = 1 .. Len(regions) /\ DOMAIN regions' = 1 .. Len(regions) + 1
           /\ \A j \in DOMAIN regions : regions'[j] = regions[j]
           /\ regions'[Len(regions) + 1].start = x[1]
           /\ regions'[Len(regions) + 1].end = x[1] + x[2]
           /\ x[1] \in Nat /\ x[2] \in Nat /\ 3 <= x[2]
           /\ UNCHANGED <<umbReady, CurrentPDB>>
           /\ ExtentInv => ExtentInv'
<1>1. /\ CanRegister(x[1], x[2]) /\ AddRegion(x[1], x[2]) /\ regions \in Seq(Region)
      /\ UNCHANGED <<umbReady, CurrentPDB>>
  BY Zenon DEF RegisterFirst, RegisterAppend, IInv, TypeOK
<1>2. x[1] \in Nat /\ x[2] \in Nat /\ 3 <= x[2]
  BY <1>1, ExtentType DEF CanRegister
<1>3. /\ DOMAIN regions = 1 .. Len(regions) /\ DOMAIN regions' = 1 .. Len(regions) + 1
      /\ \A j \in DOMAIN regions : regions'[j] = regions[j]
      /\ regions'[Len(regions) + 1].start = x[1]
      /\ regions'[Len(regions) + 1].end = x[1] + x[2]
  BY <1>1, RegionAdded
<1>4. ExtentInv => ExtentInv'
  <2> SUFFICES ASSUME ExtentInv, NEW i \in DOMAIN regions'
               PROVE  \E y \in Extents : regions'[i].end - regions'[i].start = y[2]
    BY DEF ExtentInv
  <2>1. CASE i \in DOMAIN regions
    BY <2>1, <1>3 DEF ExtentInv
  <2>2. CASE i = Len(regions) + 1
    <3>1. regions'[i].end - regions'[i].start = x[2]
      BY <2>2, <1>2, <1>3
    <3> QED BY <3>1
  <2>3. Len(regions) \in Nat
    BY <1>1
  <2> QED BY <1>3, <2>1, <2>2, <2>3
<1>5. Len(regions) \in Nat
  BY <1>1
<1> QED BY <1>1, <1>2, <1>3, <1>4, <1>5

(* What RegisterUmbMakeExtent writes. *)
LEMMA MadeExtent ==
    ASSUME NEW m, NEW start \in Nat, NEW size \in Nat, 3 <= size
    PROVE  /\ DOMAIN MakeExtent(m, start, size) = DOMAIN m \cup {start, start + size - 1}
           /\ MakeExtent(m, start, size)[start].owner = OwnerSystem
           /\ MakeExtent(m, start, size)[start + size - 1].owner = OwnerDos
           /\ \A h \in DOMAIN m \ {start, start + size - 1} :
                 MakeExtent(m, start, size)[h] = m[h]
<1> DEFINE n == MakeExtent(m, start, size)
           g == start + size - 1
<1>1. start # g
  OBVIOUS
<1>2. DOMAIN n = DOMAIN m \cup {start, g}
  BY DEF MakeExtent
<1>3. n[start] = [sig |-> Normal, owner |-> OwnerSystem, size |-> size - 2]
  BY <1>1 DEF MakeExtent
<1>4. n[g] = [sig |-> End, owner |-> OwnerDos, size |-> 0]
  BY <1>1 DEF MakeExtent
<1>5. \A h \in DOMAIN m \ {start, g} : n[h] = m[h]
  BY DEF MakeExtent
<1> HIDE DEF n, g
<1>6. n[start].owner = OwnerSystem /\ n[g].owner = OwnerDos
  BY <1>3, <1>4
<1> QED BY <1>2, <1>5, <1>6 DEF n, g

LEMMA FirstPlaced ==
    ASSUME IInv, NEW x \in Extents, RegisterFirst(x[1], x[2])
    PROVE  \A h \in UpperHeads' : Placed(h)'
<1> DEFINE start == x[1]
           size == x[2]
           t == LowTail
           bridge == LowTop - 1
           m == [h \in DOMAIN mcb \cup {bridge} |->
                   CASE h = t -> [mcb[h] EXCEPT !.size = @ - 1]
                     [] h = bridge -> [sig |-> Normal, owner |-> OwnerDos,
                                       size |-> start - bridge - 1]
                     [] OTHER -> mcb[h]]
<1>1. /\ UmbArenaHead = 0 /\ regions = <<>>
      /\ t \in DOMAIN mcb /\ Following(mcb, t) = LowTop
      /\ \A h \in DOMAIN mcb : h # t => Following(mcb, h) <= t
  BY LowTailIsLast DEF RegisterFirst
<1>2. /\ start \in Nat /\ size \in Nat /\ size >= 3
      /\ mcb[t].size # 0 /\ LowTop <= start
  BY <1>1, ExtentType DEF RegisterFirst, CanRegister
<1>3. mcb' = MakeExtent(m, start, size) /\ UmbArenaHead' = bridge
  BY <1>1 DEF RegisterFirst
<1>4. \A h \in DOMAIN mcb : h \in Nat /\ mcb[h].size \in Nat /\ Following(mcb, h) \in Nat
                            /\ h < Following(mcb, h)
  BY StateChain, HeaderType DEF SoundChain
<1>5. t < bridge /\ t \in Nat /\ bridge \in Nat /\ bridge < LowTop /\ LowTop \in Nat
  <2>1. LowTop \in Nat /\ t + mcb[t].size + 1 = LowTop
    BY <1>1, ArenaAssumption DEF Following, Word
  <2> QED BY <2>1, <1>1, <1>2, <1>4
<1>6. \A h \in DOMAIN mcb : h < bridge
  <2> TAKE h \in DOMAIN mcb
  <2>1. h <= t
    <3>1. CASE h = t
      BY <3>1, <1>5
    <3>2. CASE h # t
      BY <3>2, <1>1, <1>4, <1>5
    <3> QED BY <3>1, <3>2
  <2> QED BY <2>1, <1>4, <1>5
<1>7. DOMAIN m = DOMAIN mcb \cup {bridge}
      /\ m[bridge] = [sig |-> Normal, owner |-> OwnerDos, size |-> start - bridge - 1]
  BY <1>5, <1>1
<1> DEFINE g == start + size - 1
<1> HIDE DEF m, t
<1>8. /\ DOMAIN mcb' = DOMAIN m \cup {start, g}
      /\ mcb'[start].owner = OwnerSystem /\ mcb'[g].owner = OwnerDos
      /\ bridge \notin {start, g} => mcb'[bridge] = m[bridge]
  <2>1. 3 <= size /\ start \in Nat /\ size \in Nat
    BY <1>2
  <2> HIDE DEF start, size
  <2>2. bridge \in DOMAIN m
    BY <1>7
  <2>3. /\ DOMAIN MakeExtent(m, start, size) = DOMAIN m \cup {start, g}
        /\ MakeExtent(m, start, size)[start].owner = OwnerSystem
        /\ MakeExtent(m, start, size)[g].owner = OwnerDos
        /\ \A h \in DOMAIN m \ {start, g} : MakeExtent(m, start, size)[h] = m[h]
    BY <2>1, MadeExtent
  <2> QED BY <1>3, <2>2, <2>3
<1>9. bridge \notin {start, g} /\ g + 1 = start + size
  BY <1>2, <1>5
<1>10. mcb'[bridge].owner = OwnerDos
  BY <1>7, <1>8, <1>9
<1>11. /\ DOMAIN regions' = {1} /\ regions'[1].start = start /\ regions'[1].end = start + size
  <2>1. Len(regions) = 0
    BY <1>1
  <2>2. /\ DOMAIN regions' = 1 .. Len(regions) + 1
        /\ regions'[Len(regions) + 1].start = x[1]
        /\ regions'[Len(regions) + 1].end = x[1] + x[2]
    BY RegionAppended
  <2> QED BY <2>1, <2>2
<1> SUFFICES ASSUME NEW h \in UpperHeads' PROVE Placed(h)'
  OBVIOUS
<1>12. h \in DOMAIN mcb' /\ bridge <= h
  BY <1>3, <1>5 DEF UpperHeads
<1>13. h \in {bridge, start, g}
  BY <1>4, <1>5, <1>6, <1>7, <1>8, <1>12
<1>14. CASE h = bridge
  <2>1. RegionOf(regions', bridge) = {}
    BY <1>2, <1>5, <1>11 DEF RegionOf
  <2> QED BY <2>1, <1>10, <1>14 DEF Placed
<1>15. CASE h = start
  BY <1>8, <1>15 DEF Placed, IsFree
<1>16. CASE h = g
  BY <1>8, <1>9, <1>11, <1>16 DEF Placed
<1> QED BY <1>13, <1>14, <1>15, <1>16

LEMMA AppendPlaced ==
    ASSUME IInv, NEW x \in Extents, RegisterAppend(x[1], x[2]), \A h \in UpperHeads : Placed(h)
    PROVE  ~ umbReady /\ \A h \in UpperHeads' : Placed(h)'
<1> DEFINE start == x[1]
           size == x[2]
           a == UmbArenaTail
           g == start + size - 1
           m == [mcb EXCEPT ![a].sig = Normal, ![a].size = start - (a + 1)]
<1>1. /\ UmbArenaHead # 0 /\ ~ umbReady /\ regions # <<>> /\ ~ Quiet /\ a = Top - 1
      /\ UmbArenaHead' = UmbArenaHead
      /\ mcb' = MakeExtent(m, start, size)
  <2>1. UmbArenaHead # 0 /\ ~ umbReady /\ mcb' = MakeExtent(m, start, size)
        /\ UmbArenaHead' = UmbArenaHead
    BY DEF RegisterAppend
  <2>2. regions # <<>> /\ ~ Quiet
    BY <2>1 DEF IInv, Barriers, Quiet
  <2> QED BY <2>1, <2>2 DEF IInv, BootState
<1>2. start \in Nat /\ size \in Nat /\ size >= 3 /\ a + 1 <= start
  BY <1>1, ExtentType DEF RegisterAppend, CanRegister
<1>3. Top \in Nat /\ \A h \in DOMAIN mcb : h \in Nat /\ h < Top
  <2>1. Top \in Nat /\ Tiles(mcb, ArenaHead, Top) /\ ChainType(mcb)
    BY StateChain DEF SoundChain
  <2>2. \A h \in DOMAIN mcb : h \in Nat /\ h < Following(mcb, h) /\ Following(mcb, h) \in Nat
                              /\ Following(mcb, h) <= Top
    BY <2>1, HeaderType DEF Tiles
  <2> QED BY <2>1, <2>2
<1>4. a \in Nat /\ a + 1 = Top
  <2>1. UmbArenaTail \in Nat
    BY WordSizeAssumption DEF IInv, TypeOK, Word
  <2> QED BY <2>1, <1>1, <1>3
<1>5. \A h \in DOMAIN mcb : h < start
  BY <1>2, <1>3, <1>4
<1>6. DOMAIN m = DOMAIN mcb /\ \A h \in DOMAIN mcb : m[h].owner = mcb[h].owner
  <2>1. DOMAIN m = DOMAIN mcb
    OBVIOUS
  <2>2. \A h \in DOMAIN mcb : h # a => m[h] = mcb[h]
    OBVIOUS
  <2>3. ASSUME a \in DOMAIN mcb PROVE m[a].owner = mcb[a].owner
    <3>1. m[a] = [mcb[a] EXCEPT !.sig = Normal, !.size = start - (a + 1)]
      BY <2>3
    <3>2. mcb[a] \in Mcb
      BY <2>3 DEF IInv, TypeOK
    <3> QED BY <3>1, <3>2 DEF Mcb
  <2> HIDE DEF m
  <2> QED BY <2>1, <2>2, <2>3
<1> HIDE DEF m
<1>7. /\ DOMAIN mcb' = DOMAIN mcb \cup {start, g}
      /\ mcb'[start].owner = OwnerSystem /\ mcb'[g].owner = OwnerDos
      /\ \A h \in DOMAIN mcb \ {start, g} : mcb'[h] = m[h]
  <2>1. 3 <= size /\ start \in Nat /\ size \in Nat
    BY <1>2
  <2> HIDE DEF start, size
  <2>2. /\ DOMAIN MakeExtent(m, start, size) = DOMAIN m \cup {start, g}
        /\ MakeExtent(m, start, size)[start].owner = OwnerSystem
        /\ MakeExtent(m, start, size)[g].owner = OwnerDos
        /\ \A h \in DOMAIN m \ {start, g} : MakeExtent(m, start, size)[h] = m[h]
    BY <2>1, MadeExtent
  <2> QED BY <1>1, <1>6, <2>2
<1>8. start <= g /\ g + 1 = start + size
  BY <1>2
<1>9. \A h \in DOMAIN mcb : mcb'[h].owner = mcb[h].owner
  <2> TAKE h \in DOMAIN mcb
  <2>1. h \notin {start, g}
    BY <1>2, <1>3, <1>5, <1>8
  <2> QED BY <2>1, <1>6, <1>7
<1>10. /\ Len(regions) \in Nat
       /\ DOMAIN regions = 1 .. Len(regions) /\ DOMAIN regions' = 1 .. Len(regions) + 1
       /\ \A j \in DOMAIN regions : regions'[j] = regions[j]
       /\ regions'[Len(regions) + 1].start = start
       /\ regions'[Len(regions) + 1].end = start + size
  BY RegionAppended
<1> SUFFICES ASSUME NEW h \in UpperHeads' PROVE Placed(h)'
  BY <1>1
<1>11. h \in DOMAIN mcb' /\ UmbArenaHead <= h
  BY <1>1 DEF UpperHeads
<1>12. CASE h \in DOMAIN mcb
  <2>1. Placed(h)
    BY <1>1, <1>11, <1>12 DEF UpperHeads
  <2>2. RegionOf(regions', h) = RegionOf(regions, h)
    <3>1. h \in Nat /\ h < start /\ start \in Nat
      BY <1>2, <1>3, <1>5, <1>12
    <3>2. Len(regions) + 1 \notin RegionOf(regions', h)
      BY <3>1, <1>10 DEF RegionOf
    <3>3. \A j \in DOMAIN regions : j \in RegionOf(regions', h) <=> j \in RegionOf(regions, h)
      BY <1>10 DEF RegionOf
    <3>4. DOMAIN regions' = DOMAIN regions \cup {Len(regions) + 1}
      BY <1>10
    <3> QED BY <3>2, <3>3, <3>4 DEF RegionOf
  <2>3. \A i \in DOMAIN regions : i \in DOMAIN regions' /\ regions'[i].end = regions[i].end
    BY <1>10
  <2> QED BY <2>1, <2>2, <2>3, <1>9, <1>12 DEF Placed, IsFree
<1>13. CASE h = start
  BY <1>7, <1>13 DEF Placed, IsFree
<1>14. CASE h = g
  <2>1. Len(regions) + 1 \in DOMAIN regions' /\ g + 1 = regions'[Len(regions) + 1].end
    BY <1>8, <1>10
  <2> QED BY <2>1, <1>7, <1>14 DEF Placed
<1> QED BY <1>7, <1>11, <1>12, <1>13, <1>14

(* The registration runs before the first block is handed out in upper     *)
(* memory and hands out none.                                              *)
LEMMA RegistrationPlaced ==
    ASSUME IInv, Registration, \A h \in UpperHeads : Placed(h)
    PROVE  /\ IInv' /\ ~ umbReady /\ UNCHANGED CurrentPDB
           /\ \A h \in UpperHeads' : Placed(h)'
           /\ ExtentInv => ExtentInv'
<1>i. IInv'
  BY RegistrationKeepsInvariant
<1>1. ASSUME NEW x \in Extents, RegisterFirst(x[1], x[2])
      PROVE  /\ ~ umbReady /\ UNCHANGED CurrentPDB
             /\ \A h \in UpperHeads' : Placed(h)'
             /\ ExtentInv => ExtentInv'
  <2>1. ~ umbReady
    BY <1>1, LowTailIsLast DEF RegisterFirst
  <2> QED BY <1>1, <2>1, FirstPlaced, RegionAppended
<1>2. ASSUME NEW x \in Extents, RegisterAppend(x[1], x[2])
      PROVE  /\ ~ umbReady /\ UNCHANGED CurrentPDB
             /\ \A h \in UpperHeads' : Placed(h)'
             /\ ExtentInv => ExtentInv'
  BY <1>2, AppendPlaced, RegionAppended
<1>3. CASE FinalizeUmb
  <2> DEFINE b == CHOOSE h \in UpperHeads : Following(mcb, h) = UmbArenaTail
  <2>1. /\ ~ umbReady /\ UNCHANGED <<CurrentPDB, regions, UmbArenaHead>>
        /\ mcb' = [h \in DOMAIN mcb \ {UmbArenaTail} |->
                     IF h = b
                     THEN [mcb[h] EXCEPT !.size = @ + 1, !.sig = End]
                     ELSE mcb[h]]
    BY <1>3, Zenon DEF FinalizeUmb, profileVars
  <2> HIDE DEF b
  <2>2. DOMAIN mcb' = DOMAIN mcb \ {UmbArenaTail}
    BY <2>1
  <2>3. ASSUME NEW h \in DOMAIN mcb' PROVE mcb'[h].owner = mcb[h].owner
    <3>1. mcb[h] \in Mcb
      BY <2>2 DEF IInv, TypeOK
    <3>2. CASE h = b
      <4>1. mcb'[h] = [mcb[h] EXCEPT !.size = mcb[h].size + 1, !.sig = End]
        BY <2>1, <2>2, <3>2
      <4> QED BY <3>1, <4>1 DEF Mcb
    <3>3. CASE h # b
      BY <2>1, <2>2, <3>3
    <3> QED BY <3>2, <3>3
  <2>4. UpperHeads' \subseteq UpperHeads /\ UpperHeads' \subseteq DOMAIN mcb'
    BY <2>1, <2>2 DEF UpperHeads
  <2>5. UNCHANGED <<CurrentPDB, regions>>
    BY <2>1
  <2>6. \A h \in UpperHeads' : Placed(h)'
    BY <2>3, <2>4, <2>5 DEF Placed, IsFree
  <2>7. ExtentInv => ExtentInv'
    BY <2>5 DEF ExtentInv
  <2>8. ~ umbReady
    BY <2>1
  <2> QED BY <1>i, <2>5, <2>6, <2>7, <2>8
<1>4. CASE ResetUmb
  <2>1. ~ umbReady /\ UNCHANGED CurrentPDB /\ UmbArenaHead' = 0 /\ regions' = <<>>
    BY <1>4, Zenon DEF ResetUmb
  <2> QED BY <1>i, <2>1 DEF UpperHeads, ExtentInv
<1> QED BY <1>i, <1>1, <1>2, <1>3, <1>4 DEF Registration

-----------------------------------------------------------------------------
(* The lines.  HighHead is the block of a line that loads high. *)

HighHead == high.block - 1

HighPlaces == {"load", "init", "commit", "own"}

MemType ==
    /\ high \in [active : BOOLEAN, block : Nat, size : Nat, low : Nat]
    /\ MEMHI \in Nat /\ load \in Nat
    /\ driver \in Drivers \cup {NoDriver}
    /\ linked \in SUBSET Nat

(* It belongs to SYSINIT and has the size that the line knows. *)
HighInv ==
    high.active =>
        /\ umbReady
        /\ HighHead \in UpperHeads /\ mcb[HighHead].owner = CurrentPDB
        /\ mcb[HighHead].size = IF pc = "own" THEN MEMHI - high.block ELSE high.size

(* While a file is initialized: before its first device MEMHI is the load  *)
(* address, then the break address.                                        *)
InitInv ==
    /\ driver \in Drivers /\ driver.found
    /\ rest \in Seq(Device) /\ rest # <<>>
    /\ IF high.active THEN load + driver.image <= high.block + high.size
                      ELSE Area < load /\ load + driver.image < AllocLim
    /\ \/ rest = driver.devices /\ MEMHI = load
       \/ /\ Len(rest) < Len(driver.devices) /\ MEMHI = load + driver.keep
          /\ \A j \in DOMAIN rest : ~ rest[j].block

CursorInv ==
    /\ IF high.active THEN high.block <= MEMHI /\ MEMHI <= high.block + high.size
                      ELSE Area <= MEMHI /\ MEMHI <= AllocLim
    /\ high.active =>
          /\ pc \in HighPlaces \/ (pc \in Restoring /\ next = "load")
          /\ \E x \in Extents : high.size < x[2]
          /\ Area <= high.low /\ high.low <= AllocLim
          /\ pc = "load" \/ pc \in Restoring => MEMHI = high.block
          /\ pc \in {"init", "commit", "own"} => load = high.block + 1
    /\ pc \in {"commit", "own"} => high.active /\ load \in linked /\ load < MEMHI
    /\ pc = "init" => InitInv

(* Conventional memory that a failing line does not take back ends here.   *)
LowBound == IF high.active THEN high.low
            ELSE IF pc = "init" /\ rest = driver.devices THEN load - 1 ELSE MEMHI

Held(p) ==
    /\ umbReady
    /\ \E h \in UpperHeads : mcb[h].owner = OwnerDos /\ h < p /\ p < Following(mcb, h)

InLine(p) ==
    /\ high.active /\ high.block <= p /\ p < MEMHI
    /\ pc \in {"commit", "own"} \/ (pc = "init" /\ rest # driver.devices)

(* Chained drivers and DPBs lie in conventional memory that stays taken,   *)
(* in blocks DOS owns, or in the part of the line's block that stays.      *)
LinkedInv == \A p \in linked : (Area <= p /\ p < LowBound) \/ Held(p) \/ InLine(p)

(* A block of DOS stands for a reason. *)
Standing(h) ==
    /\ mcb[h].owner = OwnerDos
    /\ \/ RegionOf(regions, h) = {}
       \/ \E i \in DOMAIN regions : h + 1 = regions[i].end
       \/ umbReady /\ \E p \in linked : h < p /\ p < Following(mcb, h)

UpperInv ==
    \A h \in UpperHeads : IsFree(mcb, h) \/ Standing(h) \/ (high.active /\ h = HighHead)

BootInv == pc = "boot" => UmbArenaHead = 0

MemInv == /\ MemType /\ HighInv /\ CursorInv /\ LinkedInv /\ UpperInv
          /\ ExtentInv /\ BootInv

DevInv == PolicyInv /\ IInv /\ MemInv

LEMMA AddressType ==
    /\ Area \in Nat /\ AllocLim \in Nat /\ LowTop \in Nat
    /\ Area <= AllocLim /\ AllocLim < LowTop
BY ArenaAssumption, DeviceHighAssumption, WordSizeAssumption DEF Area, Word

LEMMA DriverType ==
    ASSUME NEW d \in Drivers
    PROVE  /\ d.image \in Nat /\ d.keep \in Nat /\ d.devices \in Seq(Device)
           /\ d.found \in BOOLEAN
           /\ \A j \in DOMAIN d.devices :
                 /\ d.devices[j].units \in Nat /\ d.devices[j].block \in BOOLEAN
                 /\ ~ d.devices[j].block => d.devices[j].units = 0
<1>1. d \in Driver
  BY DeviceHighAssumption
<1>2. d.image \in Nat /\ d.keep \in Nat /\ d.devices \in Seq(Device) /\ d.found \in BOOLEAN
  BY <1>1 DEF Driver, Word
<1>3. ASSUME NEW j \in DOMAIN d.devices
      PROVE  /\ d.devices[j].units \in Nat /\ d.devices[j].block \in BOOLEAN
             /\ ~ d.devices[j].block => d.devices[j].units = 0
  <2>1. d.devices[j] \in Device
    BY <1>2
  <2> QED BY <2>1, DeviceHighAssumption DEF Device
<1> QED BY <1>2, <1>3

(* What calls do to the blocks DOS owns. *)
LEMMA HeldKept ==
    ASSUME NEW B, UpperKept(B), \A h \in B \cap UpperHeads : mcb[h].owner # OwnerDos,
           NEW p, Held(p)
    PROVE  Held(p)'
<1>1. PICK h \in UpperHeads : mcb[h].owner = OwnerDos /\ h < p /\ p < Following(mcb, h)
  BY DEF Held
<1>2. h \notin B /\ ~ IsFree(mcb, h)
  BY <1>1 DEF IsFree, OwnerDos, OwnerSystem
<1>3. /\ h \in UpperHeads' /\ umbReady'
      /\ mcb'[h].owner = mcb[h].owner /\ mcb'[h].size = mcb[h].size
  BY <1>1, <1>2 DEF UpperKept, Held
<1> QED BY <1>1, <1>3 DEF Held, Following

LEMMA UpperStep ==
    ASSUME UpperInv, NEW B, UpperKept(B), linked \subseteq linked',
           NEW h \in UpperHeads' \ B
    PROVE  \/ IsFree(mcb', h) \/ Standing(h)'
           \/ /\ high.active /\ h = HighHead
              /\ h \in UpperHeads /\ ~ IsFree(mcb, h)
<1>1. CASE h \in UpperHeads /\ ~ IsFree(mcb, h) /\ Standing(h)
  <2>1. /\ mcb'[h].owner = mcb[h].owner /\ mcb'[h].size = mcb[h].size
        /\ umbReady' = umbReady /\ DOMAIN regions' = DOMAIN regions
        /\ \A i \in DOMAIN regions : /\ regions'[i].start = regions[i].start
                                     /\ regions'[i].end = regions[i].end
    BY <1>1 DEF UpperKept, SameExtents
  <2>2. RegionOf(regions', h) = RegionOf(regions, h)
    BY <2>1 DEF RegionOf
  <2> QED BY <1>1, <2>1, <2>2 DEF Standing, Following
<1> QED BY <1>1 DEF UpperKept, UpperInv

LEMMA ExtentsKept ==
    ASSUME ExtentInv, NEW B, UpperKept(B)
    PROVE  ExtentInv'
BY DEF ExtentInv, UpperKept, SameExtents

LEMMA FirstDevice ==
    ASSUME InitInv, rest = driver.devices
    PROVE  MEMHI = load
<1>1. Len(rest) \in Nat
  BY DEF InitInv
<1>2. ~ (Len(rest) < Len(driver.devices))
  BY <1>1
<1> QED BY <1>2 DEF InitInv

(* Steps that neither load, initialize, grant nor give back anything. *)
LEMMA CalmStep ==
    ASSUME DevInv, UpperKept({}), MemType',
           UNCHANGED <<MEMHI, linked>>, high'.active = high.active,
           high.active => UNCHANGED high,
           pc \notin {"commit", "own"}, pc = "init" => ~ high.active,
           pc' \notin {"init", "commit", "own", "boot"},
           high.active => pc' = "load" \/ (pc' \in Restoring /\ next' = "load")
    PROVE  MemInv'
<1> USE DEF DevInv, MemInv
<1>1. HighInv'
  <2> SUFFICES ASSUME high.active PROVE HighInv'
    BY DEF HighInv
  <2>1. /\ umbReady /\ HighHead \in UpperHeads /\ mcb[HighHead].owner = CurrentPDB
        /\ mcb[HighHead].size = high.size
    BY DEF HighInv
  <2>2. ~ IsFree(mcb, HighHead)
    BY <2>1, PidType DEF IsFree
  <2>3. HighHead' = HighHead /\ high' = high
    BY DEF HighHead
  <2> QED BY <2>1, <2>2, <2>3 DEF HighInv, UpperKept
<1>2. CursorInv'
  BY DEF CursorInv, HighPlaces
<1>3. LinkedInv'
  <2> SUFFICES ASSUME NEW p \in linked
               PROVE  (Area <= p /\ p < LowBound') \/ Held(p)'
    BY DEF LinkedInv, InLine
  <2>1. ~ InLine(p)
    BY DEF InLine
  <2>2. p \in Nat /\ LowBound <= LowBound' /\ LowBound \in Int /\ LowBound' \in Int /\ Area \in Nat
    <3>1. p \in Nat /\ Area \in Nat /\ MEMHI \in Nat /\ load \in Nat /\ high.low \in Nat
          /\ MEMHI' = MEMHI
      BY AddressType DEF MemType
    <3>2. CASE high.active
      BY <3>1, <3>2 DEF LowBound
    <3>3. CASE ~ high.active /\ pc = "init" /\ rest = driver.devices
      <4>1. MEMHI = load
        BY <3>3, FirstDevice DEF CursorInv
      <4>2. LowBound = load - 1 /\ LowBound' = MEMHI
        BY <3>3 DEF LowBound
      <4> QED BY <3>1, <4>1, <4>2
    <3>4. CASE ~ high.active /\ ~ (pc = "init" /\ rest = driver.devices)
      <4>1. LowBound = MEMHI /\ LowBound' = MEMHI
        BY <3>4 DEF LowBound
      <4> QED BY <3>1, <4>1
    <3> QED BY <3>2, <3>3, <3>4
  <2> QED BY <2>1, <2>2, HeldKept DEF LinkedInv
<1>4. UpperInv'
  <2> SUFFICES ASSUME NEW h \in UpperHeads'
               PROVE  IsFree(mcb', h) \/ Standing(h)' \/ (high'.active /\ h = HighHead')
    BY DEF UpperInv
  <2>1. HighHead' = HighHead \/ ~ high.active
    BY DEF HighHead
  <2> QED BY <2>1, UpperStep
<1>5. ExtentInv' /\ BootInv'
  BY ExtentsKept DEF BootInv
<1> QED BY <1>1, <1>2, <1>3, <1>4, <1>5

(* Calls that do not write the chain. *)
LEMMA NothingKept ==
    ASSUME IInv, UNCHANGED vars
    PROVE  IInv' /\ UpperKept({})
<1>1. IInv'
  BY NextKeepsInvariant
<1>2. UNCHANGED <<mcb, UmbArenaHead, umbReady, CurrentPDB>> /\ SameExtents
  BY DEF vars, umbVars, SameExtents
<1> QED BY <1>1, <1>2, SameChainKept

LEMMA PolicyCallKept ==
    ASSUME IInv, Quiet, UNCHANGED <<mcb, umbVars, CurrentPDB>>,
           AllocMethod' \in AllMethods, UmbRegionFilter' \in SUBSET AllRegions
    PROVE  IInv' /\ UpperKept({})
<1>1. IInv'
  BY PolicyCallGood DEF AllRegions
<1>2. UNCHANGED <<mcb, UmbArenaHead, umbReady, CurrentPDB>> /\ SameExtents
  BY DEF umbVars, SameExtents
<1> QED BY <1>1, <1>2, SameChainKept

LEMMA LimitCallKept ==
    ASSUME IInv, NEW i \in DOMAIN regions, NEW v \in Word, SetRegionLimit(i, v)
    PROVE  IInv' /\ UpperKept({})
<1>1. IInv'
  BY SetRegionLimitKeepsInvariant
<1>2. regions \in Seq(Region)
  BY DEF IInv, TypeOK
<1>3. UNCHANGED <<mcb, UmbArenaHead, umbReady, CurrentPDB>> /\ SameExtents
  BY <1>2, LimitSet DEF SameExtents
<1> QED BY <1>1, <1>3, SameChainKept

LEMMA MethodTypes == UpperOnly \in AllMethods /\ LowFirst \in AllMethods
BY DEF UpperOnly, LowFirst, AllMethods, Fits, Domains

(* SYSINIT takes conventional memory before there is any other. *)
LEMMA TakeMemoryInv ==
    ASSUME DevInv, TakeMemory
    PROVE  IInv' /\ MemInv'
<1>1. /\ AllocOk(mcb[ArenaHead].size) /\ pc = "boot" /\ pc' = "line"
      /\ UNCHANGED <<driver, load, linked, high, MEMHI>>
  BY Zenon DEF TakeMemory, lineVars
<1>2. IInv /\ UmbArenaHead = 0 /\ ~ high.active
  BY <1>1 DEF DevInv, MemInv, BootInv, CursorInv, HighPlaces, Restoring
<1>3. mcb[ArenaHead].size \in Nat
  <2>1. ArenaHead \in DOMAIN mcb /\ ChainType(mcb)
    BY <1>2, StateChain DEF SoundChain, Tiles
  <2> QED BY <2>1, HeaderType
<1>4. Quiet /\ UNCHANGED <<umbVars, profileVars, CurrentPDB>>
  BY <1>1 DEF AllocOk
<1>5. IInv'
  BY <1>1, <1>2, <1>3, <1>4, AllocOkGood, CallKeepsRest
<1>6. UpperKept({})
  BY <1>2, <1>4 DEF UpperKept, UpperHeads, umbVars, SameExtents
<1>7. MemType'
  BY <1>1 DEF DevInv, MemInv, MemType
<1>8. MemInv'
  BY <1>1, <1>2, <1>6, <1>7, CalmStep
<1> QED BY <1>5, <1>8

(* The steps between lines, and the ends of SYSINIT. *)
LEMMA LinesInv ==
    ASSUME DevInv,
           \/ NextLine \/ SaveState \/ ProfileDone \/ ProfileRefused \/ TooBigLow \/ InitStalls
           \/ \E d \in Drivers : DevicePlainLine(d) \/ \E l \in Lines : DeviceHighLine(l, d)
    PROVE  IInv' /\ MemInv'
<1>1. /\ UNCHANGED vars /\ UNCHANGED <<MEMHI, linked, high>>
      /\ pc \in {"done", "acquire", "profile", "load", "init", "line"}
      /\ pc' \in {"line", "load", "link", "alloc", "unlimit", "stalled", "acquire"}
      /\ driver' \in Drivers \cup {driver, NoDriver} /\ load' \in {load, 0}
  BY Zenon DEF NextLine, SaveState, ProfileDone, ProfileRefused, TooBigLow, InitStalls,
     DevicePlainLine, DeviceHighLine, RestoreThen, idleVars, lineVars
<1>2. ~ high.active
  <2>1. pc \in {"load", "init"} => ~ high.active
    BY DEF NextLine, SaveState, ProfileDone, ProfileRefused, TooBigLow, InitStalls,
       DevicePlainLine, DeviceHighLine, BoundsOk
  <2> QED BY <1>1, <2>1 DEF DevInv, MemInv, CursorInv, HighPlaces, Restoring
<1>3. IInv' /\ UpperKept({})
  BY <1>1, NothingKept DEF DevInv
<1>4. MemType'
  BY <1>1 DEF DevInv, MemInv, MemType
<1> QED BY <1>1, <1>2, <1>3, <1>4, CalmStep

(* The steps that change the policy. *)
LEMMA PolicyStepsInv ==
    ASSUME DevInv, Link \/ Strategy \/ SelectRegions \/ ProfileRegion
    PROVE  IInv' /\ MemInv'
<1>1. /\ UNCHANGED <<MEMHI, linked, high, driver, load>>
      /\ pc \in {"link", "strategy", "filter", "profile"}
      /\ pc' \in {"strategy", "filter", "alloc", "profile"}
  <2>1. UNCHANGED <<MEMHI, linked, high, driver, load>>
    BY Zenon DEF Link, Strategy, SelectRegions, ProfileRegion, lineVars
  <2> QED BY <2>1 DEF Link, Strategy, SelectRegions, ProfileRegion
<1>2. ~ high.active
  BY <1>1 DEF DevInv, MemInv, CursorInv, HighPlaces, Restoring
<1>t. /\ line \in Line /\ todo \in SUBSET AllRegions /\ IInv
      /\ AllocMethod \in AllMethods /\ UmbRegionFilter \in SUBSET AllRegions
  BY DEF DevInv, PolicyInv, PolicyType, IInv, TypeOK, AllRegions
<1>3. IInv' /\ UpperKept({})
  <2>1. CASE Link
    BY <1>t, <2>1, LinkKept DEF Link
  <2>2. CASE Strategy
    <3>1. /\ Quiet /\ UNCHANGED <<mcb, umbVars, CurrentPDB, UmbRegionFilter>>
          /\ AllocMethod' = UpperOnly
      BY <2>2 DEF Strategy, SetMethod
    <3> QED BY <1>t, <3>1, MethodTypes, PolicyCallKept
  <2>3. CASE SelectRegions
    <3>1. /\ Quiet /\ UNCHANGED <<mcb, umbVars, CurrentPDB, AllocMethod>>
          /\ UmbRegionFilter' = line.mask
      BY <2>3 DEF SelectRegions, SetRegionFilter
    <3> QED BY <1>t, <3>1, CappedType, PolicyCallKept
  <2>4. CASE ProfileRegion
    <3> DEFINE i == FirstFit(todo)
    <3>1. /\ ~ RegionRefused(i) /\ todo # {}
          /\ IF i \in Capped THEN SetRegionLimit(i, line.minimum[i]) ELSE UNCHANGED vars
      BY <2>4, Zenon DEF ProfileRegion
    <3>2. i \in AllRegions
      BY <1>t, <3>1, NextRegion
    <3>3. i \in DOMAIN regions
      BY <3>1 DEF RegionRefused
    <3>4. line.minimum[i] \in Word
      BY <1>t, <3>2, CappedType
    <3> HIDE DEF i
    <3> QED BY <1>t, <3>1, <3>3, <3>4, LimitCallKept, NothingKept
  <2> QED BY <2>1, <2>2, <2>3, <2>4
<1>4. MemType'
  BY <1>1 DEF DevInv, MemInv, MemType
<1> QED BY <1>1, <1>2, <1>3, <1>4, CalmStep

LEMMA RestoringInv ==
    ASSUME DevInv, Unlimit \/ Unfilter \/ Unstrategy \/ Unlink
    PROVE  IInv' /\ MemInv'
<1>1. /\ UNCHANGED <<MEMHI, linked, high, driver, load, next>>
      /\ pc \in Restoring
      /\ pc' \in Restoring \cup {next}
  <2>1. UNCHANGED <<MEMHI, linked, high, driver, load, next>>
    BY Zenon DEF Unlimit, Unfilter, Unstrategy, Unlink, lineVars
  <2> QED BY <2>1 DEF Unlimit, Unfilter, Unstrategy, Unlink, Restoring
<1>2. /\ line \in Line /\ todo \in SUBSET AllRegions /\ IInv /\ next \in {"load", "done"}
      /\ old.strategy = LowFirst /\ old.link = FALSE /\ old.filter = AllRegions
      /\ AllocMethod \in AllMethods /\ UmbRegionFilter \in SUBSET AllRegions
  BY DEF DevInv, PolicyInv, PolicyType, IInv, TypeOK, AllRegions
<1>3. /\ pc \notin {"commit", "own", "init"}
      /\ pc' \notin {"init", "commit", "own", "boot"}
      /\ high.active => pc' = "load" \/ (pc' \in Restoring /\ next' = "load")
  <2>1. high.active => next = "load"
    BY <1>1 DEF DevInv, MemInv, CursorInv, HighPlaces, Restoring
  <2> QED BY <1>1, <1>2, <2>1 DEF Restoring
<1>4. IInv' /\ UpperKept({})
  <2>1. CASE Unlimit
    <3> DEFINE i == FirstFit(todo)
    <3>1. UNCHANGED vars \/ (i \in DOMAIN regions /\ SetRegionLimit(i, NoLimit))
      BY <2>1, Zenon DEF Unlimit
    <3>2. NoLimit \in Word
      BY WordSizeAssumption DEF NoLimit, Word
    <3> HIDE DEF i
    <3> QED BY <1>2, <3>1, <3>2, LimitCallKept, NothingKept
  <2>2. CASE Unfilter
    <3>1. UNCHANGED vars \/ SetRegionFilter(old.filter)
      BY <2>2 DEF Unfilter
    <3>2. ASSUME SetRegionFilter(old.filter) PROVE IInv' /\ UpperKept({})
      <4>1. /\ Quiet /\ UNCHANGED <<mcb, umbVars, CurrentPDB, AllocMethod>>
            /\ UmbRegionFilter' = AllRegions
        BY <1>2, <3>2 DEF SetRegionFilter
      <4> QED BY <1>2, <4>1, PolicyCallKept
    <3> QED BY <1>2, <3>1, <3>2, NothingKept
  <2>3. CASE Unstrategy
    <3>1. /\ Quiet /\ UNCHANGED <<mcb, umbVars, CurrentPDB, UmbRegionFilter>>
          /\ AllocMethod' = LowFirst
      BY <1>2, <2>3 DEF Unstrategy, SetMethod
    <3> QED BY <1>2, <3>1, MethodTypes, PolicyCallKept
  <2>4. CASE Unlink
    BY <1>2, <2>4, LinkKept DEF Unlink
  <2> QED BY <2>1, <2>2, <2>3, <2>4
<1>5. MemType'
  BY <1>1 DEF DevInv, MemInv, MemType
<1> QED BY <1>1, <1>3, <1>4, <1>5, CalmStep

-----------------------------------------------------------------------------
(* The grant of a block, and its return. *)

LEMMA RoomType ==
    ASSUME IInv, NEW m, NEW h \in Nat, m[h].size \in Nat
    PROVE  Room(m, regions, h) \in Int /\ Room(m, regions, h) <= m[h].size
<1> DEFINE caps == {CapEnd(regions[i]) - (h + 1) : i \in RegionOf(regions, h)}
<1>1. ASSUME NEW c \in caps PROVE c \in Int
  <2>1. PICK i \in RegionOf(regions, h) : c = CapEnd(regions[i]) - (h + 1)
    BY <1>1
  <2>2. regions[i] \in Region
    BY <2>1 DEF RegionOf, IInv, TypeOK
  <2>3. CapEnd(regions[i]) \in Int
    <3>1. /\ regions[i].start \in Int /\ regions[i].limit \in Int
          /\ regions[i].end \in Int
      BY <2>2 DEF Region, Word
    <3>2. (regions[i].start + regions[i].limit + 1) % WordSize \in Int
      BY <3>1, WordSizeAssumption
    <3> QED BY <3>1, <3>2 DEF CapEnd
  <2> QED BY <2>1, <2>3
<1>2. CASE \E c \in caps : c < m[h].size
  <2>1. Room(m, regions, h) \in caps /\ Room(m, regions, h) < m[h].size
    BY <1>2 DEF Room
  <2> HIDE DEF caps
  <2>2. Room(m, regions, h) \in Int
    BY <2>1, <1>1
  <2> QED BY <2>1, <2>2
<1>3. CASE ~ \E c \in caps : c < m[h].size
  <2>1. Room(m, regions, h) = m[h].size
    BY <1>3 DEF Room
  <2> QED BY <2>1
<1> QED BY <1>2, <1>3

LEMMA LargestType ==
    ASSUME IInv
    PROVE  Largest \in Nat
<1> DEFINE m == CoalesceAll(mcb, FirstScan)
           S == {Room(m, regions, h) : h \in FirstScan \cap DOMAIN m}
<1>1. FirstScan \in SUBSET DOMAIN mcb
  BY DEF FirstScan, FreeLow, FreeUpper, LowHeads, UpperHeads
<1>2. SoundChain(m, ArenaHead, Top, Ends)
  BY <1>1, StateChain, CoalesceSound
<1> HIDE DEF m
<1>3. Top \in Nat
  BY <1>2 DEF SoundChain
<1>4. ASSUME NEW h \in DOMAIN m
      PROVE  Room(m, regions, h) \in Int /\ Room(m, regions, h) <= Top
  <2>1. /\ h \in Nat /\ m[h].size \in Nat /\ Following(m, h) \in Nat
        /\ Following(m, h) <= Top
    BY <1>2, HeaderType DEF SoundChain, Tiles
  <2>2. m[h].size <= Top
    BY <1>3, <2>1 DEF Following
  <2>3. Room(m, regions, h) \in Int /\ Room(m, regions, h) <= m[h].size
    BY <2>1, RoomType
  <2> QED BY <1>3, <2>1, <2>2, <2>3
<1>5. S \cup {0} \in SUBSET Int /\ 0 \in S \cup {0} /\ \A x \in S \cup {0} : x <= Top
  BY <1>3, <1>4
<1>6. LastFit(S \cup {0}) \in S \cup {0} /\ 0 <= LastFit(S \cup {0})
  BY <1>3, <1>5, LargestOf
<1>7. LastFit(S \cup {0}) \in Nat
  BY <1>5, <1>6
<1> QED BY <1>7 DEF Largest, m

LEMMA AskLargestInv ==
    ASSUME DevInv, AskLargest
    PROVE  IInv' /\ MemInv'
<1>1. /\ AllocFail(NoLimit) /\ pc = "alloc" /\ pc' \in {"unlimit", "retry"}
      /\ high' = high \/ high' = [high EXCEPT !.size = Largest]
      /\ UNCHANGED <<MEMHI, linked, driver, load>>
  BY Zenon DEF AskLargest, RestoreThen, lineVars
<1>2. IInv /\ ~ high.active
  BY <1>1 DEF DevInv, MemInv, CursorInv, HighPlaces, Restoring
<1>3. IInv' /\ UpperKept({})
  BY <1>1, <1>2, AskKept
<1>4. /\ high' \in [active : BOOLEAN, block : Nat, size : Nat, low : Nat]
      /\ high'.active = high.active
  <2>1. high \in [active : BOOLEAN, block : Nat, size : Nat, low : Nat] /\ Largest \in Nat
    BY <1>2, LargestType DEF DevInv, MemInv, MemType
  <2>2. CASE high' = high
    BY <2>1, <2>2
  <2>3. CASE high' = [high EXCEPT !.size = Largest]
    BY <2>1, <2>3
  <2> QED BY <1>1, <2>2, <2>3
<1>5. MemType'
  BY <1>1, <1>4 DEF DevInv, MemInv, MemType
<1> QED BY <1>1, <1>2, <1>3, <1>4, <1>5, CalmStep

LEMMA TakeLargestInv ==
    ASSUME DevInv, TakeLargest
    PROVE  IInv' /\ MemInv'
<1> USE DEF DevInv, MemInv
<1> DEFINE b == GrantedHead
<1>1. /\ AllocOk(high.size) /\ pc = "retry" /\ pc' = "unlimit" /\ next' = "load"
      /\ MEMHI' = b + 1
      /\ high' = [high EXCEPT !.active = TRUE, !.block = MEMHI', !.low = MEMHI]
      /\ UNCHANGED <<driver, load, rest, linked>>
  BY Zenon DEF TakeLargest, RestoreThen, lineVars, GrantedHead
<1>2. ~ high.active
  BY <1>1 DEF CursorInv, HighPlaces, Restoring
<1>3. UmbLinked /\ AllocMethod = UpperOnly /\ high.size \in Nat
  BY <1>1 DEF PolicyInv, Changing, MemType
<1>4. /\ IInv' /\ UpperKept({b}) /\ b \in UpperHeads'
      /\ mcb'[b].owner = CurrentPDB /\ mcb'[b].size = high.size
      /\ \E i \in DOMAIN regions : high.size < regions[i].end - regions[i].start
  BY <1>1, <1>3, TakeKept
<1>5. b \in Nat
  <2>1. DOMAIN mcb' \subseteq Word
    BY <1>4 DEF IInv, TypeOK
  <2> QED BY <1>4, <2>1 DEF UpperHeads, Word
<1>6. /\ high'.active = TRUE /\ high'.block = b + 1 /\ high'.size = high.size
      /\ high'.low = MEMHI
      /\ high' \in [active : BOOLEAN, block : Nat, size : Nat, low : Nat]
  <2>1. high \in [active : BOOLEAN, block : Nat, size : Nat, low : Nat] /\ MEMHI \in Nat
        /\ MEMHI' \in Nat /\ MEMHI' = b + 1
    BY <1>1, <1>5 DEF MemType
  <2> HIDE DEF b
  <2> QED BY <1>1, <2>1
<1>7. PICK x \in Extents : high.size < x[2]
  <2>1. PICK i \in DOMAIN regions : high.size < regions[i].end - regions[i].start
    BY <1>4
  <2> QED BY <2>1 DEF ExtentInv
<1>8. umbReady /\ umbReady' /\ CurrentPDB' = CurrentPDB
  BY <1>3, <1>4 DEF IInv, BootState, UpperKept
<1> HIDE DEF b
<1>9. HighHead' = b
  BY <1>5, <1>6 DEF HighHead
<1>10. HighInv'
  BY <1>1, <1>4, <1>6, <1>8, <1>9 DEF HighInv
<1>11. Area <= MEMHI /\ MEMHI <= AllocLim
  BY <1>2 DEF CursorInv
<1>12. CursorInv'
  <2>1. MEMHI' <= high'.block + high'.size /\ high'.block <= MEMHI'
    BY <1>1, <1>3, <1>5, <1>6
  <2> QED BY <1>1, <1>6, <1>7, <1>11, <2>1 DEF CursorInv, Restoring
<1>13. LinkedInv'
  <2> SUFFICES ASSUME NEW p \in linked
               PROVE  (Area <= p /\ p < LowBound') \/ Held(p)'
    BY <1>1 DEF LinkedInv
  <2>1. ~ InLine(p) /\ LowBound = MEMHI /\ LowBound' = MEMHI
    BY <1>1, <1>2, <1>6 DEF InLine, LowBound
  <2>2. mcb[b].owner # OwnerDos \/ b \notin UpperHeads
    <3>1. CASE b \in UpperHeads /\ mcb[b].owner = OwnerDos
      <4>1. ~ IsFree(mcb, b)
        BY <3>1 DEF IsFree, OwnerDos, OwnerSystem
      <4>2. b \in DOMAIN mcb
        BY <3>1 DEF UpperHeads
      <4>3. GoodStep
        BY <1>1, <1>3, AllocOkGood
      <4>4. mcb'[b].owner = OwnerDos
        BY <3>1, <4>2, <4>3, PidType DEF GoodStep, Untouched, OwnerDos, OwnerSystem
      <4> QED BY <1>4, <4>4, PidType
    <3> QED BY <3>1
  <2> QED BY <1>4, <2>1, <2>2, HeldKept DEF LinkedInv
<1>14. UpperInv'
  <2> SUFFICES ASSUME NEW h \in UpperHeads', h # b
               PROVE  IsFree(mcb', h) \/ Standing(h)'
    BY <1>6, <1>9 DEF UpperInv
  <2> QED BY <1>1, <1>2, <1>4, UpperStep
<1>15. MemType'
  BY <1>1, <1>5, <1>6 DEF MemType
<1>16. ExtentInv' /\ BootInv'
  BY <1>1, <1>4, ExtentsKept DEF BootInv
<1> QED BY <1>4, <1>10, <1>12, <1>13, <1>14, <1>15, <1>16

(* The registration. *)
LEMMA AcquireInv ==
    ASSUME DevInv, Acquire
    PROVE  IInv' /\ MemInv'
<1> USE DEF DevInv, MemInv
<1>1. /\ Registration /\ pc = "acquire"
      /\ UNCHANGED <<pc, next, high, MEMHI, driver, load, rest, linked>>
  BY DEF Acquire, devVars
<1>2. ~ high.active
  BY <1>1 DEF CursorInv, HighPlaces, Restoring
<1>3. ~ umbReady
  <2>1. ASSUME NEW x \in Extents, RegisterFirst(x[1], x[2]) PROVE ~ umbReady
    BY <2>1, LowTailIsLast DEF RegisterFirst
  <2>2. ASSUME NEW x \in Extents, RegisterAppend(x[1], x[2]) PROVE ~ umbReady
    BY <2>2 DEF RegisterAppend
  <2>3. FinalizeUmb \/ ResetUmb => ~ umbReady
    BY DEF FinalizeUmb, ResetUmb
  <2> QED BY <1>1, <2>1, <2>2, <2>3 DEF Registration
<1>4. \A h \in UpperHeads : Placed(h)
  BY <1>2, <1>3 DEF UpperInv, Standing, Placed
<1>5. /\ IInv' /\ \A h \in UpperHeads' : Placed(h)'
      /\ ExtentInv'
  BY <1>1, <1>4, RegistrationPlaced
<1>6. UpperInv'
  BY <1>5 DEF UpperInv, Standing, Placed
<1>7. LinkedInv'
  <2>1. \A p \in linked : Area <= p /\ p < LowBound
    BY <1>1, <1>3 DEF LinkedInv, Held, InLine
  <2>2. LowBound' = LowBound
    BY <1>1 DEF LowBound
  <2> QED BY <1>1, <2>1, <2>2 DEF LinkedInv
<1>8. MemType' /\ HighInv' /\ CursorInv' /\ BootInv'
  BY <1>1, <1>2 DEF MemType, HighInv, CursorInv, BootInv
<1> QED BY <1>5, <1>6, <1>7, <1>8

-----------------------------------------------------------------------------
(* Loading the file. *)

LEMMA FailInv ==
    ASSUME DevInv, NEW k \in {"load", "done"}, NEW memhi, Fail(k, memhi),
           pc \in {"load", "init"}, UNCHANGED <<driver, load, rest>>,
           linked \subseteq linked', linked' \in SUBSET Nat,
           high.active => linked' = linked /\ (pc = "init" => rest = driver.devices),
           ~ high.active =>
              /\ memhi \in Nat /\ Area <= memhi /\ memhi <= AllocLim
              /\ \A p \in linked' : (Area <= p /\ p < memhi) \/ (p \in linked /\ Held(p))
    PROVE  IInv' /\ MemInv'
<1> USE DEF DevInv, MemInv
<1>1. CASE high.active
  <2>1. /\ Dealloc(HighHead) /\ MEMHI' = high.low /\ high' = NotHigh
        /\ pc' = "unlimit" /\ next' = k /\ linked' = linked
    BY <1>1 DEF Fail, RestoreThen, HighHead
  <2>2. ~ high'.active /\ high' \in [active : BOOLEAN, block : Nat, size : Nat, low : Nat]
    BY <2>1 DEF NotHigh
  <2>3. HighHead \in UpperHeads /\ mcb[HighHead].owner = CurrentPDB
    BY <1>1 DEF HighInv
  <2>4. OwnerSystem \in Nat
    BY DEF OwnerSystem
  <2>5. /\ Quiet /\ mcb' = Give(mcb, HighHead, OwnerSystem)
        /\ UNCHANGED <<umbVars, profileVars, CurrentPDB>>
    BY <2>1 DEF Dealloc
  <2>6. /\ IInv' /\ UpperKept({HighHead}) /\ mcb'[HighHead].owner = OwnerSystem
    BY <2>3, <2>4, <2>5, GiveKept
  <2>7. UpperInv'
    <3> SUFFICES ASSUME NEW h \in UpperHeads' PROVE IsFree(mcb', h) \/ Standing(h)'
      BY DEF UpperInv
    <3>1. CASE h = HighHead
      BY <2>6, <3>1 DEF IsFree
    <3>2. CASE h # HighHead
      <4>1. h \in UpperHeads' \ {HighHead} /\ linked \subseteq linked'
        BY <2>1, <3>2
      <4> QED BY <2>6, <3>2, <4>1, UpperStep
    <3> QED BY <3>1, <3>2
  <2>8. LinkedInv'
    <3> SUFFICES ASSUME NEW p \in linked PROVE (Area <= p /\ p < LowBound') \/ Held(p)'
      BY <2>1 DEF LinkedInv
    <3>1. ~ InLine(p)
      BY <1>1 DEF InLine
    <3>2. LowBound = high.low /\ LowBound' = high.low
      BY <1>1, <2>1, <2>2 DEF LowBound
    <3>3. \A h \in {HighHead} \cap UpperHeads : mcb[h].owner # OwnerDos
      BY <2>3, PidType
    <3> QED BY <2>6, <3>1, <3>2, <3>3, HeldKept DEF LinkedInv
  <2>9. CursorInv'
    BY <1>1, <2>1, <2>2 DEF CursorInv
  <2>10. MemType' /\ HighInv' /\ ExtentInv' /\ BootInv'
    BY <2>1, <2>2, <2>6, ExtentsKept DEF MemType, HighInv, BootInv
  <2> QED BY <2>6, <2>7, <2>8, <2>9, <2>10
<1>2. CASE ~ high.active
  <2>1. pc' = k /\ MEMHI' = memhi /\ UNCHANGED <<vars, high, next>>
    BY <1>2 DEF Fail
  <2>2. IInv' /\ UpperKept({})
    BY <2>1, NothingKept
  <2>3. UpperInv'
    BY <1>2, <2>1, <2>2, UpperStep DEF UpperInv
  <2>4. LinkedInv'
    <3> SUFFICES ASSUME NEW p \in linked' PROVE (Area <= p /\ p < LowBound') \/ Held(p)'
      BY DEF LinkedInv
    <3>1. LowBound' = memhi
      BY <1>2, <2>1 DEF LowBound
    <3> QED BY <1>2, <2>2, <3>1, HeldKept
  <2>5. MemType' /\ HighInv' /\ CursorInv' /\ ExtentInv' /\ BootInv'
    BY <1>2, <2>1, <2>2, ExtentsKept DEF MemType, HighInv, CursorInv, BootInv
  <2> QED BY <2>2, <2>3, <2>4, <2>5
<1> QED BY <1>1, <1>2

(* Only the first device of a file can give up. *)
LEMMA GivesUpFirst ==
    ASSUME DriversFit, DevInv, pc = "init",
           Erased(Head(rest)) \/ Head(rest).block
    PROVE  rest = driver.devices
<1> USE DEF DevInv, MemInv
<1>1. InitInv
  BY DEF CursorInv
<1>2. SUFFICES ASSUME rest # driver.devices PROVE FALSE
  OBVIOUS
<1>3. /\ Len(rest) < Len(driver.devices) /\ MEMHI = load + driver.keep
      /\ \A j \in DOMAIN rest : ~ rest[j].block
      /\ rest \in Seq(Device) /\ rest # <<>> /\ driver \in Drivers /\ driver.found
  BY <1>1, <1>2 DEF InitInv
<1>4. driver.keep > 0 /\ driver.keep \in Nat
  <2>1. Len(driver.devices) > 1
    <3>1. Len(rest) >= 1 /\ Len(rest) \in Nat
      BY <1>3
    <3>2. Len(driver.devices) \in Nat
      BY <1>3, DriverType
    <3> QED BY <1>3, <3>1, <3>2
  <2> QED BY <1>3, <2>1, DriverType DEF DriversFit
<1>5. ~ Head(rest).block
  <2>1. 1 \in DOMAIN rest /\ Head(rest) = rest[1]
    BY <1>3
  <2> QED BY <1>3, <2>1
<1>6. ~ BreakFailed
  BY <1>2 DEF BreakFailed, First
<1>7. ~ high.active /\ BreakAddr >= LowTop
  BY <1>5, <1>6 DEF Erased
<1>8. BreakAddr = MEMHI /\ MEMHI <= AllocLim /\ MEMHI \in Nat
  BY <1>3, <1>7 DEF BreakAddr, CursorInv, MemType
<1> QED BY <1>7, <1>8, AddressType

(* Before the first device of a file. *)
LEMMA AtFirst ==
    ASSUME DriversFit, DevInv, pc = "init", rest = driver.devices
    PROVE  /\ driver \in Drivers /\ driver.found /\ MEMHI = load
           /\ driver.image \in Nat /\ driver.keep \in Nat
           /\ driver.devices \in Seq(Device) /\ driver.devices # <<>>
           /\ 1 \in DOMAIN driver.devices /\ Head(rest) = driver.devices[1]
           /\ ~ high.active => Area < load /\ LowBound = load - 1
           /\ high.active =>
                 /\ load = high.block + 1 /\ load + driver.image <= high.block + high.size
                 /\ driver.keep + Head(rest).units <= driver.image
                 /\ ~ Head(rest).badBpb
<1> USE DEF DevInv, MemInv
<1>1. InitInv
  BY DEF CursorInv
<1>2. MEMHI = load
  BY <1>1, FirstDevice
<1>3. /\ driver \in Drivers /\ driver.found /\ rest # <<>>
      /\ driver.image \in Nat /\ driver.keep \in Nat /\ driver.devices \in Seq(Device)
  BY <1>1, DriverType DEF InitInv
<1>4. 1 \in DOMAIN driver.devices /\ Head(rest) = driver.devices[1]
  BY <1>3
<1>5. ~ high.active => Area < load /\ LowBound = load - 1
  BY <1>1 DEF InitInv, LowBound
<1>6. ASSUME high.active
      PROVE  /\ load = high.block + 1 /\ load + driver.image <= high.block + high.size
             /\ driver.keep + Head(rest).units <= driver.image
             /\ ~ Head(rest).badBpb
  <2>1. load = high.block + 1 /\ load + driver.image <= high.block + high.size
    BY <1>1, <1>6 DEF InitInv, CursorInv
  <2>2. PICK x \in Extents : high.size < x[2]
    BY <1>6 DEF CursorInv
  <2>3. ~ NeverHigh(driver)
    <3>1. x[2] \in Nat /\ high.size \in Nat /\ high.block \in Nat
      BY ExtentType DEF MemType
    <3>2. ~ (x[2] <= driver.image + 1)
      BY <1>3, <2>1, <2>2, <3>1
    <3> QED BY <3>2 DEF NeverHigh
  <2> QED BY <1>3, <1>4, <2>1, <2>3 DEF DriversFit
<1> QED BY <1>2, <1>3, <1>4, <1>5, <1>6

(* A line that fails. *)
LEMMA FailuresInv ==
    ASSUME DriversFit, DevInv, NotLoaded \/ TooBigHigh \/ EraseDevice \/ BadSector
    PROVE  IInv' /\ MemInv'
<1> USE DEF DevInv, MemInv
<1>t. MEMHI \in Nat /\ load \in Nat /\ linked \in SUBSET Nat /\ Area \in Nat /\ AllocLim \in Nat
  BY AddressType DEF MemType
<1>1. CASE NotLoaded \/ TooBigHigh
  <2>1. PICK k \in {"load", "done"} : Fail(k, MEMHI)
    BY <1>1 DEF NotLoaded, TooBigHigh
  <2>2. pc = "load" /\ UNCHANGED <<driver, load, rest, linked>>
    BY <1>1 DEF NotLoaded, TooBigHigh, lineVars
  <2>3. ~ high.active =>
           /\ Area <= MEMHI /\ MEMHI <= AllocLim
           /\ \A p \in linked : (Area <= p /\ p < MEMHI) \/ Held(p)
    BY <2>2 DEF CursorInv, LinkedInv, LowBound, InLine
  <2> QED BY <1>t, <2>1, <2>2, <2>3, FailInv
<1>2. CASE EraseDevice
  <2>1. /\ pc = "init" /\ Erased(Head(rest))
        /\ Fail("done", IF BreakDone THEN MEMHI ELSE MEMHI - 1)
        /\ UNCHANGED <<driver, load, rest, linked>>
    BY <1>2 DEF EraseDevice, lineVars
  <2>2. rest = driver.devices
    BY <2>1, GivesUpFirst
  <2>3. ~ BreakDone
    <3>1. Len(rest) \in Nat /\ driver.keep \in Nat
      BY <2>1, <2>2, AtFirst
    <3> QED BY <2>2, <3>1 DEF BreakDone
  <2>4. Fail("done", MEMHI - 1)
    BY <2>1, <2>3
  <2>5. ~ high.active =>
           /\ MEMHI - 1 \in Nat /\ Area <= MEMHI - 1 /\ MEMHI - 1 <= AllocLim
           /\ \A p \in linked : (Area <= p /\ p < MEMHI - 1) \/ Held(p)
    <3> SUFFICES ASSUME ~ high.active
                 PROVE  /\ MEMHI - 1 \in Nat /\ Area <= MEMHI - 1 /\ MEMHI - 1 <= AllocLim
                        /\ \A p \in linked : (Area <= p /\ p < MEMHI - 1) \/ Held(p)
      OBVIOUS
    <3>1. MEMHI = load /\ Area < load /\ LowBound = load - 1 /\ MEMHI <= AllocLim
      BY <2>1, <2>2, AtFirst DEF CursorInv
    <3>2. \A p \in linked : (Area <= p /\ p < MEMHI - 1) \/ Held(p)
      BY <3>1 DEF LinkedInv, InLine
    <3> QED BY <1>t, <3>1, <3>2
  <2> QED BY <1>t, <2>1, <2>2, <2>4, <2>5, FailInv
<1>3. CASE BadSector
  <2> DEFINE d == Head(rest)
             memhi == AfterBreak + d.units - IF BreakFailed THEN 1 ELSE 0
  <2>1. /\ pc = "init" /\ d.block /\ d.badBpb /\ InitOk(d)
        /\ linked' = linked \cup Dpbs(d)
        /\ Fail("done", memhi) /\ UNCHANGED <<driver, load, rest>>
    BY <1>3 DEF BadSector
  <2>2. rest = driver.devices
    BY <2>1, GivesUpFirst
  <2>3. /\ driver \in Drivers /\ driver.found /\ MEMHI = load /\ driver.keep \in Nat
        /\ d = driver.devices[1] /\ 1 \in DOMAIN driver.devices
        /\ ~ high.active /\ Area < load /\ LowBound = load - 1
    BY <2>1, <2>2, AtFirst
  <2>4. driver.keep > 0 /\ d.units \in Nat
    BY <2>1, <2>3, DriverType DEF DriversFit
  <2>5. ~ BreakFailed /\ AfterBreak = load + driver.keep /\ memhi = load + driver.keep + d.units
    BY <1>t, <2>3, <2>4 DEF BreakFailed, AfterBreak, BreakAddr
  <2>6. memhi < AllocLim
    BY <2>1, <2>3, <2>4, <2>5 DEF InitOk, BoundsOk
  <2>7. \A p \in linked' : p \in Nat /\ ((Area <= p /\ p < memhi) \/ (p \in linked /\ Held(p)))
    <3> SUFFICES ASSUME NEW p \in linked'
                 PROVE  p \in Nat /\ ((Area <= p /\ p < memhi) \/ (p \in linked /\ Held(p)))
      OBVIOUS
    <3>1. CASE p \in linked
      <4>1. (Area <= p /\ p < load - 1) \/ Held(p)
        BY <2>3, <3>1 DEF LinkedInv, InLine
      <4> QED BY <1>t, <2>3, <2>4, <2>5, <3>1, <4>1
    <3>2. CASE p \in Dpbs(d)
      <4>1. p \in load + driver.keep .. load + driver.keep + d.units - 1
        BY <2>5, <3>2 DEF Dpbs
      <4> QED BY <1>t, <2>3, <2>4, <2>5, <4>1
    <3> QED BY <2>1, <3>1, <3>2
  <2>8. memhi \in Nat /\ Area <= memhi /\ memhi <= AllocLim
    BY <1>t, <2>3, <2>4, <2>5, <2>6
  <2> HIDE DEF memhi
  <2> QED BY <2>1, <2>3, <2>7, <2>8, FailInv
<1> QED BY <1>1, <1>2, <1>3

(* The chain does not change while a file is loaded and initialized. *)
LEMMA FileStep ==
    ASSUME DevInv, UNCHANGED <<vars, high>>, linked \subseteq linked', pc # "boot", pc' # "boot",
           pc # "own", pc' # "own", MemType', CursorInv', LinkedInv'
    PROVE  IInv' /\ MemInv'
<1> USE DEF DevInv, MemInv
<1>1. IInv' /\ UpperKept({}) /\ UNCHANGED <<mcb, UmbArenaHead, CurrentPDB, umbReady>>
  BY NothingKept DEF vars, umbVars
<1>2. HighInv'
  BY <1>1 DEF HighInv, HighHead, UpperHeads
<1>3. UpperInv'
  <2> SUFFICES ASSUME NEW h \in UpperHeads'
               PROVE  IsFree(mcb', h) \/ Standing(h)' \/ (high'.active /\ h = HighHead')
    BY DEF UpperInv
  <2>1. HighHead' = HighHead /\ high'.active = high.active
    BY DEF HighHead
  <2> QED BY <1>1, <2>1, UpperStep
<1> QED BY <1>1, <1>2, <1>3, ExtentsKept DEF BootInv

LEMMA LoadInv ==
    ASSUME DriversFit, DevInv, Load
    PROVE  IInv' /\ MemInv'
<1> USE DEF DevInv, MemInv
<1>1. /\ pc = "load" /\ pc' = "init" /\ driver.found /\ rest' = driver.devices
      /\ IF high.active THEN LoadEnd <= high.block + high.size ELSE LoadEnd < AllocLim
      /\ load' = MEMHI + 1 /\ MEMHI' = MEMHI + 1
      /\ UNCHANGED <<vars, next, high, driver, linked>>
  BY DEF Load
<1>t. /\ MEMHI \in Nat /\ high.block \in Nat /\ high.size \in Nat /\ high.low \in Nat
      /\ Area \in Nat /\ AllocLim \in Nat
  BY AddressType DEF MemType
<1>2. driver \in Drivers /\ driver.image \in Nat /\ driver.devices \in Seq(Device)
      /\ driver.devices # <<>>
  <2>1. driver \in Drivers
    BY <1>1 DEF MemType, NoDriver
  <2> QED BY <1>1, <2>1, DriverType, DeviceHighAssumption
<1>3. LoadEnd = MEMHI + 1 + driver.image
  BY DEF LoadEnd
<1>4. high.active => MEMHI = high.block
  BY <1>1 DEF CursorInv
<1>5. ~ high.active => Area <= MEMHI
  BY DEF CursorInv
<1>6. InitInv'
  BY <1>1, <1>2, <1>3, <1>5, <1>t DEF InitInv
<1>7. CursorInv'
  BY <1>1, <1>2, <1>3, <1>4, <1>5, <1>6, <1>t DEF CursorInv, HighPlaces, Restoring
<1>8. LinkedInv'
  <2> SUFFICES ASSUME NEW p \in linked PROVE (Area <= p /\ p < LowBound') \/ Held(p)'
    BY <1>1 DEF LinkedInv
  <2>1. LowBound' = LowBound
    <3>1. CASE high.active
      BY <1>1, <3>1 DEF LowBound
    <3>2. CASE ~ high.active
      <4>1. rest' = driver'.devices /\ pc' = "init" /\ pc = "load" /\ ~ high'.active
            /\ load' = MEMHI + 1
        BY <1>1, <3>2
      <4>2. LowBound = MEMHI
        BY <3>2, <4>1 DEF LowBound
      <4>3. LowBound' = load' - 1
        BY <4>1 DEF LowBound
      <4> QED BY <4>1, <4>2, <4>3, <1>t
    <3> QED BY <3>1, <3>2
  <2>2. ~ InLine(p)
    BY <1>1 DEF InLine
  <2>3. UpperKept({})
    BY <1>1, NothingKept
  <2> QED BY <2>1, <2>2, <2>3, HeldKept DEF LinkedInv
<1>9. MemType'
  BY <1>1, <1>t DEF MemType
<1> QED BY <1>1, <1>7, <1>8, <1>9, FileStep

LEMMA LinkDeviceInv ==
    ASSUME DriversFit, DevInv, LinkDevice
    PROVE  IInv' /\ MemInv'
<1> USE DEF DevInv, MemInv
<1> DEFINE d == Head(rest)
<1>1. /\ pc = "init" /\ InitOk(d)
      /\ linked' = linked \cup Resident \cup Dpbs(d)
      /\ MEMHI' = AfterBreak + d.units
      /\ rest' = Tail(rest)
      /\ pc' = IF rest' # <<>> THEN "init" ELSE IF high.active THEN "commit" ELSE "done"
      /\ UNCHANGED <<vars, next, high, driver, load>>
  BY DEF LinkDevice
<1>t. /\ MEMHI \in Nat /\ load \in Nat /\ high.block \in Nat /\ high.size \in Nat
      /\ high.low \in Nat /\ linked \in SUBSET Nat /\ Area \in Nat /\ AllocLim \in Nat
  BY AddressType DEF MemType
<1>2. /\ InitInv /\ driver \in Drivers /\ driver.found
      /\ driver.image \in Nat /\ driver.keep \in Nat /\ driver.devices \in Seq(Device)
      /\ rest \in Seq(Device) /\ rest # <<>> /\ Len(rest) \in Nat /\ Len(rest) > 0
      /\ 1 \in DOMAIN rest /\ d = rest[1]
  <2>1. InitInv
    BY <1>1 DEF CursorInv
  <2> QED BY <2>1, DriverType DEF InitInv
<1>3. d.units \in Nat /\ (~ d.block => d.units = 0)
  <2>1. d \in Device
    BY <1>2
  <2> QED BY <2>1, DeviceHighAssumption DEF Device
<1>k. /\ MEMHI' = AfterBreak + d.units /\ d.units \in Nat
      /\ driver.keep \in Nat /\ driver.image \in Nat
  BY <1>1, <1>2, <1>3
<1> HIDE DEF d
(* What the device keeps. *)
<1>4. /\ MEMHI' \in Nat /\ load < MEMHI' /\ MEMHI <= MEMHI'
      /\ BreakAddr <= MEMHI' /\ AfterBreak \in Nat /\ load <= AfterBreak
      /\ high.active => MEMHI' <= high.block + high.size
      /\ rest = driver.devices \/ MEMHI' = MEMHI
  <2>1. CASE rest = driver.devices
    <3>1. /\ MEMHI = load
          /\ high.active => /\ load + driver.image <= high.block + high.size
                            /\ driver.keep + d.units <= driver.image
      BY <1>1, <2>1, AtFirst DEF d
    <3>2. CASE BreakFailed
      <4>1. driver.keep = 0 /\ AfterBreak = load /\ BreakAddr = load
        BY <1>t, <3>1, <3>2 DEF BreakFailed, AfterBreak, BreakAddr
      <4>2. d.units # 0
        BY <1>1, <1>3, <3>2 DEF InitOk, Erased
      <4>3. MEMHI' = load + d.units /\ d.units > 0 /\ d.units \in Nat
        BY <1>k, <4>1, <4>2
      <4>4. high.active => load + d.units <= high.block + high.size
        <5>1. high.active => d.units <= driver.image
          BY <1>k, <3>1, <4>1
        <5> QED BY <1>k, <1>t, <3>1, <5>1
      <4> QED BY <1>t, <2>1, <3>1, <4>1, <4>3, <4>4
    <3>3. CASE ~ BreakFailed
      <4>1. driver.keep # 0 /\ AfterBreak = load + driver.keep /\ BreakAddr = load + driver.keep
        BY <2>1, <3>3 DEF BreakFailed, AfterBreak, BreakAddr, First
      <4> QED BY <1>k, <1>t, <2>1, <3>1, <4>1
    <3> QED BY <3>2, <3>3
  <2>2. CASE rest # driver.devices
    <3>1. ~ d.block
      BY <1>2, <2>2 DEF InitInv
    <3>2. MEMHI = load + driver.keep /\ Len(rest) < Len(driver.devices)
      BY <1>2, <2>2 DEF InitInv
    <3>3. driver.keep > 0
      <4>1. Len(driver.devices) > 1
        <5>1. Len(driver.devices) \in Nat
          BY <1>2
        <5> QED BY <1>2, <3>2, <5>1
      <4> QED BY <1>2, <4>1 DEF DriversFit
    <3>4. AfterBreak = MEMHI /\ BreakAddr = MEMHI
      BY <2>2, <3>2 DEF AfterBreak, BreakFailed, First, BreakAddr
    <3>5. high.active => MEMHI <= high.block + high.size
      BY DEF CursorInv
    <3> QED BY <1>1, <1>2, <1>3, <1>t, <3>1, <3>2, <3>3, <3>4, <3>5
  <2> QED BY <2>1, <2>2
<1>5. ~ high.active => Area < load /\ Area <= MEMHI' /\ MEMHI' < AllocLim
  <2>1. ~ high.active => Area < load
    BY <1>2 DEF InitInv
  <2>2. ~ high.active => MEMHI' < AllocLim
    BY <1>1 DEF InitOk, BoundsOk
  <2> QED BY <1>4, <1>t, <2>1, <2>2
<1>6. high.active => load = high.block + 1 /\ high.block <= MEMHI'
  <2>1. high.active => load = high.block + 1
    BY <1>1 DEF CursorInv
  <2> QED BY <1>4, <1>t, <2>1
<1>7. ASSUME NEW p \in Resident \cup Dpbs(d)
      PROVE  p \in Nat /\ load <= p /\ p < MEMHI'
  <2>1. p = load \/ p \in load .. BreakAddr - 1
        \/ p \in AfterBreak .. AfterBreak + d.units - 1
    BY <1>7 DEF Resident, Dpbs
  <2>2. BreakAddr \in Nat
    BY <1>2, <1>t DEF BreakAddr
  <2> QED BY <1>1, <1>3, <1>4, <1>t, <2>1, <2>2
<1>8. load \in linked' /\ linked \subseteq linked' /\ linked' \in SUBSET Nat
  BY <1>1, <1>7, <1>t DEF Resident
<1>9. /\ rest' \in Seq(Device) /\ Len(rest') \in Nat /\ Len(rest') < Len(rest)
      /\ Len(rest) <= Len(driver.devices) /\ Len(driver.devices) \in Nat
      /\ rest' # driver.devices
  <2>1. rest' \in Seq(Device) /\ Len(rest') = Len(rest) - 1 /\ Len(driver.devices) \in Nat
    BY <1>1, <1>2
  <2>2. Len(rest) <= Len(driver.devices)
    BY <1>2, <2>1 DEF InitInv
  <2>3. Len(rest') < Len(driver.devices)
    BY <1>2, <2>1, <2>2
  <2>4. rest' # driver.devices
    BY <2>1, <2>3
  <2> QED BY <1>2, <2>1, <2>2, <2>4
<1>10. ASSUME rest' # <<>> PROVE InitInv'
  <2>1. IF high.active THEN load + driver.image <= high.block + high.size
                       ELSE Area < load /\ load + driver.image < AllocLim
    BY <1>2 DEF InitInv
  <2>2. Len(rest') < Len(driver.devices)
    BY <1>2, <1>9
  <2>3. Len(driver.devices) > 1
    <3>1. Len(rest') # 0
      BY <1>9, <1>10
    <3> QED BY <1>9, <2>2, <3>1
  <2>4. driver.keep > 0 /\ \A j \in DOMAIN driver.devices : ~ driver.devices[j].block
    BY <1>2, <2>3 DEF DriversFit
  <2>5. \A j \in DOMAIN rest : ~ rest[j].block
    BY <1>2, <2>4 DEF InitInv
  <2>6. \A j \in DOMAIN rest' : ~ rest'[j].block
    <3>1. \A j \in DOMAIN rest' : j + 1 \in DOMAIN rest /\ rest'[j] = rest[j + 1]
      BY <1>1, <1>2
    <3> QED BY <2>5, <3>1
  <2>7. MEMHI' = load + driver.keep
    <3>1. d.units = 0
      BY <1>2, <1>3, <2>5
    <3>2. AfterBreak = load + driver.keep
      BY <1>2, <2>4 DEF AfterBreak, BreakFailed, BreakAddr
    <3> QED BY <1>1, <1>2, <1>t, <3>1, <3>2
  <2> QED BY <1>1, <1>2, <1>9, <1>10, <2>1, <2>2, <2>6, <2>7 DEF InitInv
<1>11. pc' \in {"init", "commit", "done"} /\ (pc' = "init" => rest' # <<>>)
       /\ (pc' = "commit" => high.active) /\ (pc' = "done" => ~ high.active)
  BY <1>1
<1>12. CursorInv'
  <2>1. /\ high.active => (\E x \in Extents : high.size < x[2])
        /\ high.active => Area <= high.low /\ high.low <= AllocLim
    BY DEF CursorInv
  <2> QED BY <1>1, <1>4, <1>5, <1>6, <1>8, <1>10, <1>11, <1>t, <2>1
          DEF CursorInv, HighPlaces, Restoring
<1>13. LinkedInv'
  <2> SUFFICES ASSUME NEW p \in linked'
               PROVE  (Area <= p /\ p < LowBound') \/ Held(p)' \/ InLine(p)'
    BY DEF LinkedInv
  <2>1. UpperKept({})
    BY <1>1, NothingKept
  <2>2. CASE high.active
    <3>1. LowBound' = LowBound
      BY <1>1, <2>2 DEF LowBound
    <3>2. pc' \in {"commit", "own"} \/ (pc' = "init" /\ rest' # driver'.devices)
      BY <1>1, <1>9, <1>11, <2>2
    <3>3. CASE p \in Resident \cup Dpbs(d)
      <4>1. high.block <= p /\ p < MEMHI'
        BY <1>6, <1>7, <1>t, <2>2, <3>3
      <4> QED BY <1>1, <2>2, <3>2, <4>1 DEF InLine
    <3>4. CASE p \in linked /\ InLine(p)
      <4>1. high.block <= p /\ p < MEMHI /\ p \in Nat
        BY <1>t, <3>4 DEF InLine
      <4>2. p < MEMHI'
        BY <1>4, <1>t, <4>1
      <4> QED BY <1>1, <2>2, <3>2, <4>1, <4>2 DEF InLine
    <3>5. CASE p \in linked /\ ~ InLine(p)
      BY <2>1, <3>1, <3>5, HeldKept DEF LinkedInv
    <3> QED BY <1>1, <3>3, <3>4, <3>5
  <2>3. CASE ~ high.active
    <3>1. LowBound' = MEMHI'
      BY <1>1, <1>9, <2>3 DEF LowBound
    <3>2. LowBound <= MEMHI' /\ LowBound \in Int
      BY <1>4, <1>t, <2>3 DEF LowBound
    <3>3. CASE p \in Resident \cup Dpbs(d)
      BY <1>4, <1>5, <1>7, <1>t, <2>3, <3>1, <3>3
    <3>4. CASE p \in linked
      <4>1. (Area <= p /\ p < LowBound) \/ Held(p)
        BY <2>3, <3>4 DEF LinkedInv, InLine
      <4>2. p \in Nat
        BY <1>t, <3>4
      <4> QED BY <1>4, <2>1, <3>1, <3>2, <4>1, <4>2, HeldKept
    <3> QED BY <1>1, <3>3, <3>4
  <2> QED BY <2>2, <2>3
<1>14. MemType'
  BY <1>1, <1>4, <1>8 DEF MemType
<1> QED BY <1>1, <1>8, <1>11, <1>12, <1>13, <1>14, FileStep

(* The block that a line commits. *)
LEMMA CommitSizeInv ==
    ASSUME DevInv, CommitSize
    PROVE  IInv' /\ MemInv'
<1> USE DEF DevInv, MemInv
<1> DEFINE n == MEMHI - high.block
<1>1. /\ pc = "commit" /\ pc' = "own" /\ SetBlock(HighHead, n)
      /\ UNCHANGED <<high, MEMHI, driver, load, linked>>
  BY Zenon DEF CommitSize, lineVars, HighHead
<1>2. /\ high.active /\ high.block <= MEMHI /\ MEMHI <= high.block + high.size
      /\ MEMHI \in Nat /\ high.block \in Nat /\ high.size \in Nat
  BY <1>1 DEF CursorInv, MemType
<1>3. n \in Nat /\ n <= high.size
  BY <1>2
<1>4. /\ umbReady /\ HighHead \in UpperHeads /\ mcb[HighHead].owner = CurrentPDB
      /\ mcb[HighHead].size = high.size
  BY <1>1, <1>2 DEF HighInv
<1> HIDE DEF n
<1>5. /\ IInv' /\ UpperKept({HighHead}) /\ HighHead \in UpperHeads'
      /\ mcb'[HighHead].owner = CurrentPDB /\ mcb'[HighHead].size = n
  BY <1>1, <1>3, <1>4, CutKept
<1>6. HighHead' = HighHead /\ umbReady' = umbReady /\ CurrentPDB' = CurrentPDB
  BY <1>1, <1>5 DEF HighHead, UpperKept
<1>7. HighInv'
  <2>1. MEMHI' - high'.block = n
    BY <1>1 DEF n
  <2> QED BY <1>1, <1>4, <1>5, <1>6, <2>1 DEF HighInv
<1>8. CursorInv'
  BY <1>1, <1>2 DEF CursorInv, HighPlaces, Restoring
<1>9. LinkedInv'
  <2> SUFFICES ASSUME NEW p \in linked
               PROVE  (Area <= p /\ p < LowBound') \/ Held(p)' \/ InLine(p)'
    BY <1>1 DEF LinkedInv
  <2>1. LowBound' = LowBound /\ (InLine(p) => InLine(p)')
    BY <1>1, <1>2 DEF LowBound, InLine
  <2>2. \A h \in {HighHead} \cap UpperHeads : mcb[h].owner # OwnerDos
    BY <1>4, PidType
  <2> QED BY <1>5, <2>1, <2>2, HeldKept DEF LinkedInv
<1>10. UpperInv'
  <2> SUFFICES ASSUME NEW h \in UpperHeads', h # HighHead
               PROVE  IsFree(mcb', h) \/ Standing(h)'
    BY <1>1, <1>2, <1>6 DEF UpperInv
  <2>1. h \in UpperHeads' \ {HighHead} /\ linked \subseteq linked'
    BY <1>1
  <2> QED BY <1>5, <2>1, UpperStep
<1>11. MemType' /\ ExtentInv' /\ BootInv'
  BY <1>1, <1>5, ExtentsKept DEF MemType, BootInv
<1> QED BY <1>5, <1>7, <1>8, <1>9, <1>10, <1>11

LEMMA CommitOwnerInv ==
    ASSUME DevInv, CommitOwner
    PROVE  IInv' /\ MemInv'
<1> USE DEF DevInv, MemInv
<1>1. /\ pc = "own" /\ pc' = "unlimit" /\ next' = "done"
      /\ mcb' = Give(mcb, HighHead, OwnerDos)
      /\ MEMHI' = high.low /\ high' = NotHigh
      /\ UNCHANGED <<umbVars, profileVars, CurrentPDB>>
      /\ UNCHANGED <<driver, load, linked>>
  BY Zenon DEF CommitOwner, RestoreThen, lineVars, HighHead
<1>2. /\ high.active /\ load \in linked /\ load < MEMHI /\ load = high.block + 1
      /\ Area <= high.low /\ high.low <= AllocLim
      /\ MEMHI \in Nat /\ high.block \in Nat /\ high.low \in Nat /\ load \in Nat
      /\ linked \in SUBSET Nat
  BY <1>1 DEF CursorInv, MemType
<1>3. /\ umbReady /\ HighHead \in UpperHeads /\ mcb[HighHead].owner = CurrentPDB
      /\ mcb[HighHead].size = MEMHI - high.block
  BY <1>1, <1>2 DEF HighInv
<1>4. ~ high'.active /\ high' \in [active : BOOLEAN, block : Nat, size : Nat, low : Nat]
  BY <1>1 DEF NotHigh
<1>5. /\ IInv' /\ UpperKept({HighHead}) /\ HighHead \in UpperHeads'
      /\ mcb'[HighHead].owner = OwnerDos /\ mcb'[HighHead].size = mcb[HighHead].size
  <2>1. Quiet /\ OwnerDos \in Nat
    BY <1>3 DEF Quiet, OwnerDos
  <2> QED BY <1>1, <1>3, <2>1, GiveKept
<1>6. umbReady'
  BY <1>3, <1>5 DEF UpperKept
(* The block holds what the line has chained. *)
<1>7. ASSUME NEW p \in Nat, high.block <= p, p < MEMHI
      PROVE  HighHead < p /\ p < Following(mcb', HighHead)
  <2>1. mcb'[HighHead].size = MEMHI - high.block /\ HighHead = high.block - 1
    BY <1>3, <1>5 DEF HighHead
  <2>2. Following(mcb', HighHead) = MEMHI
    BY <1>2, <2>1 DEF Following
  <2> QED BY <1>2, <1>7, <2>1, <2>2
<1>8. CursorInv' /\ HighInv'
  BY <1>1, <1>2, <1>4 DEF CursorInv, HighInv
<1>9. LinkedInv'
  <2> SUFFICES ASSUME NEW p \in linked PROVE (Area <= p /\ p < LowBound') \/ Held(p)'
    BY <1>1 DEF LinkedInv
  <2>1. LowBound = high.low /\ LowBound' = high.low
    BY <1>1, <1>2, <1>4 DEF LowBound
  <2>2. \A h \in {HighHead} \cap UpperHeads : mcb[h].owner # OwnerDos
    BY <1>3, PidType
  <2>3. CASE InLine(p)
    <3>1. p \in Nat /\ high.block <= p /\ p < MEMHI
      BY <1>2, <2>3 DEF InLine
    <3>2. HighHead < p /\ p < Following(mcb', HighHead)
      BY <1>7, <3>1
    <3> QED BY <1>5, <1>6, <3>2 DEF Held
  <2>4. CASE ~ InLine(p)
    BY <1>5, <2>1, <2>2, <2>4, HeldKept DEF LinkedInv
  <2> QED BY <2>3, <2>4
<1>10. UpperInv'
  <2> SUFFICES ASSUME NEW h \in UpperHeads' PROVE IsFree(mcb', h) \/ Standing(h)'
    BY DEF UpperInv
  <2>1. CASE h = HighHead
    <3>1. high.block <= load
      BY <1>2
    <3>2. load \in linked' /\ h < load /\ load < Following(mcb', h)
      BY <1>1, <1>2, <1>7, <2>1, <3>1
    <3> QED BY <1>5, <1>6, <2>1, <3>2 DEF Standing
  <2>2. CASE h # HighHead
    <3>1. h \in UpperHeads' \ {HighHead} /\ linked \subseteq linked'
      BY <1>1, <2>2
    <3> QED BY <1>5, <2>2, <3>1, UpperStep
  <2> QED BY <2>1, <2>2
<1>11. MemType' /\ ExtentInv' /\ BootInv'
  BY <1>1, <1>2, <1>4, <1>5, ExtentsKept DEF MemType, BootInv
<1> QED BY <1>5, <1>8, <1>9, <1>10, <1>11

(* SYSINIT begins, and goes on. *)
LEMMA InitDev == DevInit => DevInv
<1> SUFFICES ASSUME DevInit PROVE DevInv
  OBVIOUS
<1>1. /\ Init /\ pc = "boot" /\ high = NotHigh /\ MEMHI = Area /\ driver = NoDriver
      /\ load = 0 /\ linked = {} /\ UmbArenaHead = 0 /\ regions = <<>>
  BY DEF DevInit, Init
<1>2. PolicyInv /\ IInv
  BY <1>1, InitPolicy, InitSound
<1>3. MemType
  BY <1>1, AddressType DEF MemType, NotHigh
<1>4. HighInv /\ CursorInv
  BY <1>1, AddressType DEF HighInv, CursorInv, NotHigh
<1>5. LinkedInv /\ BootInv
  BY <1>1 DEF LinkedInv, BootInv
<1>6. UpperInv
  BY <1>1 DEF UpperInv, UpperHeads
<1>7. ExtentInv
  <2>1. DOMAIN regions = {}
    BY <1>1
  <2> QED BY <2>1 DEF ExtentInv
<1> QED BY <1>2, <1>3, <1>4, <1>5, <1>6, <1>7 DEF DevInv, MemInv

LEMMA NothingInv ==
    ASSUME DevInv, UNCHANGED <<vars, devVars>>
    PROVE  IInv' /\ MemInv'
<1> USE DEF DevInv, MemInv
<1>1. IInv' /\ UpperKept({})
  BY NothingKept
<1>2. UNCHANGED <<mcb, UmbArenaHead, regions, CurrentPDB, umbReady>>
      /\ UNCHANGED <<pc, next, high, MEMHI, driver, load, rest, linked>>
  BY DEF vars, umbVars, devVars
<1>3. HighInv' /\ UpperInv'
  BY <1>2 DEF HighInv, UpperInv, HighHead, UpperHeads, IsFree, Standing, Following
<1>4. MemType' /\ CursorInv'
  BY <1>2 DEF MemType, CursorInv, InitInv
<1>5. LinkedInv'
  BY <1>2 DEF LinkedInv, LowBound, Held, InLine, UpperHeads, Following
<1>6. ExtentInv' /\ BootInv'
  BY <1>2 DEF ExtentInv, BootInv
<1> QED BY <1>1, <1>3, <1>4, <1>5, <1>6

LEMMA StepInv ==
    ASSUME DriversFit, DevInv, DevNext
    PROVE  IInv' /\ MemInv'
<1>1. CASE \/ NextLine \/ SaveState \/ ProfileDone \/ ProfileRefused \/ TooBigLow \/ InitStalls
           \/ \E d \in Drivers : DevicePlainLine(d) \/ \E l \in Lines : DeviceHighLine(l, d)
  BY <1>1, LinesInv
<1>2. CASE Link \/ Strategy \/ SelectRegions \/ ProfileRegion
  BY <1>2, PolicyStepsInv
<1>3. CASE Unlimit \/ Unfilter \/ Unstrategy \/ Unlink
  BY <1>3, RestoringInv
<1>4. CASE NotLoaded \/ TooBigHigh \/ EraseDevice \/ BadSector
  BY <1>4, FailuresInv
<1>5. CASE TakeMemory \/ Acquire \/ AskLargest \/ TakeLargest
  BY <1>5, TakeMemoryInv, AcquireInv, AskLargestInv, TakeLargestInv
<1>6. CASE Load \/ LinkDevice
  BY <1>6, LoadInv, LinkDeviceInv
<1>7. CASE CommitSize \/ CommitOwner
  BY <1>7, CommitSizeInv, CommitOwnerInv
<1> QED BY <1>1, <1>2, <1>3, <1>4, <1>5, <1>6, <1>7, Zenon DEF DevNext, DevStep

LEMMA DevInvariant ==
    ASSUME DriversFit
    PROVE  DevSpec => []DevInv
<1>1. DevInit => PolicyInv /\ IInv /\ MemInv
  BY InitDev DEF DevInv
<1>2. PolicyInv /\ IInv /\ MemInv /\ [DevNext]_<<vars, devVars>> => IInv' /\ MemInv'
  BY StepInv, NothingInv DEF DevInv
<1>3. DevSpec => [](PolicyInv /\ IInv /\ MemInv)
  BY <1>1, <1>2, PolicySpec, PTL DEF DevSpec
<1> QED BY <1>3, PTL DEF DevInv

(* What DOS has chained lies below the load address of the next low driver,*)
(* in the high block of the line, or in blocks that DOS owns: boot-loaded  *)
(* drivers are permanent system allocations (SYSCONF.ASM).                 *)
THEOREM LinkedMemoryStays ==
    ASSUME DriversFit
    PROVE  DevSpec => []LinkedMemoryOwned
<1>1. ASSUME DevInv PROVE LinkedMemoryOwned
  <2> USE <1>1 DEF DevInv, MemInv
  <2> SUFFICES ASSUME NEW p \in linked
               PROVE  (Area <= p /\ p < LowEnd) \/ InHigh(p) \/ Held(p)
    BY DEF LinkedMemoryOwned, Held
  <2>t. /\ p \in Nat /\ MEMHI \in Nat /\ load \in Nat /\ high.low \in Nat
        /\ high.block \in Nat /\ high.size \in Nat /\ Area \in Nat
    BY AddressType DEF MemType
  <2>1. LowBound <= LowEnd /\ LowBound \in Int /\ LowEnd \in Nat
    <3>1. CASE ~ high.active /\ pc = "init" /\ rest = driver.devices
      <4>1. MEMHI = load
        BY <3>1, FirstDevice DEF CursorInv
      <4> QED BY <2>t, <3>1, <4>1 DEF LowBound, LowEnd
    <3>2. CASE ~ (~ high.active /\ pc = "init" /\ rest = driver.devices)
      BY <2>t, <3>2 DEF LowBound, LowEnd
    <3> QED BY <3>1, <3>2
  <2>2. InLine(p) => InHigh(p)
    BY <2>t DEF InLine, InHigh, CursorInv
  <2> QED BY <2>t, <2>1, <2>2 DEF LinkedInv
<1> QED BY <1>1, DevInvariant, PTL

(* No upper block is left over between lines: each is free, a bridge or a  *)
(* guard, or it holds a driver that DOS has chained.                       *)
THEOREM NoUpperBlockLost ==
    ASSUME DriversFit
    PROVE  DevSpec => []NoBlockLost
<1>1. DevInv => NoBlockLost
  <2>1. DevInv /\ pc = "done" => ~ high.active
    BY DEF DevInv, MemInv, CursorInv, HighPlaces, Restoring
  <2> QED BY <2>1 DEF DevInv, MemInv, UpperInv, Standing, NoBlockLost
<1> QED BY <1>1, DevInvariant, PTL
=============================================================================
