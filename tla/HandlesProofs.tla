---------------------------- MODULE HandlesProofs ----------------------------
(***************************************************************************)
(* Proofs about Handles for any processes, entries, handles and blocks,    *)
(* for programs that do not stay resident with a file of a parent and no   *)
(* hard error after one that cut an open short (HandlesRestriction): the   *)
(* invariants of the run "handles", and that Handles implements OpenFiles. *)
(***************************************************************************)
EXTENDS Handles, FiniteSetTheorems, TLAPS

CallType ==
  [op : {"user", "open", "close", "dup2", "exec", "exit"},
   back : {"user", "dup2", "exit"}, sfn : Sfts \cup {0}, old : Int,
   from : HandleNumbers, to : HandleNumbers, left : 0..MaxHandles,
   child : Processes]

TypeInv ==
  /\ sf_ref_count \in [Sfts -> Int]
  /\ sf_PID \in [Sfts -> Processes]
  /\ jfn \in [Processes -> [HandleNumbers -> Sfts \cup {Unused}]]
  /\ JFN_Length \in [Processes -> FilPerProc..MaxHandles]
  /\ JFN_Pointer \in [Processes -> Blocks \cup {Psp}]
  /\ owner \in [Blocks -> Processes \cup {Nobody}]
  /\ status \in [Processes -> {"none", "live", "resident"}]
  /\ parent \in [Processes -> Processes]
  /\ CurrentPDB \in Processes
  /\ mark \in [sfn : Sfts \cup {-1}, psp : Processes, h : HandleNumbers]
  /\ call \in CallType

InExit == "exit" \in {call.op, call.back}

(* The entry that an aborted open left busy, whose handle a hard error in  *)
(* the clean-up may bring back.                                            *)
Ghost(s) == InExit /\ mark # Unmarked /\ mark.psp = CurrentPDB /\ mark.sfn = s

CallInv ==
  /\ call.back = "exit" => call.op \in {"exit", "close"}
  /\ call.back = "dup2" => call.op \in {"dup2", "close"}
  /\ call.op = "open" =>
       /\ call.sfn \in Sfts
       /\ mark = [sfn |-> call.sfn, psp |-> CurrentPDB, h |-> call.from]
       /\ jfn[CurrentPDB][call.from] = call.sfn
       /\ sf_PID[call.sfn] = CurrentPDB
  /\ call.op = "close" =>
       /\ call.sfn \in Sfts
       /\ call.old = 1 => sf_ref_count[call.sfn] = Busy /\ ~Ghost(call.sfn)
  /\ "dup2" \in {call.op, call.back} =>
       jfn[CurrentPDB][call.to] = Unused /\ call.to < JFN_Length[CurrentPDB]
  /\ call.op = "exec" =>
       /\ mark = Unmarked /\ status[call.child] = "none" /\ call.left <= FilPerProc
       /\ \A h \in HandleNumbers : call.left <= h => jfn[call.child][h] = Unused
  /\ InExit =>
       /\ CurrentPDB # Root
       /\ mark # Unmarked /\ mark.psp = CurrentPDB =>
             jfn[CurrentPDB][mark.h] \in {Unused, mark.sfn}
       /\ \A h \in HandleNumbers : call.left <= h \/ JFN_Length[CurrentPDB] <= h =>
            \/ jfn[CurrentPDB][h] = Unused
            \/ Ghost(jfn[CurrentPDB][h]) /\ mark.h = h

MarkInv ==
  mark # Unmarked =>
    /\ mark.sfn \in Sfts
    /\ \/ status[mark.psp] = "none"
       \/ call.op = "open"
       \/ mark.psp = Root /\ CurrentPDB = Root
       \/ mark.psp = CurrentPDB /\ InExit

UnderOpen(s) == call.op = "open" /\ s = call.sfn

CountRight(s) ==
  /\ sf_ref_count[s] # 0 => status[sf_PID[s]] # "none"
  /\ IF UnderOpen(s)
       THEN sf_ref_count[s] = Busy /\ Reach(s) = {<<CurrentPDB, call.from>>}
     ELSE IF Ghost(s)
       THEN sf_ref_count[s] < 0 /\ sf_PID[s] = CurrentPDB /\ Reach(s) \subseteq {<<CurrentPDB, mark.h>>}
     ELSE IF sf_ref_count[s] > 0
       THEN IsFiniteSet(Reach(s)) /\ sf_ref_count[s] = Cardinality(Reach(s))
     ELSE sf_ref_count[s] >= Busy /\ Reach(s) = {}

CountInv == \A s \in Sfts : CountRight(s)

TableInv ==
  /\ \A b \in Blocks : owner[b] # Nobody => status[owner[b]] # "none" /\ ~Ending(owner[b])
  /\ \A p \in Processes : status[p] = "none" => JFN_Length[p] = FilPerProc /\ JFN_Pointer[p] = Psp
  /\ \A p \in Processes : ~Ending(p) =>
       /\ \A b \in Blocks : owner[b] = p <=> JFN_Pointer[p] = b
       /\ (JFN_Pointer[p] = Psp) <=> (JFN_Length[p] = FilPerProc)
       /\ status[p] # "none" => \A h \in HandleNumbers : JFN_Length[p] <= h => jfn[p][h] = Unused

(* p may have a handle of a file that q opened. *)
MayHold(p, q, depth) ==
  \/ status[p] = "none" /\ status[q] = "live"
  \/ q \in {p, Root}
  \/ status[p] = "live" /\ status[q] = "live" /\ depth[q] < depth[p]

Lineage(depth) ==
  /\ status[CurrentPDB] = "live" /\ status[Root] = "live"
  /\ \A p \in Processes \ {CurrentPDB} : status[p] = "live" => depth[p] < depth[CurrentPDB]
  /\ \A p \in Processes \ {Root} : status[p] = "live" =>
       /\ status[parent[p]] = "live" /\ depth[parent[p]] < depth[p]
       /\ \A q \in Processes \ {parent[p]} :
            status[q] = "live" /\ depth[q] < depth[p] => depth[q] < depth[parent[p]]
  /\ \A p \in Processes : Alive(p) => \A h \in HandleNumbers :
       jfn[p][h] # Unused => MayHold(p, sf_PID[jfn[p][h]], depth)

LineageInv == \E depth \in [Processes -> Nat] : Lineage(depth)


-----------------------------------------------------------------------------
HandlesRestriction == ~KeepsInherited /\ ~ErrorsWhileMarked

IInv == TypeInv /\ CallInv /\ MarkInv /\ CountInv /\ TableInv /\ LineageInv

LEMMA InitInvariant == Init => IInv
  <1> SUFFICES ASSUME Init PROVE IInv
    OBVIOUS
  <1> USE HandlesAssumption DEF Init
  <1>1. TypeInv
    BY DEF TypeInv, CallType, Sfts, HandleNumbers, Unmarked, User, NoHandles, Unused, Psp, Nobody
  <1>2. CallInv /\ MarkInv
    BY DEF CallInv, MarkInv, InExit, User
  <1>3. \A s \in Sfts : Reach(s) = {}
    BY DEF Reach, Sfts, NoHandles, Unused
  <1>4. CountInv
    BY <1>3 DEF CountInv, CountRight, UnderOpen, InExit, Ghost, Busy, User
  <1>5. TableInv
    BY DEF TableInv, Ending, NoHandles, Nobody, Psp, User
  <1>6. LineageInv
    <2> DEFINE d == [p \in Processes |-> 0]
    <2>1. Lineage(d)
      BY DEF Lineage, MayHold, Alive, NoHandles, User
    <2> QED BY <2>1, Zenon DEF LineageInv
  <1> QED BY <1>1, <1>2, <1>4, <1>5, <1>6 DEF IInv

-----------------------------------------------------------------------------
(* The records of the calls, field by field. *)

CallIs(c, op, back, sfn, old, from, to, left, child) ==
  /\ c \in CallType
  /\ c.op = op /\ c.back = back /\ c.sfn = sfn /\ c.old = old
  /\ c.from = from /\ c.to = to /\ c.left = left /\ c.child = child

LEMMA UserFields == CallIs(User, "user", "user", 0, 0, 0, 0, 0, Root)
  BY HandlesAssumption DEF CallIs, User, CallType, HandleNumbers

LEMMA SetOp ==
  ASSUME NEW c \in CallType, NEW op \in {"user", "open", "close", "dup2", "exec", "exit"}
  PROVE  CallIs([c EXCEPT !.op = op], op, c.back, c.sfn, c.old, c.from, c.to, c.left, c.child)
  BY DEF CallIs, CallType

LEMMA OpenFields ==
  ASSUME NEW s \in Sfts, NEW h \in HandleNumbers
  PROVE  CallIs([User EXCEPT !.op = "open", !.sfn = s, !.from = h],
                "open", "user", s, 0, h, 0, 0, Root)
  BY UserFields DEF CallIs, CallType

LEMMA CloseFields ==
  ASSUME NEW c \in CallType, NEW s \in Sfts, NEW n \in Int
  PROVE  CallIs([c EXCEPT !.op = "close", !.sfn = s, !.old = n],
                "close", c.back, s, n, c.from, c.to, c.left, c.child)
  BY DEF CallIs, CallType

LEMMA Dup2Fields ==
  ASSUME NEW h \in HandleNumbers, NEW g \in HandleNumbers
  PROVE  CallIs([User EXCEPT !.back = "dup2", !.from = h, !.to = g],
                "user", "dup2", 0, 0, h, g, 0, Root)
  BY UserFields DEF CallIs, CallType

LEMMA ExecFields ==
  ASSUME NEW p \in Processes
  PROVE  CallIs([User EXCEPT !.op = "exec", !.child = p],
                "exec", "user", 0, 0, 0, 0, 0, p)
  BY UserFields DEF CallIs, CallType

LEMMA LeftFields ==
  ASSUME NEW c \in CallType, NEW n \in 0..MaxHandles
  PROVE  CallIs([c EXCEPT !.left = n],
                c.op, c.back, c.sfn, c.old, c.from, c.to, n, c.child)
  BY DEF CallIs, CallType

LEMMA ExitFields ==
  ASSUME NEW n \in 0..MaxHandles
  PROVE  CallIs([User EXCEPT !.op = "exit", !.left = n],
                "exit", "user", 0, 0, 0, 0, n, Root)
  BY UserFields DEF CallIs, CallType

LEMMA ExitCloseFields ==
  ASSUME NEW c \in CallType, NEW n \in 0..MaxHandles
  PROVE  CallIs([c EXCEPT !.back = "exit", !.left = n],
                c.op, "exit", c.sfn, c.old, c.from, c.to, n, c.child)
  BY DEF CallIs, CallType

-----------------------------------------------------------------------------
(* What the steps have in common. *)

LEMMA Basics ==
  ASSUME TypeInv
  PROVE  /\ FilPerProc \in Nat \ {0} /\ MaxHandles \in Nat /\ FilPerProc <= MaxHandles
         /\ \A h : h \in HandleNumbers <=> h \in Int /\ 0 <= h /\ h < MaxHandles
         /\ \A s \in Sfts : s \in Int /\ s >= 0
         /\ Root \in Processes /\ Unused \notin Sfts /\ Unused = -1 /\ Busy = -1
         /\ Unmarked \in [sfn : {-1}, psp : Processes, h : HandleNumbers]
         /\ Psp \notin Blocks /\ Nobody \notin Processes
  BY HandlesAssumption DEF HandleNumbers, Sfts, Unused, Busy, Unmarked, Psp, Nobody

LEMMA HandleSet ==
  ASSUME TypeInv, NEW p \in Processes, NEW h \in HandleNumbers, NEW v \in Sfts \cup {Unused},
         SetHandle(p, h, v)
  PROVE  /\ jfn' \in [Processes -> [HandleNumbers -> Sfts \cup {Unused}]]
         /\ \A q \in Processes, g \in HandleNumbers :
               jfn'[q][g] = IF q = p /\ g = h THEN v ELSE jfn[q][g]
  BY DEF TypeInv, SetHandle

LEMMA CountSet ==
  ASSUME TypeInv, NEW s \in Sfts, NEW n \in Int, SetCount(s, n)
  PROVE  /\ sf_ref_count' \in [Sfts -> Int] /\ sf_ref_count'[s] = n
         /\ \A t \in Sfts \ {s} : sf_ref_count'[t] = sf_ref_count[t]
  BY DEF TypeInv, SetCount

LEMMA Singleton ==
  ASSUME NEW r PROVE IsFiniteSet({r}) /\ Cardinality({r}) = 1
  BY FS_Singleton

(* A handle that is set is added to those of its entry and taken from those *)
(* of all others.                                                          *)
LEMMA ReachAdds ==
  ASSUME TypeInv, NEW p \in Processes, NEW h \in HandleNumbers, NEW s \in Sfts,
         SetHandle(p, h, s), Alive(p), \A q \in Processes : Alive(q)' <=> Alive(q)
  PROVE  \A t \in Sfts : Reach(t)' = IF t = s THEN Reach(t) \cup {<<p, h>>}
                                     ELSE Reach(t) \ {<<p, h>>}
  <1> SUFFICES ASSUME NEW t \in Sfts
               PROVE  Reach(t)' = IF t = s THEN Reach(t) \cup {<<p, h>>} ELSE Reach(t) \ {<<p, h>>}
    OBVIOUS
  <1>1. \A q \in Processes, g \in HandleNumbers :
          jfn'[q][g] = IF q = p /\ g = h THEN s ELSE jfn[q][g]
    BY DEF TypeInv, SetHandle
  <1>2. \A r \in Processes \X HandleNumbers :
          r \in Reach(t)' <=> r \in (IF t = s THEN Reach(t) \cup {<<p, h>>}
                                                ELSE Reach(t) \ {<<p, h>>})
    BY <1>1 DEF Reach
  <1>3. Reach(t)' \subseteq Processes \X HandleNumbers /\ Reach(t) \subseteq Processes \X HandleNumbers
    BY DEF Reach
  <1> QED BY <1>2, <1>3, Zenon

LEMMA ReachRemoves ==
  ASSUME TypeInv, NEW p \in Processes, NEW h \in HandleNumbers,
         SetHandle(p, h, Unused), \A q \in Processes : Alive(q)' <=> Alive(q)
  PROVE  \A t \in Sfts : Reach(t)' = Reach(t) \ {<<p, h>>}
  <1> SUFFICES ASSUME NEW t \in Sfts PROVE Reach(t)' = Reach(t) \ {<<p, h>>}
    OBVIOUS
  <1>1. \A q \in Processes, g \in HandleNumbers :
          jfn'[q][g] = IF q = p /\ g = h THEN Unused ELSE jfn[q][g]
    BY DEF TypeInv, SetHandle
  <1>2. \A r \in Processes \X HandleNumbers :
          r \in Reach(t)' <=> r \in Reach(t) \ {<<p, h>>}
    BY <1>1, Basics DEF Reach
  <1>3. Reach(t)' \subseteq Processes \X HandleNumbers /\ Reach(t) \subseteq Processes \X HandleNumbers
    BY DEF Reach
  <1> QED BY <1>2, <1>3, Zenon

LEMMA ReachKept ==
  ASSUME UNCHANGED jfn, \A q \in Processes : Alive(q)' <=> Alive(q)
  PROVE  \A t \in Sfts : Reach(t)' = Reach(t)
  <1> SUFFICES ASSUME NEW t \in Sfts PROVE Reach(t)' = Reach(t)
    OBVIOUS
  <1>1. \A r \in Processes \X HandleNumbers : r \in Reach(t)' <=> r \in Reach(t)
    BY DEF Reach
  <1>2. Reach(t)' \subseteq Processes \X HandleNumbers /\ Reach(t) \subseteq Processes \X HandleNumbers
    BY DEF Reach
  <1> QED BY <1>1, <1>2, Zenon

(* Who may hold what is settled by the handles alone while no process      *)
(* begins or ends.                                                         *)
LEMMA LineageKept ==
  ASSUME TypeInv, NEW depth \in [Processes -> Nat], Lineage(depth), UNCHANGED processes,
         \A p \in Processes : Alive(p)' => \A h \in HandleNumbers :
            jfn'[p][h] # Unused => MayHold(p, sf_PID'[jfn'[p][h]], depth)
  PROVE  LineageInv'
  <1>1. Lineage(depth)'
    BY DEF Lineage, MayHold, processes
  <1> QED BY <1>1 DEF LineageInv

(* Tables stay where they are, and handles are set below their ends.       *)
LEMMA TableKept ==
  ASSUME TypeInv, TableInv, UNCHANGED <<tables, status>>,
         \A p \in Processes : Ending(p)' <=> Ending(p),
         \A p \in Processes : status[p] # "none" /\ ~Ending(p) => \A h \in HandleNumbers :
            JFN_Length[p] <= h => jfn'[p][h] = jfn[p][h]
  PROVE  TableInv'
  BY DEF TableInv, TypeInv, tables

(* No call but one of a process about to end has a ghost. *)
LEMMA NoGhost ==
  ASSUME ~InExit PROVE \A s : ~Ghost(s)
  BY DEF Ghost

(* The handles of the process that runs, while it is not about to end. *)
LEMMA CurrentHandles ==
  ASSUME IInv
  PROVE  /\ status[CurrentPDB] = "live" /\ Alive(CurrentPDB)
         /\ ~InExit => \A h \in HandleNumbers :
              Current[h] # Unused => h < JFN_Length[CurrentPDB]
         /\ \A p \in Processes, h \in HandleNumbers :
              Alive(p) /\ jfn[p][h] # Unused =>
                 jfn[p][h] \in Sfts /\ <<p, h>> \in Reach(jfn[p][h])
         /\ \A p \in Processes : Ending(p) <=> p = CurrentPDB /\ InExit
  <1> USE DEF IInv
  <1>1. status[CurrentPDB] = "live" /\ Alive(CurrentPDB)
    BY DEF LineageInv, Lineage, Alive
  <1>2. \A p \in Processes : Ending(p) <=> p = CurrentPDB /\ InExit
    BY DEF Ending, InExit
  <1>3. ASSUME ~InExit, NEW h \in HandleNumbers, Current[h] # Unused
        PROVE  h < JFN_Length[CurrentPDB]
    <2>1. JFN_Length[CurrentPDB] \in Int /\ CurrentPDB \in Processes /\ h \in Int
      BY <1>3, Basics DEF TypeInv
    <2> QED BY <1>1, <1>2, <1>3, <2>1 DEF TableInv, Current
  <1>4. ASSUME NEW p \in Processes, NEW h \in HandleNumbers, Alive(p), jfn[p][h] # Unused
        PROVE  jfn[p][h] \in Sfts /\ <<p, h>> \in Reach(jfn[p][h])
    BY <1>4 DEF TypeInv, Reach
  <1> QED BY <1>1, <1>2, <1>3, <1>4

(* Where no open is under way and no process about to end. *)
LEMMA CountsOf ==
  ASSUME IInv, ~InExit, call.op # "open", NEW s \in Sfts
  PROVE  /\ sf_ref_count[s] > 0 => IsFiniteSet(Reach(s)) /\ sf_ref_count[s] = Cardinality(Reach(s))
         /\ ~(sf_ref_count[s] > 0) => sf_ref_count[s] \in {0, Busy} /\ Reach(s) = {}
         /\ sf_ref_count[s] # 0 => status[sf_PID[s]] # "none"
  <1>1. sf_ref_count[s] \in Int /\ Busy = -1
    BY Basics DEF IInv, TypeInv
  <1>2. ~Ghost(s)
    BY NoGhost
  <1> QED BY <1>1, <1>2 DEF IInv, CountInv, CountRight, UnderOpen

(* An entry that the step does not touch. *)
LEMMA CountKept ==
  ASSUME CountInv, NEW t \in Sfts, ~UnderOpen(t), ~UnderOpen(t)',
         Ghost(t)' <=> Ghost(t), Ghost(t) => UNCHANGED <<mark, CurrentPDB>>,
         Reach(t)' = Reach(t), sf_ref_count'[t] = sf_ref_count[t], sf_PID'[t] = sf_PID[t],
         sf_ref_count[t] # 0 /\ status[sf_PID[t]] # "none" => status'[sf_PID[t]] # "none"
  PROVE  CountRight(t)'
  BY DEF CountInv, CountRight

(* Handles that vanish, or stand for what another one of the same process  *)
(* stands for, are lawful.                                                 *)
LEMMA LineageCopied ==
  ASSUME TypeInv, LineageInv, UNCHANGED <<sf_PID, processes>>,
         \A p \in Processes, h \in HandleNumbers : Alive(p)' /\ jfn'[p][h] # Unused =>
            Alive(p) /\ \E g \in HandleNumbers : jfn'[p][h] = jfn[p][g]
  PROVE  LineageInv'
  <1>1. PICK depth \in [Processes -> Nat] : Lineage(depth)
    BY DEF LineageInv
  <1>2. \A p \in Processes : Alive(p)' => \A h \in HandleNumbers :
          jfn'[p][h] # Unused => MayHold(p, sf_PID'[jfn'[p][h]], depth)
    BY <1>1 DEF Lineage
  <1> QED BY <1>1, <1>2, LineageKept

LEMMA StutterKeeps ==
  ASSUME IInv, UNCHANGED vars PROVE IInv'
  <1> USE DEF vars, files, tables, processes
  <1>0. TypeInv /\ CallInv /\ MarkInv /\ CountInv /\ TableInv /\ LineageInv
    BY DEF IInv
  <1>1. TypeInv'
    BY <1>0 DEF TypeInv
  <1>2. CallInv' /\ MarkInv'
    BY <1>0 DEF CallInv, MarkInv, InExit, Ghost
  <1>3. /\ \A q \in Processes : Alive(q)' <=> Alive(q)
        /\ \A q \in Processes : Ending(q)' <=> Ending(q)
    BY DEF Alive, Ending
  <1>4. CountInv'
    <2> SUFFICES ASSUME NEW t \in Sfts PROVE CountRight(t)'
      BY DEF CountInv
    <2>1. CountRight(t) /\ Reach(t)' = Reach(t)
      BY <1>0, <1>3, ReachKept DEF CountInv
    <2> QED BY <2>1 DEF CountRight, UnderOpen, Ghost, InExit
  <1>5. TableInv'
    BY <1>0, <1>3, TableKept
  <1>6. LineageInv'
    BY <1>0, <1>3, LineageCopied
  <1> QED BY <1>1, <1>2, <1>4, <1>5, <1>6 DEF IInv

-----------------------------------------------------------------------------
(* Every action keeps the invariant. *)

LEMMA OpenBeginsKeeps ==
  ASSUME IInv, OpenBegins PROVE IInv'
  <1> USE DEF files, tables, processes
  <1>0. TypeInv /\ CallInv /\ MarkInv /\ CountInv /\ TableInv /\ LineageInv
    BY DEF IInv
  <1>1. call.op = "user" /\ ~InExit /\ call.back = "user"
    BY <1>0 DEF OpenBegins, CallInv, InExit, TypeInv, CallType
  <1>2. PICK s \in Sfts :
          /\ Usable(s)
          /\ SetCount(s, Busy)
          /\ sf_PID' = [sf_PID EXCEPT ![s] = CurrentPDB]
          /\ \/ \E h \in HandleNumbers :
                  /\ FirstVacant(h)
                  /\ SetHandle(CurrentPDB, h, s)
                  /\ mark' = [sfn |-> s, psp |-> CurrentPDB, h |-> h]
                  /\ call' = [User EXCEPT !.op = "open", !.sfn = s, !.from = h]
             \/ mark' = Unmarked /\ UNCHANGED <<jfn, call>>
    BY Zenon DEF OpenBegins, FirstUsable
  <1>u. Usable(s) /\ SetCount(s, Busy) /\ sf_PID' = [sf_PID EXCEPT ![s] = CurrentPDB]
    BY <1>2, Zenon
  <1>3. UNCHANGED <<JFN_Length, JFN_Pointer, owner, status, parent, CurrentPDB>>
    BY Zenon DEF OpenBegins
  <1>4. Reach(s) = {}
    BY <1>0, <1>1, <1>u, CountsOf, Basics DEF Usable
  <1>5. /\ sf_ref_count' \in [Sfts -> Int] /\ sf_PID' \in [Sfts -> Processes]
        /\ sf_ref_count'[s] = Busy /\ sf_PID'[s] = CurrentPDB
        /\ \A t \in Sfts \ {s} : sf_ref_count'[t] = sf_ref_count[t] /\ sf_PID'[t] = sf_PID[t]
    BY <1>0, <1>u, Basics DEF TypeInv, SetCount
  <1>6. CASE mark' = Unmarked /\ UNCHANGED <<jfn, call>>
    <2>1. TypeInv'
      BY <1>0, <1>3, <1>5, <1>6, Basics DEF TypeInv
    <2>2. CallInv' /\ MarkInv'
      BY <1>0, <1>1, <1>3, <1>6 DEF CallInv, MarkInv, InExit
    <2>3. \A t \in Sfts : Reach(t)' = Reach(t)
      BY <1>3, <1>6, ReachKept DEF Alive
    <2>4. CountInv'
      <3> SUFFICES ASSUME NEW t \in Sfts PROVE CountRight(t)'
        BY DEF CountInv
      <3>1. ~InExit' /\ call'.op = "user"
        BY <1>1, <1>6 DEF InExit
      <3>2. ~Ghost(t)'
        BY <3>1 DEF Ghost
      <3>3. sf_ref_count[t] \in Int
        BY <1>0 DEF TypeInv
      <3> QED BY <1>0, <1>1, <1>3, <1>4, <1>5, <2>3, <3>1, <3>2, <3>3, CountsOf, CurrentHandles, Basics
            DEF CountRight, UnderOpen
    <2>5. TableInv'
      BY <1>0, <1>3, <1>6, TableKept DEF Ending
    <2>6. LineageInv'
      <3>1. PICK depth \in [Processes -> Nat] : Lineage(depth)
        BY <1>0 DEF LineageInv
      <3>2. \A p \in Processes : Alive(p)' => \A h \in HandleNumbers :
              jfn'[p][h] # Unused => MayHold(p, sf_PID'[jfn'[p][h]], depth)
        BY <1>0, <1>3, <1>4, <1>5, <1>6, <3>1, CurrentHandles DEF Lineage, Alive
      <3> QED BY <1>0, <1>3, <3>1, <3>2, LineageKept
    <2> QED BY <2>1, <2>2, <2>4, <2>5, <2>6 DEF IInv
  <1>7. ASSUME NEW h \in HandleNumbers, FirstVacant(h), SetHandle(CurrentPDB, h, s),
               mark' = [sfn |-> s, psp |-> CurrentPDB, h |-> h],
               call' = [User EXCEPT !.op = "open", !.sfn = s, !.from = h]
        PROVE  IInv'
    <2>0. CallIs(call', "open", "user", s, 0, h, 0, 0, Root)
      BY <1>7, OpenFields
    <2>a. Current[h] = Unused /\ SetHandle(CurrentPDB, h, s) /\ h < JFN_Length[CurrentPDB]
          /\ mark' = [sfn |-> s, psp |-> CurrentPDB, h |-> h]
      BY <1>7, Zenon DEF FirstVacant, Vacant
    <2>b. /\ jfn' \in [Processes -> [HandleNumbers -> Sfts \cup {Unused}]]
          /\ \A q \in Processes, g \in HandleNumbers :
                jfn'[q][g] = IF q = CurrentPDB /\ g = h THEN s ELSE jfn[q][g]
      BY <1>0, <2>a DEF TypeInv, SetHandle
    <2>c. ~InExit' /\ \A t : ~Ghost(t)'
      BY <2>0 DEF CallIs, InExit, Ghost
    <2>d. \A q \in Processes : Alive(q)' <=> Alive(q)
      BY <1>1, <1>3, <2>0 DEF Alive, CallIs
    <2>1. TypeInv'
      BY <1>0, <1>3, <1>5, <2>0, <2>a, <2>b, Basics DEF TypeInv, CallIs
    <2>2. CallInv' /\ MarkInv'
      BY <1>0, <1>3, <1>5, <2>0, <2>a, <2>b, <2>c DEF CallInv, MarkInv, CallIs, TypeInv
    <2>3. \A t \in Sfts : Reach(t)' = IF t = s THEN Reach(t) \cup {<<CurrentPDB, h>>}
                                             ELSE Reach(t) \ {<<CurrentPDB, h>>}
      BY <1>0, <2>a, <2>d, ReachAdds, CurrentHandles DEF TypeInv
    <2>4. CountInv'
      <3> SUFFICES ASSUME NEW t \in Sfts PROVE CountRight(t)'
        BY DEF CountInv
      <3>3. sf_ref_count[t] \in Int
        BY <1>0 DEF TypeInv
      <3>4. CASE t = s
        BY <1>3, <1>4, <1>5, <2>0, <2>3, <3>4, CurrentHandles DEF CallIs, CountRight, UnderOpen
      <3>5. CASE t # s
        <4>1. <<CurrentPDB, h>> \notin Reach(t)
          BY <2>a, Basics, <1>0 DEF Reach, Current
        <4>2. Reach(t)' = Reach(t)
          BY <2>3, <3>5, <4>1, Zenon
        <4>3. ~UnderOpen(t)' /\ ~UnderOpen(t) /\ ~Ghost(t)' /\ ~Ghost(t)
          BY <1>1, <2>0, <2>c, <3>5, NoGhost DEF CallIs, UnderOpen
        <4> QED BY <1>0, <1>3, <1>5, <3>5, <4>2, <4>3, CountKept
      <3> QED BY <3>4, <3>5
    <2>5. TableInv'
      BY <1>0, <1>1, <1>3, <2>0, <2>a, <2>b, TableKept, Basics DEF Ending, CallIs, InExit, TypeInv
    <2>6. LineageInv'
      <3>1. PICK depth \in [Processes -> Nat] : Lineage(depth)
        BY <1>0 DEF LineageInv
      <3>2. \A p \in Processes : Alive(p)' => \A g \in HandleNumbers :
              jfn'[p][g] # Unused => MayHold(p, sf_PID'[jfn'[p][g]], depth)
        <4> SUFFICES ASSUME NEW p \in Processes, Alive(p)', NEW g \in HandleNumbers, jfn'[p][g] # Unused
                     PROVE  MayHold(p, sf_PID'[jfn'[p][g]], depth)
          OBVIOUS
        <4>1. CASE p = CurrentPDB /\ g = h
          BY <1>5, <2>b, <4>1 DEF MayHold
        <4>2. CASE ~(p = CurrentPDB /\ g = h)
          <5>1. jfn'[p][g] = jfn[p][g] /\ Alive(p)
            BY <2>b, <2>d, <4>2
          <5>2. jfn[p][g] \in Sfts \ {s}
            BY <1>4, <5>1, CurrentHandles
          <5> QED BY <1>5, <3>1, <5>1, <5>2 DEF Lineage
        <4> QED BY <4>1, <4>2
      <3> QED BY <1>0, <1>3, <3>1, <3>2, LineageKept
    <2> QED BY <2>1, <2>2, <2>4, <2>5, <2>6 DEF IInv
  <1> QED BY <1>2, <1>6, <1>7

LEMMA OpenRefusedKeeps ==
  ASSUME IInv, OpenRefused PROVE IInv'
  <1> USE DEF files, tables, processes
  <1>0. TypeInv /\ CallInv /\ MarkInv /\ CountInv /\ TableInv /\ LineageInv
    BY DEF IInv
  <1>1. call.op = "user" /\ ~InExit /\ call.back = "user"
    BY <1>0 DEF OpenRefused, CallInv, InExit, TypeInv, CallType
  <1>2. /\ mark' = Unmarked
        /\ UNCHANGED <<sf_ref_count, sf_PID, jfn, JFN_Length, JFN_Pointer, owner>>
        /\ UNCHANGED <<status, parent, CurrentPDB, call>>
    BY DEF OpenRefused
  <1>3. ~InExit' /\ \A q \in Processes : Alive(q)' <=> Alive(q)
    BY <1>1, <1>2 DEF InExit, Alive
  <1>4. TypeInv'
    BY <1>0, <1>2, Basics DEF TypeInv
  <1>5. CallInv' /\ MarkInv'
    BY <1>0, <1>1, <1>2 DEF CallInv, MarkInv, InExit
  <1>6. CountInv'
    <2> SUFFICES ASSUME NEW t \in Sfts PROVE CountRight(t)'
      BY DEF CountInv
    <2>1. Reach(t)' = Reach(t)
      BY <1>2, <1>3, ReachKept
    <2>2. ~UnderOpen(t) /\ ~UnderOpen(t)' /\ ~Ghost(t) /\ ~Ghost(t)'
      BY <1>1, <1>2, <1>3 DEF UnderOpen, Ghost
    <2> QED BY <1>0, <1>2, <2>1, <2>2, CountKept
  <1>7. TableInv'
    BY <1>0, <1>2, TableKept DEF Ending
  <1>8. LineageInv'
    BY <1>0, <1>2, <1>3, LineageCopied
  <1> QED BY <1>4, <1>5, <1>6, <1>7, <1>8 DEF IInv

LEMMA OpenEndsKeeps ==
  ASSUME IInv, OpenSucceeds \/ OpenFails PROVE IInv'
  <1> USE DEF files, tables, processes
  <1>0. TypeInv /\ CallInv /\ MarkInv /\ CountInv /\ TableInv /\ LineageInv
    BY DEF IInv
  <1>1. call.op = "open" /\ ~InExit
    BY <1>0 DEF OpenSucceeds, OpenFails, CallInv, InExit
  <1>2. /\ mark' = Unmarked /\ call' = User
        /\ UNCHANGED <<sf_PID, JFN_Length, JFN_Pointer, owner, status, parent, CurrentPDB>>
    BY DEF OpenSucceeds, OpenFails
  <1>s. /\ call.sfn \in Sfts /\ jfn[CurrentPDB][call.from] = call.sfn
        /\ call.from \in HandleNumbers /\ CurrentPDB \in Processes
        /\ UnderOpen(call.sfn)
    BY <1>0, <1>1 DEF CallInv, TypeInv, CallType, UnderOpen
  <1>3. /\ CallIs(call', "user", "user", 0, 0, 0, 0, 0, Root)
        /\ ~InExit' /\ \A q \in Processes : Alive(q)' <=> Alive(q)
    BY <1>1, <1>2, UserFields DEF CallIs, InExit, Alive
  <1>4. PICK n \in {0, 1} :
          /\ SetCount(call.sfn, n)
          /\ n = 1 => jfn' = jfn
          /\ n = 0 => SetHandle(CurrentPDB, call.from, Unused)
    BY DEF OpenSucceeds, OpenFails
  <1>5. /\ sf_ref_count' \in [Sfts -> Int] /\ sf_ref_count'[call.sfn] = n
        /\ \A t \in Sfts \ {call.sfn} : sf_ref_count'[t] = sf_ref_count[t]
    BY <1>0, <1>4, <1>s DEF TypeInv, SetCount
  <1>6. /\ jfn' \in [Processes -> [HandleNumbers -> Sfts \cup {Unused}]]
        /\ \A p \in Processes, h \in HandleNumbers : jfn'[p][h] \in {jfn[p][h], Unused}
    <2>1. CASE n = 1
      BY <1>0, <1>4, <2>1 DEF TypeInv
    <2>2. CASE n = 0
      BY <1>0, <1>4, <1>s, <2>2, HandleSet
    <2> QED BY <2>1, <2>2
  <1>t. TypeInv'
    BY <1>0, <1>2, <1>3, <1>5, <1>6, Basics DEF TypeInv, CallIs
  <1>c. CallInv' /\ MarkInv'
    BY <1>2, <1>3 DEF CallInv, MarkInv, CallIs
  <1>n. CountInv'
    <2> SUFFICES ASSUME NEW t \in Sfts PROVE CountRight(t)'
      BY DEF CountInv
    <2>1. ~UnderOpen(t)' /\ ~Ghost(t) /\ ~Ghost(t)'
      BY <1>1, <1>3 DEF UnderOpen, Ghost, CallIs
    <2>2. Reach(t)' = IF n = 1 THEN Reach(t) ELSE Reach(t) \ {<<CurrentPDB, call.from>>}
      BY <1>0, <1>3, <1>4, <1>s, ReachKept, ReachRemoves
    <2>3. CASE t = call.sfn
      <3>1. Reach(t) = {<<CurrentPDB, call.from>>} /\ sf_ref_count[t] = Busy
            /\ (sf_ref_count[t] # 0 => status[sf_PID[t]] # "none")
        BY <1>0, <1>s, <2>3 DEF CountInv, CountRight
      <3>2. n = 1 => IsFiniteSet(Reach(t)') /\ Cardinality(Reach(t)') = 1
        BY <2>2, <3>1, Singleton
      <3>3. n = 0 => Reach(t)' = {}
        BY <2>2, <3>1
      <3> QED BY <1>0, <1>2, <1>5, <2>1, <2>3, <3>1, <3>2, <3>3, Basics DEF CountRight
    <2>4. CASE t # call.sfn
      <3>1. <<CurrentPDB, call.from>> \notin Reach(t)
        BY <1>s, <2>4 DEF Reach
      <3>2. Reach(t)' = Reach(t) /\ ~UnderOpen(t)
        BY <2>2, <2>4, <3>1 DEF UnderOpen
      <3> QED BY <1>0, <1>2, <1>5, <2>1, <2>4, <3>2, CountKept
    <2> QED BY <2>3, <2>4
  <1>b. TableInv'
    <2>1. \A p \in Processes : Ending(p)' <=> Ending(p)
      BY <1>1, <1>2, <1>3 DEF Ending, InExit
    <2>2. \A p \in Processes : status[p] # "none" /\ ~Ending(p) => \A h \in HandleNumbers :
            JFN_Length[p] <= h => jfn'[p][h] = jfn[p][h]
      BY <1>0, <1>6 DEF TableInv
    <2> QED BY <1>0, <1>2, <2>1, <2>2, TableKept
  <1>l. LineageInv'
    BY <1>0, <1>2, <1>3, <1>6, LineageCopied
  <1> QED BY <1>t, <1>c, <1>n, <1>b, <1>l DEF IInv

LEMMA CloseHandleDoes ==
  ASSUME TypeInv, NEW h \in HandleNumbers, Valid(h), NEW next \in CallType, CloseHandle(h, next)
  PROVE  /\ Current[h] \in Sfts /\ h < JFN_Length[CurrentPDB]
         /\ SetHandle(CurrentPDB, h, Unused)
         /\ SetCount(Current[h], IF sf_ref_count[Current[h]] = 1 THEN Busy
                                 ELSE sf_ref_count[Current[h]] - 1)
         /\ CallIs(call', "close", next.back, Current[h], sf_ref_count[Current[h]],
                   next.from, next.to, next.left, next.child)
  <1>1. Current[h] \in Sfts /\ h < JFN_Length[CurrentPDB]
    BY DEF TypeInv, Valid, Current
  <1>2. sf_ref_count[Current[h]] \in Int
    BY <1>1 DEF TypeInv
  <1>3. /\ SetHandle(CurrentPDB, h, Unused)
        /\ SetCount(Current[h], IF sf_ref_count[Current[h]] = 1 THEN Busy
                                ELSE sf_ref_count[Current[h]] - 1)
        /\ call' = [next EXCEPT !.op = "close", !.sfn = Current[h], !.old = sf_ref_count[Current[h]]]
    BY Zenon DEF CloseHandle
  <1> QED BY <1>1, <1>2, <1>3, CloseFields

(* CloseBegins, Dup2Begins and ExitCloses, where a handle is closed. *)
LEMMA CloseHandleKeeps ==
  ASSUME IInv, NEW h \in HandleNumbers, Valid(h), NEW next \in CallType, CloseHandle(h, next),
         UNCHANGED <<sf_PID, tables, processes, mark>>,
         call.op \in {"user", "exit"},
         next.back = "exit" <=> InExit, InExit => call.left = h + 1 /\ next.left = h,
         next.back = "dup2" => next.to = h
  PROVE  IInv'
  <1> USE DEF tables, processes
  <1>0. TypeInv /\ CallInv /\ MarkInv /\ CountInv /\ TableInv /\ LineageInv
    BY DEF IInv
  <1> DEFINE s == Current[h]
  <1>1. /\ s \in Sfts /\ h < JFN_Length[CurrentPDB] /\ CurrentPDB \in Processes
        /\ SetHandle(CurrentPDB, h, Unused)
        /\ SetCount(s, IF sf_ref_count[s] = 1 THEN Busy ELSE sf_ref_count[s] - 1)
        /\ CallIs(call', "close", next.back, s, sf_ref_count[s], next.from, next.to, next.left, next.child)
    BY <1>0, CloseHandleDoes DEF TypeInv
  <1>2. /\ jfn' \in [Processes -> [HandleNumbers -> Sfts \cup {Unused}]]
        /\ \A q \in Processes, g \in HandleNumbers :
              jfn'[q][g] = IF q = CurrentPDB /\ g = h THEN Unused ELSE jfn[q][g]
    BY <1>0, <1>1, HandleSet
  <1>3. /\ sf_ref_count' \in [Sfts -> Int] /\ sf_ref_count[s] \in Int
        /\ sf_ref_count'[s] = IF sf_ref_count[s] = 1 THEN Busy ELSE sf_ref_count[s] - 1
        /\ \A t \in Sfts \ {s} : sf_ref_count'[t] = sf_ref_count[t]
    <2>1. sf_ref_count[s] \in Int /\ Busy \in Int
      BY <1>0, <1>1, Basics DEF TypeInv
    <2> QED BY <1>0, <1>1, <2>1, CountSet
  <1>4. /\ call.op # "open" /\ call.op # "exec" /\ call'.op = "close"
        /\ InExit' <=> InExit
    BY <1>1 DEF CallIs, InExit
  <1>5. /\ \A q \in Processes : Alive(q)' <=> Alive(q)
        /\ \A t : Ghost(t)' <=> Ghost(t)
        /\ \A t : ~UnderOpen(t) /\ ~UnderOpen(t)'
        /\ \A q \in Processes : Ending(q)' <=> Ending(q)
    BY <1>4 DEF Alive, Ghost, UnderOpen, Ending, InExit
  <1>6. <<CurrentPDB, h>> \in Reach(s)
    <2>1. s # Unused
      BY <1>1, <1>0, Basics
    <2> QED BY <1>1, <2>1, CurrentHandles DEF Current
  <1>7. CountRight(s) /\ sf_ref_count[s] # 0 /\ (Ghost(s) => sf_ref_count[s] < 0)
    BY <1>0, <1>1, <1>3, <1>5, <1>6 DEF CountInv, CountRight
  <1>8. UNCHANGED <<mark, CurrentPDB, status, JFN_Length>>
    OBVIOUS
  <1> HIDE DEF s
  <1>t. TypeInv'
    BY <1>0, <1>1, <1>2, <1>3 DEF TypeInv, CallIs
  <1>c. CallInv'
    <2>1. /\ call'.back = "exit" => call'.op \in {"exit", "close"}
          /\ call'.back = "dup2" => call'.op \in {"dup2", "close"}
          /\ call'.op # "open" /\ call'.op # "exec"
          /\ call'.sfn = s /\ call'.old = sf_ref_count[s]
      BY <1>1 DEF CallIs
    <2>2. (call.old = 1 => sf_ref_count[call.sfn] = Busy /\ ~Ghost(call.sfn))'
      <3>1. ASSUME sf_ref_count[s] = 1 PROVE sf_ref_count'[s] = Busy /\ ~Ghost(s)
        BY <1>3, <1>7, <3>1
      <3> QED BY <1>5, <2>1, <3>1 DEF Ghost
    <2>3. ("dup2" \in {call.op, call.back} =>
             jfn[CurrentPDB][call.to] = Unused /\ call.to < JFN_Length[CurrentPDB])'
      BY <1>1, <1>2, <1>8 DEF CallIs
    <2>4. ASSUME InExit', NEW g \in HandleNumbers,
                 call'.left <= g \/ JFN_Length'[CurrentPDB'] <= g
          PROVE  (jfn[CurrentPDB][g] = Unused \/ (Ghost(jfn[CurrentPDB][g]) /\ mark.h = g))'
      <3>1. CASE g = h
        BY <1>1, <1>2, <3>1
      <3>2. CASE g # h
        <4>0. call'.left = next.left /\ g \in Int /\ h \in Int
          BY <1>0, <1>1, Basics DEF CallIs
        <4>1. /\ call.left <= g \/ JFN_Length[CurrentPDB] <= g
              /\ jfn'[CurrentPDB'][g] = jfn[CurrentPDB][g]
          BY <1>1, <1>2, <1>4, <1>8, <2>4, <3>2, <4>0
        <4>2. jfn[CurrentPDB][g] = Unused \/ (Ghost(jfn[CurrentPDB][g]) /\ mark.h = g)
          BY <1>0, <1>4, <2>4, <4>1 DEF CallInv
        <4> QED BY <1>4, <1>8, <4>1, <4>2 DEF Ghost
      <3> QED BY <3>1, <3>2
    <2>5. InExit' => /\ CurrentPDB' # Root
                     /\ (mark # Unmarked /\ mark.psp = CurrentPDB =>
                           jfn[CurrentPDB][mark.h] \in {Unused, mark.sfn})'
      BY <1>0, <1>2, <1>4, <1>8 DEF CallInv, TypeInv
    <2>6. call'.sfn \in Sfts
      BY <1>1, <2>1
    <2> QED BY <2>1, <2>2, <2>3, <2>4, <2>5, <2>6 DEF CallInv
  <1>m. MarkInv'
    BY <1>0, <1>4 DEF MarkInv
  <1>n. CountInv'
    <2> SUFFICES ASSUME NEW t \in Sfts PROVE CountRight(t)'
      BY DEF CountInv
    <2>1. Reach(t)' = Reach(t) \ {<<CurrentPDB, h>>}
      BY <1>0, <1>1, <1>5, ReachRemoves
    <2>2. CASE t = s
      <3>1. CountRight(s)
        BY <1>7
      <3>2. sf_ref_count'[s] # 0 => status'[sf_PID'[s]] # "none"
        BY <1>7, <1>8 DEF CountRight
      <3>3. CASE Ghost(s)
        <4>1. /\ sf_ref_count[s] < 0 /\ sf_PID[s] = CurrentPDB
              /\ Reach(s) \subseteq {<<CurrentPDB, mark.h>>}
          BY <1>5, <3>1, <3>3 DEF CountRight
        <4>2. sf_ref_count'[s] < 0
          BY <1>3, <4>1
        <4> QED BY <1>5, <2>1, <2>2, <3>2, <3>3, <4>1, <4>2 DEF CountRight
      <3>4. CASE ~Ghost(s)
        <4>1. /\ sf_ref_count[s] > 0
              /\ IsFiniteSet(Reach(s)) /\ sf_ref_count[s] = Cardinality(Reach(s))
          BY <1>5, <1>6, <3>1, <3>4 DEF CountRight
        <4>2. /\ IsFiniteSet(Reach(s) \ {<<CurrentPDB, h>>})
              /\ Cardinality(Reach(s) \ {<<CurrentPDB, h>>}) = sf_ref_count[s] - 1
          BY <1>6, <4>1, FS_RemoveElement
        <4>3. sf_ref_count[s] = 1 => Reach(s) \ {<<CurrentPDB, h>>} = {}
          BY <4>2, FS_EmptySet
        <4> QED BY <1>0, <1>3, <1>5, <2>1, <2>2, <3>2, <3>4, <4>1, <4>2, <4>3, Basics DEF CountRight
      <3> QED BY <3>3, <3>4
    <2>3. CASE t # s
      <3>1. <<CurrentPDB, h>> \notin Reach(t)
        BY <2>3 DEF Reach, s, Current
      <3>2. Reach(t)' = Reach(t)
        BY <2>1, <3>1
      <3> QED BY <1>0, <1>3, <1>5, <2>3, <3>2, CountKept
    <2> QED BY <2>2, <2>3
  <1>b. TableInv'
    <2>1. \A p \in Processes : status[p] # "none" /\ ~Ending(p) => \A g \in HandleNumbers :
            JFN_Length[p] <= g => jfn'[p][g] = jfn[p][g]
      BY <1>0, <1>2 DEF TableInv
    <2> QED BY <1>0, <1>5, <2>1, TableKept
  <1>l. LineageInv'
    BY <1>0, <1>2, <1>5, LineageCopied
  <1> QED BY <1>t, <1>c, <1>m, <1>n, <1>b, <1>l DEF IInv

(* Steps that change the call, and may free an entry that a close left busy. *)
LEMMA CallStepKeeps ==
  ASSUME IInv, call' \in CallType, UNCHANGED <<sf_PID, jfn, tables, processes, mark>>,
         sf_ref_count' \in [Sfts -> Int],
         \A t \in Sfts : \/ sf_ref_count'[t] = sf_ref_count[t]
                         \/ sf_ref_count[t] = Busy /\ ~Ghost(t) /\ sf_ref_count'[t] = 0,
         call.op # "open", call'.op # "open",
         call'.op = "exec" <=> call.op = "exec", call.op = "exec" => call'.child = call.child,
         InExit' <=> InExit, CallInv'
  PROVE  IInv'
  <1> USE DEF tables, processes
  <1>0. TypeInv /\ CallInv /\ MarkInv /\ CountInv /\ TableInv /\ LineageInv
    BY DEF IInv
  <1>1. /\ \A q \in Processes : Alive(q)' <=> Alive(q)
        /\ \A q \in Processes : Ending(q)' <=> Ending(q)
        /\ \A t : (Ghost(t)' <=> Ghost(t)) /\ ~UnderOpen(t) /\ ~UnderOpen(t)'
    BY DEF Alive, Ghost, UnderOpen, Ending, InExit
  <1>t. TypeInv'
    BY <1>0 DEF TypeInv
  <1>m. MarkInv'
    BY <1>0 DEF MarkInv
  <1>n. CountInv'
    <2> SUFFICES ASSUME NEW t \in Sfts PROVE CountRight(t)'
      BY DEF CountInv
    <2>1. Reach(t)' = Reach(t)
      BY <1>1, ReachKept
    <2>2. CASE sf_ref_count'[t] = sf_ref_count[t]
      BY <1>0, <1>1, <2>1, <2>2, CountKept
    <2>3. CASE sf_ref_count[t] = Busy /\ ~Ghost(t) /\ sf_ref_count'[t] = 0
      <3>1. Reach(t) = {}
        BY <1>0, <1>1, <2>3, Basics DEF CountInv, CountRight
      <3> QED BY <1>0, <1>1, <2>1, <2>3, <3>1, Basics DEF CountRight
    <2> QED BY <2>2, <2>3
  <1>b. TableInv'
    BY <1>0, <1>1, TableKept
  <1>l. LineageInv'
    BY <1>0, <1>1, LineageCopied
  <1> QED BY <1>t, <1>m, <1>n, <1>b, <1>l DEF IInv

LEMMA CloseBeginsKeeps ==
  ASSUME IInv, CloseBegins PROVE IInv'
  <1>1. PICK h \in HandleNumbers : Valid(h) /\ CloseHandle(h, User)
    BY Zenon DEF CloseBegins
  <1>2. call.op = "user" /\ UNCHANGED <<sf_PID, tables, processes, mark>>
    BY Zenon DEF CloseBegins
  <1>3. User \in CallType /\ User.back = "user"
    BY UserFields DEF CallIs
  <1>4. ~InExit
    BY <1>2 DEF IInv, CallInv, InExit
  <1> QED BY <1>1, <1>2, <1>3, <1>4, CloseHandleKeeps

LEMMA CloseEndsKeeps ==
  ASSUME IInv, CloseEnds PROVE IInv'
  <1>0. TypeInv /\ CallInv
    BY DEF IInv
  <1>1. /\ call.op = "close"
        /\ UNCHANGED <<sf_PID, jfn, tables, processes, mark>>
        /\ IF call.old = 1 THEN SetCount(call.sfn, 0) ELSE UNCHANGED sf_ref_count
    BY Zenon DEF CloseEnds
  <1>2. /\ call \in CallType /\ call.sfn \in Sfts /\ call.back \in {"user", "dup2", "exit"}
        /\ call.old = 1 => sf_ref_count[call.sfn] = Busy /\ ~Ghost(call.sfn)
    BY <1>0, <1>1 DEF CallInv, TypeInv, CallType
  <1>3. /\ sf_ref_count' \in [Sfts -> Int]
        /\ \A t \in Sfts : \/ sf_ref_count'[t] = sf_ref_count[t]
                           \/ sf_ref_count[t] = Busy /\ ~Ghost(t) /\ sf_ref_count'[t] = 0
    BY <1>0, <1>1, <1>2, CountSet DEF TypeInv
  <1>4. CASE call.back = "user"
    <2>1. call' = User
      BY <1>4, Zenon DEF CloseEnds
    <2>2. CallIs(call', "user", "user", 0, 0, 0, 0, 0, Root) /\ ~InExit /\ ~InExit'
      BY <1>1, <1>4, <2>1, UserFields DEF InExit, CallIs
    <2>3. CallInv'
      BY <2>2 DEF CallInv, CallIs
    <2> QED BY <1>1, <1>3, <2>2, <2>3, CallStepKeeps DEF CallIs
  <1>5. CASE call.back # "user"
    <2>1. call' = [call EXCEPT !.op = call.back]
      BY <1>5, Zenon DEF CloseEnds
    <2>2. CallIs(call', call.back, call.back, call.sfn, call.old, call.from, call.to, call.left, call.child)
      BY <1>2, <2>1, SetOp
    <2>3. (InExit' <=> InExit) /\ call.back \in {"dup2", "exit"} /\ call'.op = call.back
      BY <1>1, <1>2, <1>5, <2>2 DEF InExit, CallIs
    <2>4. UNCHANGED <<CurrentPDB, jfn, mark, JFN_Length>>
      BY <1>1 DEF processes, tables
    <2>5. \A t : Ghost(t)' <=> Ghost(t)
      BY <2>3, <2>4 DEF Ghost
    <2>6. CallInv'
      BY <1>0, <1>1, <2>2, <2>3, <2>4, <2>5 DEF CallInv, CallIs
    <2> QED BY <1>1, <1>3, <2>2, <2>3, <2>6, CallStepKeeps DEF CallIs
  <1> QED BY <1>4, <1>5

LEMMA Dup2BeginsKeeps ==
  ASSUME IInv, Dup2Begins PROVE IInv'
  <1>0. TypeInv /\ CallInv
    BY DEF IInv
  <1> DEFINE next(h, g) == [User EXCEPT !.back = "dup2", !.from = h, !.to = g]
  <1>1. PICK h \in HandleNumbers, g \in HandleNumbers :
          /\ g < JFN_Length[CurrentPDB]
          /\ IF Valid(g) THEN CloseHandle(g, next(h, g))
             ELSE call' = [next(h, g) EXCEPT !.op = "dup2"] /\ UNCHANGED <<sf_ref_count, jfn>>
    BY Zenon DEF Dup2Begins
  <1>2. call.op = "user" /\ UNCHANGED <<sf_PID, tables, processes, mark>>
    BY Zenon DEF Dup2Begins
  <1>3. CallIs(next(h, g), "user", "dup2", 0, 0, h, g, 0, Root)
    BY Dup2Fields
  <1>4. ~InExit
    BY <1>0, <1>2 DEF CallInv, InExit
  <1> HIDE DEF next
  <1>5. CASE Valid(g)
    <2>1. CloseHandle(g, next(h, g))
      BY <1>1, <1>5, Zenon
    <2> QED BY <1>2, <1>3, <1>4, <1>5, <2>1, CloseHandleKeeps DEF CallIs
  <1>6. CASE ~Valid(g)
    <2>1. call' = [next(h, g) EXCEPT !.op = "dup2"] /\ UNCHANGED <<sf_ref_count, jfn>>
          /\ g < JFN_Length[CurrentPDB]
      BY <1>1, <1>6, Zenon
    <2>2. CallIs(call', "dup2", "dup2", 0, 0, h, g, 0, Root)
      BY <1>3, <2>1, SetOp DEF CallIs
    <2>3. ~InExit' /\ call' \in CallType /\ call'.op = "dup2"
      BY <2>2 DEF InExit, CallIs
    <2>4. UNCHANGED <<CurrentPDB, JFN_Length>> /\ jfn[CurrentPDB][g] = Unused
      BY <1>2, <1>6, <2>1 DEF processes, tables, Valid, Current
    <2>5. CallInv'
      BY <2>1, <2>2, <2>3, <2>4 DEF CallInv, CallIs
    <2> QED BY <1>0, <1>2, <1>4, <2>1, <2>3, <2>5, CallStepKeeps DEF TypeInv
  <1> QED BY <1>5, <1>6

LEMMA ExitClosesKeeps ==
  ASSUME IInv, ExitCloses PROVE IInv'
  <1>0. TypeInv /\ CallInv
    BY DEF IInv
  <1> DEFINE h == call.left - 1
             next == [call EXCEPT !.back = "exit", !.left = h]
  <1>1. /\ call.op = "exit" /\ call.left > 0
        /\ IF Valid(h) THEN CloseHandle(h, next)
           ELSE call' = next /\ UNCHANGED <<sf_ref_count, jfn>>
        /\ UNCHANGED <<sf_PID, tables, processes, mark>>
    BY Zenon DEF ExitCloses
  <1>a. call \in CallType /\ call.left \in 0..MaxHandles /\ call.left > 0
    BY <1>0, <1>1, Zenon DEF TypeInv, CallType
  <1>2. h \in HandleNumbers /\ h \in 0..MaxHandles /\ call \in CallType /\ call.left = h + 1
    <2> HIDE DEF next
    <2> QED BY <1>a, Basics, <1>0
  <1>3. CallIs(next, "exit", "exit", call.sfn, call.old, call.from, call.to, h, call.child)
    BY <1>1, <1>2, ExitCloseFields
  <1>4. InExit /\ call.back # "dup2"
    BY <1>0, <1>1, <1>2 DEF InExit, CallInv, CallType
  <1> HIDE DEF next, h
  <1>5. CASE Valid(h)
    <2>1. CloseHandle(h, next)
      BY <1>1, <1>5, Zenon
    <2> QED BY <1>1, <1>2, <1>3, <1>4, <1>5, <2>1, CloseHandleKeeps DEF CallIs
  <1>6. CASE ~Valid(h)
    <2>1. call' = next /\ UNCHANGED <<sf_ref_count, jfn>>
      BY <1>1, <1>6, Zenon
    <2>2. CallIs(call', "exit", "exit", call.sfn, call.old, call.from, call.to, h, call.child)
      BY <1>3, <2>1
    <2>3. InExit' /\ call' \in CallType /\ call'.op = "exit" /\ call'.left = h
      BY <2>2 DEF InExit, CallIs
    <2>4. UNCHANGED <<CurrentPDB, mark, jfn, JFN_Length>>
      BY <1>1, <2>1 DEF processes, tables
    <2>5. ASSUME NEW g \in HandleNumbers, call'.left <= g \/ JFN_Length'[CurrentPDB'] <= g
          PROVE  (jfn[CurrentPDB][g] = Unused \/ (Ghost(jfn[CurrentPDB][g]) /\ mark.h = g))'
      <3>0. JFN_Length[CurrentPDB] \in Int /\ g \in Int /\ h \in Int
        BY <1>0, <1>2, Basics DEF TypeInv
      <3>1. \/ call.left <= g \/ JFN_Length[CurrentPDB] <= g
            \/ jfn[CurrentPDB][g] = Unused
        BY <1>2, <1>6, <2>3, <2>4, <2>5, <3>0 DEF Valid, Current
      <3>2. jfn[CurrentPDB][g] = Unused \/ (Ghost(jfn[CurrentPDB][g]) /\ mark.h = g)
        BY <1>0, <1>4, <3>1 DEF CallInv
      <3> QED BY <1>4, <2>3, <2>4, <3>2 DEF Ghost
    <2>6. CallInv'
      <3>1. /\ CurrentPDB' # Root /\ call'.back = "exit"
            /\ (mark # Unmarked /\ mark.psp = CurrentPDB =>
                  jfn[CurrentPDB][mark.h] \in {Unused, mark.sfn})'
        BY <1>0, <1>4, <2>2, <2>4 DEF CallInv, CallIs
      <3> QED BY <2>3, <2>5, <3>1 DEF CallInv
    <2> QED BY <1>0, <1>1, <1>4, <2>1, <2>3, <2>6, CallStepKeeps DEF TypeInv
  <1> QED BY <1>5, <1>6

(* Dup, Dup2Ends and Inherit: a handle gets an entry another one stands for. *)
LEMMA ShareKeeps ==
  ASSUME IInv, NEW p \in Processes, NEW h \in HandleNumbers, NEW s \in Sfts,
         SetHandle(p, h, s), SetCount(s, sf_ref_count[s] + 1), call' \in CallType,
         UNCHANGED <<sf_PID, tables, processes, mark>>,
         ~InExit, ~InExit', call.op # "open", call'.op # "open", CallInv',
         Alive(p), \A q \in Processes : Alive(q)' <=> Alive(q),
         jfn[p][h] = Unused, Reach(s) # {},
         status[p] # "none" => h < JFN_Length[p],
         \A depth \in [Processes -> Nat] : Lineage(depth) => MayHold(p, sf_PID[s], depth)
  PROVE  IInv'
  <1> USE DEF tables, processes
  <1>0. TypeInv /\ CallInv /\ MarkInv /\ CountInv /\ TableInv /\ LineageInv
    BY DEF IInv
  <1>1. /\ jfn' \in [Processes -> [HandleNumbers -> Sfts \cup {Unused}]]
        /\ \A q \in Processes, g \in HandleNumbers :
              jfn'[q][g] = IF q = p /\ g = h THEN s ELSE jfn[q][g]
    BY <1>0, HandleSet
  <1>2. /\ sf_ref_count' \in [Sfts -> Int] /\ sf_ref_count[s] \in Int
        /\ sf_ref_count'[s] = sf_ref_count[s] + 1
        /\ \A t \in Sfts \ {s} : sf_ref_count'[t] = sf_ref_count[t]
    <2>1. sf_ref_count[s] \in Int
      BY <1>0 DEF TypeInv
    <2> QED BY <1>0, <2>1, CountSet
  <1>3. /\ \A t : ~Ghost(t) /\ ~Ghost(t)' /\ ~UnderOpen(t) /\ ~UnderOpen(t)'
        /\ \A q \in Processes : ~Ending(q) /\ ~Ending(q)'
    BY DEF Ghost, UnderOpen, Ending, InExit
  <1>t. TypeInv'
    BY <1>0, <1>1, <1>2 DEF TypeInv
  <1>m. MarkInv'
    BY <1>0 DEF MarkInv
  <1>n. CountInv'
    <2> SUFFICES ASSUME NEW t \in Sfts PROVE CountRight(t)'
      BY DEF CountInv
    <2>1. Reach(t)' = IF t = s THEN Reach(t) \cup {<<p, h>>} ELSE Reach(t) \ {<<p, h>>}
      BY <1>0, ReachAdds
    <2>2. <<p, h>> \notin Reach(t)
      BY <1>0, Basics DEF Reach
    <2>3. CASE t = s
      <3>1. /\ IsFiniteSet(Reach(s)) /\ sf_ref_count[s] = Cardinality(Reach(s))
            /\ sf_ref_count[s] > 0 /\ status[sf_PID[s]] # "none"
        BY <1>2, CountsOf, Basics, <1>0
      <3>2. IsFiniteSet(Reach(s) \cup {<<p, h>>}) /\ Cardinality(Reach(s) \cup {<<p, h>>}) = sf_ref_count[s] + 1
        BY <2>2, <2>3, <3>1, FS_AddElement
      <3> QED BY <1>2, <1>3, <2>1, <2>3, <3>1, <3>2 DEF CountRight
    <2>4. CASE t # s
      <3>1. Reach(t)' = Reach(t)
        BY <2>1, <2>2, <2>4
      <3> QED BY <1>0, <1>2, <1>3, <2>4, <3>1, CountKept
    <2> QED BY <2>3, <2>4
  <1>b. TableInv'
    <2>1. \A q \in Processes : status[q] # "none" /\ ~Ending(q) => \A g \in HandleNumbers :
            JFN_Length[q] <= g => jfn'[q][g] = jfn[q][g]
      <3>1. JFN_Length[p] \in Int /\ h \in Int
        BY <1>0, Basics DEF TypeInv
      <3>2. status[p] # "none" => ~(JFN_Length[p] <= h)
        BY <3>1
      <3> QED BY <1>1, <3>2, Zenon
    <2> QED BY <1>0, <1>3, <2>1, TableKept
  <1>l. LineageInv'
    <2>1. PICK depth \in [Processes -> Nat] : Lineage(depth)
      BY <1>0 DEF LineageInv
    <2>2. \A q \in Processes : Alive(q)' => \A g \in HandleNumbers :
            jfn'[q][g] # Unused => MayHold(q, sf_PID'[jfn'[q][g]], depth)
      BY <1>1, <2>1 DEF Lineage
    <2> QED BY <1>0, <2>1, <2>2, LineageKept
  <1> QED BY <1>t, <1>m, <1>n, <1>b, <1>l DEF IInv

LEMMA DupKeeps ==
  ASSUME IInv, Dup PROVE IInv'
  <1> USE DEF tables, processes
  <1>0. TypeInv /\ CallInv /\ LineageInv
    BY DEF IInv
  <1>1. PICK h \in HandleNumbers, g \in HandleNumbers :
          /\ FirstVacant(g) /\ Valid(h)
          /\ SetCount(Current[h], sf_ref_count[Current[h]] + 1)
          /\ SetHandle(CurrentPDB, g, Current[h])
    BY DEF Dup
  <1>2. call.op = "user" /\ call' = call /\ UNCHANGED <<sf_PID, tables, processes, mark>>
    BY DEF Dup
  <1>3. ~InExit /\ ~InExit' /\ call' \in CallType /\ call.back = "user"
    BY <1>0, <1>2 DEF InExit, CallInv, TypeInv, CallType
  <1>4. CurrentPDB \in Processes /\ Current[h] # Unused /\ jfn[CurrentPDB][g] = Unused
        /\ g < JFN_Length[CurrentPDB]
    BY <1>0, <1>1 DEF TypeInv, Valid, FirstVacant, Vacant, Current
  <1>5. Current[h] \in Sfts /\ Reach(Current[h]) # {} /\ Alive(CurrentPDB)
    BY <1>4, CurrentHandles DEF Current
  <1>6. \A depth \in [Processes -> Nat] :
          Lineage(depth) => MayHold(CurrentPDB, sf_PID[Current[h]], depth)
    BY <1>4, <1>5 DEF Lineage, Current
  <1>7. CallInv'
    BY <1>2, <1>3 DEF CallInv
  <1>8. \A q \in Processes : Alive(q)' <=> Alive(q)
    BY <1>2 DEF Alive
  <1> QED BY <1>1, <1>2, <1>3, <1>4, <1>5, <1>6, <1>7, <1>8, ShareKeeps

LEMMA Dup2EndsKeeps ==
  ASSUME IInv, Dup2Ends PROVE IInv'
  <1> USE DEF tables, processes
  <1>0. TypeInv /\ CallInv /\ LineageInv
    BY DEF IInv
  <1> DEFINE s == Current[call.from]
  <1>1. /\ call.op = "dup2" /\ call' = User
        /\ UNCHANGED <<sf_PID, tables, processes, mark>>
        /\ IF Valid(call.from)
             THEN SetCount(s, sf_ref_count[s] + 1) /\ SetHandle(CurrentPDB, call.to, s)
             ELSE UNCHANGED <<sf_ref_count, jfn>>
    BY DEF Dup2Ends
  <1>2. CallIs(call', "user", "user", 0, 0, 0, 0, 0, Root)
    BY <1>1, UserFields
  <1>3. ~InExit /\ ~InExit' /\ call' \in CallType /\ call'.op = "user" /\ call'.back = "user"
    BY <1>0, <1>1, <1>2 DEF InExit, CallInv, CallIs
  <1>4. CallInv'
    BY <1>3 DEF CallInv
  <1>5. CurrentPDB \in Processes /\ call.from \in HandleNumbers /\ call.to \in HandleNumbers
        /\ jfn[CurrentPDB][call.to] = Unused
    BY <1>0, <1>1 DEF TypeInv, CallType, CallInv
  <1>6. CASE Valid(call.from)
    <2>1. Current[call.from] # Unused
      BY <1>6 DEF Valid
    <2>2. s \in Sfts /\ Reach(s) # {} /\ Alive(CurrentPDB) /\ status[CurrentPDB] = "live"
      BY <1>5, <2>1, CurrentHandles DEF Current
    <2>3. \A depth \in [Processes -> Nat] : Lineage(depth) => MayHold(CurrentPDB, sf_PID[s], depth)
      BY <1>5, <2>1, <2>2 DEF Lineage, Current
    <2>4. \A q \in Processes : Alive(q)' <=> Alive(q)
      BY <1>1, <1>3 DEF Alive
    <2>5. call.to < JFN_Length[CurrentPDB]
      BY <1>0, <1>1 DEF CallInv
    <2> HIDE DEF s
    <2> QED BY <1>1, <1>3, <1>4, <1>5, <1>6, <2>2, <2>3, <2>4, <2>5, ShareKeeps
  <1>7. CASE ~Valid(call.from)
    BY <1>0, <1>1, <1>3, <1>4, <1>7, CallStepKeeps DEF TypeInv
  <1> QED BY <1>6, <1>7

LEMMA InheritKeeps ==
  ASSUME IInv, Inherit PROVE IInv'
  <1> USE DEF tables, processes
  <1>0. TypeInv /\ CallInv /\ LineageInv
    BY DEF IInv
  <1> DEFINE h == call.left
             s == Current[h]
  <1>1. /\ call.op = "exec" /\ h < FilPerProc
        /\ call' = [call EXCEPT !.left = h + 1]
        /\ UNCHANGED <<sf_PID, tables, processes, mark>>
    BY Zenon DEF Inherit
  <1>2. \/ Current[h] # Unused /\ SetCount(s, sf_ref_count[s] + 1) /\ SetHandle(call.child, h, s)
        \/ UNCHANGED <<sf_ref_count, jfn>>
    BY Zenon DEF Inherit
  <1>a. /\ call \in CallType /\ call.left \in 0..MaxHandles /\ call.child \in Processes
        /\ CurrentPDB \in Processes
    BY <1>0, Zenon DEF TypeInv, CallType
  <1>b. /\ h < FilPerProc /\ call.op = "exec"
        /\ UNCHANGED <<sf_PID, JFN_Length, JFN_Pointer, owner, status, parent, CurrentPDB, mark>>
    BY <1>1, Zenon
  <1>3. /\ CallIs(call', "exec", call.back, call.sfn, call.old, call.from, call.to, h + 1, call.child)
        /\ h \in HandleNumbers /\ h + 1 \in 0..MaxHandles /\ h + 1 <= FilPerProc
    <2>1. h \in HandleNumbers /\ h + 1 \in 0..MaxHandles /\ h + 1 <= FilPerProc
      BY <1>0, <1>a, <1>b, Basics
    <2> QED BY <1>1, <1>a, <2>1, LeftFields DEF CallIs
  <1>4. /\ ~InExit /\ ~InExit' /\ call' \in CallType /\ call'.op = "exec" /\ call.back = "user"
        /\ call'.child = call.child /\ call'.left = h + 1 /\ call'.back = "user"
    BY <1>0, <1>a, <1>b, <1>3 DEF InExit, CallInv, CallIs, CallType
  <1>5. /\ status[call.child] = "none" /\ mark = Unmarked
        /\ \A g \in HandleNumbers : h <= g => jfn[call.child][g] = Unused
    BY <1>0, <1>b DEF CallInv
  <1>6. \A q \in Processes : Alive(q)' <=> Alive(q)
    BY <1>b, <1>4 DEF Alive
  <1>7. /\ Alive(call.child)
        /\ jfn[call.child][h] = Unused
    <2>1. h \in Int
      BY <1>0, <1>3, Basics
    <2> QED BY <1>b, <1>3, <1>5, <2>1 DEF Alive
  <1>8. ASSUME \A g \in HandleNumbers : h + 1 <= g => jfn'[call.child][g] = Unused
        PROVE  CallInv'
    BY <1>b, <1>3, <1>4, <1>5, <1>8 DEF CallInv
  <1>9. CASE Current[h] # Unused /\ SetCount(s, sf_ref_count[s] + 1) /\ SetHandle(call.child, h, s)
    <2>1. s \in Sfts /\ Reach(s) # {} /\ Alive(CurrentPDB) /\ status[CurrentPDB] = "live"
      BY <1>3, <1>9, <1>a, CurrentHandles DEF Current
    <2>2. \A depth \in [Processes -> Nat] : Lineage(depth) => MayHold(call.child, sf_PID[s], depth)
      BY <1>3, <1>9, <1>a, <1>5, <2>1 DEF Lineage, MayHold, Current
    <2> HIDE DEF s
    <2>3. SetHandle(call.child, h, s)
      BY <1>9
    <2>4. \A g \in HandleNumbers : h + 1 <= g => jfn'[call.child][g] = Unused
      <3>1. \A g \in HandleNumbers : g \in Int /\ h \in Int
        BY <1>0, <1>3, Basics
      <3>2. \A g \in HandleNumbers : jfn'[call.child][g] = IF g = h THEN s ELSE jfn[call.child][g]
        BY <1>0, <1>a, <1>3, <2>1, <2>3, HandleSet
      <3> QED BY <1>5, <3>1, <3>2
    <2>5. CallInv'
      BY <1>8, <2>4
    <2> HIDE DEF h
    <2> QED BY <1>1, <1>3, <1>a, <1>4, <1>5, <1>6, <1>7, <1>9, <2>1, <2>2, <2>3, <2>5, ShareKeeps
  <1>10. CASE UNCHANGED <<sf_ref_count, jfn>>
    <2>1. \A g \in HandleNumbers : h + 1 <= g => jfn'[call.child][g] = Unused
      <3>1. \A g \in HandleNumbers : g \in Int /\ h \in Int
        BY <1>0, <1>3, Basics
      <3> QED BY <1>5, <1>10, <3>1
    <2>2. CallInv'
      BY <1>8, <2>1
    <2> QED BY <1>0, <1>b, <1>4, <1>10, <2>2, CallStepKeeps DEF TypeInv
  <1> QED BY <1>2, <1>9, <1>10

LEMMA ExtHandleKeeps ==
  ASSUME IInv, ExtHandle PROVE IInv'
  <1> USE DEF files, tables, processes
  <1>0. TypeInv /\ CallInv /\ MarkInv /\ CountInv /\ TableInv /\ LineageInv
    BY DEF IInv
  <1> DEFINE p == CurrentPDB
  <1>1. PICK n \in FilPerProc..MaxHandles, new \in {b \in Blocks : owner[b] = Nobody} \cup {Psp} :
          /\ \A h \in HandleNumbers : n <= h => Current[h] = Unused
          /\ JFN_Length' = [JFN_Length EXCEPT ![p] = n]
          /\ (new = Psp) <=> (n = FilPerProc)
          /\ JFN_Pointer' = [JFN_Pointer EXCEPT ![p] = new]
          /\ owner' = [b \in Blocks |-> IF b = new THEN p
                                        ELSE IF b = JFN_Pointer[p] THEN Nobody
                                        ELSE owner[b]]
    BY DEF ExtHandle
  <1>2. call.op = "user" /\ UNCHANGED <<files, jfn, processes, mark, call>>
    BY DEF ExtHandle
  <1>3. ~InExit /\ ~InExit' /\ call.back = "user"
    BY <1>0, <1>2 DEF InExit, CallInv, TypeInv, CallType
  <1>4. /\ \A q \in Processes : Alive(q)' <=> Alive(q)
        /\ \A q \in Processes : ~Ending(q) /\ ~Ending(q)'
        /\ \A t : ~Ghost(t) /\ ~Ghost(t)' /\ ~UnderOpen(t) /\ ~UnderOpen(t)'
    BY <1>2, <1>3 DEF Alive, Ending, Ghost, UnderOpen, InExit
  <1>5. status[p] = "live" /\ p \in Processes
    BY <1>0, CurrentHandles DEF TypeInv
  <1>t. TypeInv'
    BY <1>0, <1>1, <1>2, <1>5 DEF TypeInv
  <1>c. CallInv' /\ MarkInv'
    BY <1>0, <1>2, <1>3 DEF CallInv, MarkInv
  <1>n. CountInv'
    <2> SUFFICES ASSUME NEW t \in Sfts PROVE CountRight(t)'
      BY DEF CountInv
    <2>1. Reach(t)' = Reach(t)
      BY <1>2, <1>4, ReachKept
    <2> QED BY <1>0, <1>2, <1>4, <2>1, CountKept
  <1>b. TableInv'
    <2>1. /\ JFN_Length'[p] = n /\ JFN_Pointer'[p] = new
          /\ \A q \in Processes \ {p} : JFN_Length'[q] = JFN_Length[q] /\ JFN_Pointer'[q] = JFN_Pointer[q]
          /\ \A b \in Blocks : owner'[b] = IF b = new THEN p
                                           ELSE IF b = JFN_Pointer[p] THEN Nobody ELSE owner[b]
      BY <1>0, <1>1, <1>5 DEF TypeInv
    <2>2. /\ \A b \in Blocks : owner[b] = p <=> JFN_Pointer[p] = b
          /\ new = Psp \/ (new \in Blocks /\ owner[new] = Nobody)
          /\ Psp \notin Blocks /\ Nobody \notin Processes /\ p \in Processes
      BY <1>0, <1>1, <1>4, <1>5, Basics DEF TableInv
    <2>3. \A b \in Blocks : owner'[b] # Nobody => status'[owner'[b]] # "none"
      BY <1>0, <1>2, <1>5, <2>1 DEF TableInv
    <2>4. \A q \in Processes : status'[q] = "none" => JFN_Length'[q] = FilPerProc /\ JFN_Pointer'[q] = Psp
      BY <1>0, <1>2, <1>5, <2>1 DEF TableInv
    <2>5. ASSUME NEW q \in Processes
          PROVE  /\ \A b \in Blocks : owner'[b] = q <=> JFN_Pointer'[q] = b
                 /\ (JFN_Pointer'[q] = Psp) <=> (JFN_Length'[q] = FilPerProc)
                 /\ status'[q] # "none" =>
                      \A h \in HandleNumbers : JFN_Length'[q] <= h => jfn'[q][h] = Unused
      <3>1. CASE q = p
        BY <1>1, <1>2, <2>1, <2>2, <3>1 DEF Current
      <3>2. CASE q # p
        <4>1. /\ \A b \in Blocks : owner[b] = q <=> JFN_Pointer[q] = b
              /\ (JFN_Pointer[q] = Psp) <=> (JFN_Length[q] = FilPerProc)
              /\ status[q] # "none" =>
                   \A h \in HandleNumbers : JFN_Length[q] <= h => jfn[q][h] = Unused
          BY <1>0, <1>4 DEF TableInv
        <4>2. JFN_Length'[q] = JFN_Length[q] /\ JFN_Pointer'[q] = JFN_Pointer[q]
          BY <2>1, <3>2
        <4>3. \A b \in Blocks : owner'[b] = q <=> owner[b] = q
          BY <1>1, <2>1, <2>2, <3>2
        <4> QED BY <1>2, <4>1, <4>2, <4>3
      <3> QED BY <3>1, <3>2
    <2>6. \A q : ~Ending(q)'
      BY <1>3 DEF Ending, InExit
    <2> QED BY <2>3, <2>4, <2>5, <2>6 DEF TableInv
  <1>l. LineageInv'
    BY <1>0, <1>2, <1>4, LineageCopied
  <1> QED BY <1>t, <1>c, <1>n, <1>b, <1>l DEF IInv

LEMMA ExecBeginsKeeps ==
  ASSUME IInv, ExecBegins PROVE IInv'
  <1> USE DEF tables, processes
  <1>0. TypeInv /\ CallInv /\ MarkInv /\ CountInv /\ TableInv /\ LineageInv
    BY DEF IInv
  <1>1. PICK s \in Sfts :
          FirstUsable(s) /\ SetCount(s, 0) /\ sf_PID' = [sf_PID EXCEPT ![s] = CurrentPDB]
    BY Zenon DEF ExecBegins
  <1>2. call.op = "user" /\ mark' = Unmarked
        /\ UNCHANGED <<JFN_Length, JFN_Pointer, owner, status, parent, CurrentPDB>>
    BY Zenon DEF ExecBegins
  <1>3. ~InExit /\ call.back = "user" /\ CurrentPDB \in Processes /\ Unused \notin Sfts
    BY <1>0, <1>2, Basics DEF InExit, CallInv, TypeInv, CallType
  <1>4. /\ sf_ref_count' \in [Sfts -> Int] /\ sf_PID' \in [Sfts -> Processes]
        /\ sf_ref_count'[s] = 0
        /\ \A t \in Sfts \ {s} : sf_ref_count'[t] = sf_ref_count[t] /\ sf_PID'[t] = sf_PID[t]
    BY <1>0, <1>1, <1>3, CountSet DEF TypeInv
  <1>5. Reach(s) = {}
    BY <1>0, <1>1, <1>2, <1>3, CountsOf, Basics DEF FirstUsable, Usable
  <1>6. PICK p \in Processes :
          \/ /\ status[p] = "none" /\ jfn' = [jfn EXCEPT ![p] = NoHandles]
             /\ call' = [User EXCEPT !.op = "exec", !.child = p]
          \/ p = Root /\ UNCHANGED <<jfn, call>>
    <2>1. CASE UNCHANGED <<jfn, call>>
      BY <2>1, <1>0, Basics, Zenon
    <2>2. CASE ~UNCHANGED <<jfn, call>>
      BY <2>2, Zenon DEF ExecBegins
    <2> QED BY <2>1, <2>2
  <1>7. /\ jfn' \in [Processes -> [HandleNumbers -> Sfts \cup {Unused}]]
        /\ \A q \in Processes : status[q] # "none" => jfn'[q] = jfn[q]
    <2>1. jfn' = jfn \/ (status[p] = "none" /\ jfn' = [jfn EXCEPT ![p] = NoHandles])
      BY <1>6, Zenon
    <2>2. NoHandles \in [HandleNumbers -> Sfts \cup {Unused}]
      BY DEF NoHandles
    <2>3. jfn \in [Processes -> [HandleNumbers -> Sfts \cup {Unused}]]
      BY <1>0 DEF TypeInv
    <2> HIDE DEF NoHandles
    <2> QED BY <2>1, <2>2, <2>3
  <1>8. /\ ~InExit' /\ call' \in CallType /\ call'.op \in {"user", "exec"} /\ call'.back = "user"
        /\ \A q \in Processes : Alive(q)' <=> status[q] # "none" \/ (call'.op = "exec" /\ q = p)
        /\ call'.op = "exec" =>
              call'.child = p /\ status[p] = "none" /\ call'.left = 0 /\ jfn'[p] = NoHandles
    <2>1. CASE /\ status[p] = "none" /\ jfn' = [jfn EXCEPT ![p] = NoHandles]
               /\ call' = [User EXCEPT !.op = "exec", !.child = p]
      <3>1. CallIs(call', "exec", "user", 0, 0, 0, 0, 0, p)
        BY <2>1, ExecFields
      <3>2. jfn' = [jfn EXCEPT ![p] = NoHandles] /\ status[p] = "none"
        BY <2>1, Zenon
      <3>3. jfn'[p] = NoHandles
        BY <1>0, <3>2 DEF TypeInv
      <3> QED BY <1>2, <3>1, <3>2, <3>3 DEF CallIs, InExit, Alive
    <2>2. CASE p = Root /\ UNCHANGED <<jfn, call>>
      BY <1>0, <1>2, <1>3, <2>2 DEF InExit, Alive, TypeInv
    <2> QED BY <1>6, <2>1, <2>2
  <1>9. /\ \A q \in Processes : ~Ending(q) /\ ~Ending(q)'
        /\ \A t : ~Ghost(t) /\ ~Ghost(t)' /\ ~UnderOpen(t) /\ ~UnderOpen(t)'
    BY <1>2, <1>3, <1>8 DEF Ending, Ghost, UnderOpen, InExit
  <1>10. \A q \in Processes, h \in HandleNumbers : Alive(q)' /\ jfn'[q][h] # Unused =>
           status[q] # "none" /\ jfn'[q] = jfn[q]
    BY <1>7, <1>8 DEF NoHandles
  <1> HIDE DEF tables, processes
  <1>t. TypeInv'
    BY <1>0, <1>2, <1>4, <1>7, <1>8, Basics DEF TypeInv
  <1>c. CallInv' /\ MarkInv'
    BY <1>2, <1>7, <1>8, Basics, <1>0 DEF CallInv, MarkInv, NoHandles
  <1>n. CountInv'
    <2> SUFFICES ASSUME NEW t \in Sfts PROVE CountRight(t)'
      BY DEF CountInv
    <2>1. \A r \in Processes \X HandleNumbers : r \in Reach(t)' <=> r \in Reach(t)
      <3> SUFFICES ASSUME NEW q \in Processes, NEW h \in HandleNumbers
                   PROVE  Alive(q)' /\ jfn'[q][h] = t <=> Alive(q) /\ jfn[q][h] = t
        BY DEF Reach
      <3>1. Alive(q) <=> status[q] # "none"
        BY <1>2 DEF Alive
      <3>2. t # Unused
        BY <1>3
      <3> QED BY <1>7, <1>8, <1>10, <3>1, <3>2
    <2>2. Reach(t)' = Reach(t)
      BY <2>1 DEF Reach
    <2>3. CASE t = s
      BY <1>4, <1>5, <1>9, <2>2, <2>3, Basics, <1>0 DEF CountRight
    <2>4. CASE t # s
      BY <1>0, <1>2, <1>4, <1>9, <2>2, <2>4, CountKept
    <2> QED BY <2>3, <2>4
  <1>b. TableInv'
    BY <1>0, <1>2, <1>7, <1>9, TableKept DEF tables
  <1>l. LineageInv'
    <2>1. PICK depth \in [Processes -> Nat] : Lineage(depth)
      BY <1>0 DEF LineageInv
    <2>2. ASSUME NEW q \in Processes, Alive(q)', NEW h \in HandleNumbers, jfn'[q][h] # Unused
          PROVE  MayHold(q, sf_PID'[jfn'[q][h]], depth)
      <3>1. Alive(q) /\ jfn'[q][h] = jfn[q][h] /\ jfn[q][h] # Unused
        BY <1>10, <2>2 DEF Alive
      <3>2. jfn[q][h] \in Sfts \ {s}
        BY <1>5, <3>1, CurrentHandles
      <3> QED BY <1>4, <2>1, <3>1, <3>2 DEF Lineage
    <2> QED BY <1>0, <1>2, <2>1, <2>2, LineageKept DEF processes
  <1> QED BY <1>t, <1>c, <1>n, <1>b, <1>l DEF IInv

LEMMA ExecEndsKeeps ==
  ASSUME IInv, ExecEnds PROVE IInv'
  <1>0. TypeInv /\ CallInv /\ MarkInv /\ CountInv /\ TableInv /\ LineageInv
    BY DEF IInv
  <1> DEFINE p == call.child
  <1>1. /\ call.op = "exec" /\ call.left = FilPerProc
        /\ status' = [status EXCEPT ![p] = "live"]
        /\ parent' = [parent EXCEPT ![p] = CurrentPDB]
        /\ CurrentPDB' = p
        /\ JFN_Length' = [JFN_Length EXCEPT ![p] = FilPerProc]
        /\ JFN_Pointer' = [JFN_Pointer EXCEPT ![p] = Psp]
        /\ call' = User
        /\ UNCHANGED <<sf_ref_count, sf_PID, jfn, owner, mark>>
    BY DEF ExecEnds, files
  <1>2. /\ p \in Processes /\ CurrentPDB \in Processes /\ status[p] = "none" /\ mark = Unmarked
        /\ status[CurrentPDB] = "live"
        /\ \A h \in HandleNumbers : FilPerProc <= h => jfn[p][h] = Unused
    BY <1>0, <1>1, CurrentHandles DEF TypeInv, CallType, CallInv
  <1>3. CallIs(call', "user", "user", 0, 0, 0, 0, 0, Root)
    BY <1>1, UserFields
  <1>4. /\ call'.op = "user" /\ call'.back = "user" /\ call' \in CallType
        /\ call.back = "user" /\ ~InExit /\ ~InExit'
    BY <1>0, <1>1, <1>3 DEF CallIs, InExit, CallInv, TypeInv, CallType
  <1>5. /\ JFN_Length[p] = FilPerProc /\ JFN_Pointer[p] = Psp
        /\ JFN_Length' = JFN_Length /\ JFN_Pointer' = JFN_Pointer
    <2>1. JFN_Length[p] = FilPerProc /\ JFN_Pointer[p] = Psp
      BY <1>0, <1>2 DEF TableInv
    <2> QED BY <1>0, <1>1, <2>1 DEF TypeInv
  <1>6. /\ status'[p] = "live" /\ parent'[p] = CurrentPDB
        /\ \A q \in Processes \ {p} : status'[q] = status[q] /\ parent'[q] = parent[q]
    BY <1>0, <1>1, <1>2 DEF TypeInv
  <1>7. /\ \A q \in Processes : Alive(q)' <=> Alive(q)
        /\ \A q \in Processes : ~Ending(q) /\ ~Ending(q)'
        /\ \A t : ~Ghost(t) /\ ~Ghost(t)' /\ ~UnderOpen(t) /\ ~UnderOpen(t)'
    BY <1>1, <1>2, <1>4, <1>6 DEF Alive, Ending, Ghost, UnderOpen, InExit
  <1>8. UNCHANGED <<jfn, owner, mark, sf_ref_count, sf_PID>> /\ CurrentPDB' = p
    BY <1>1
  <1> HIDE DEF p
  <1>t. TypeInv'
    <2>1. status' \in [Processes -> {"none", "live", "resident"}] /\ parent' \in [Processes -> Processes]
      BY <1>0, <1>1, <1>2 DEF TypeInv
    <2> QED BY <1>0, <1>1, <1>2, <1>4, <1>5, <2>1 DEF TypeInv
  <1>c. CallInv' /\ MarkInv'
    BY <1>2, <1>4, <1>8 DEF CallInv, MarkInv
  <1>n. CountInv'
    <2> SUFFICES ASSUME NEW t \in Sfts PROVE CountRight(t)'
      BY DEF CountInv
    <2>1. Reach(t)' = Reach(t)
      BY <1>7, <1>8, ReachKept
    <2>2. sf_PID[t] \in Processes
      BY <1>0 DEF TypeInv
    <2> QED BY <1>0, <1>6, <1>7, <1>8, <2>1, <2>2, CountKept
  <1>b. TableInv'
    <2>1. \A b \in Blocks : owner'[b] # Nobody => status'[owner'[b]] # "none"
      <3> SUFFICES ASSUME NEW b \in Blocks, owner[b] # Nobody PROVE status'[owner[b]] # "none"
        BY <1>8
      <3>1. owner[b] \in Processes /\ status[owner[b]] # "none"
        BY <1>0 DEF TypeInv, TableInv
      <3> QED BY <1>6, <3>1
    <2>2. \A q : ~Ending(q)'
      BY <1>4 DEF Ending, InExit
    <2>3. \A q \in Processes : status'[q] = "none" => JFN_Length'[q] = FilPerProc /\ JFN_Pointer'[q] = Psp
      BY <1>0, <1>5, <1>6 DEF TableInv
    <2>4. ASSUME NEW q \in Processes
          PROVE  /\ \A b \in Blocks : owner'[b] = q <=> JFN_Pointer'[q] = b
                 /\ (JFN_Pointer'[q] = Psp) <=> (JFN_Length'[q] = FilPerProc)
                 /\ status'[q] # "none" =>
                      \A h \in HandleNumbers : JFN_Length'[q] <= h => jfn'[q][h] = Unused
      BY <1>0, <1>2, <1>5, <1>6, <1>7, <1>8 DEF TableInv
    <2> QED BY <2>1, <2>2, <2>3, <2>4 DEF TableInv
  <1>l. LineageInv'
    <2>1. PICK depth \in [Processes -> Nat] : Lineage(depth)
      BY <1>0 DEF LineageInv
    <2>2. PICK d \in [Processes -> Nat] :
            /\ d[p] = depth[CurrentPDB] + 1 /\ \A q \in Processes \ {p} : d[q] = depth[q]
            /\ \A q \in Processes : depth[q] \in Nat /\ d[q] \in Nat
      <3>1. [depth EXCEPT ![p] = depth[CurrentPDB] + 1] \in [Processes -> Nat]
        BY <1>2
      <3> QED BY <1>2, <3>1
    <2>3. p # Root /\ p # CurrentPDB /\ Root \in Processes
      BY <1>0, <1>2, <2>1, Basics DEF Lineage
    <2>4. status'[CurrentPDB'] = "live" /\ status'[Root] = "live"
      BY <1>6, <1>8, <2>1, <2>3 DEF Lineage
    <2>5. \A q \in Processes \ {p} : status[q] = "live" => d[q] < d[p]
      BY <1>2, <2>1, <2>2 DEF Lineage
    <2>6. ASSUME NEW q \in Processes \ {Root}, status'[q] = "live"
          PROVE  /\ status'[parent'[q]] = "live" /\ d[parent'[q]] < d[q]
                 /\ \A r \in Processes \ {parent'[q]} :
                      status'[r] = "live" /\ d[r] < d[q] => d[r] < d[parent'[q]]
      <3>1. CASE q = p
        <4>1. ASSUME NEW r \in Processes \ {CurrentPDB}, status'[r] = "live", d[r] < d[p]
              PROVE  d[r] < d[CurrentPDB]
          <5>1. r # p /\ status[r] = "live"
            BY <1>6, <2>2, <4>1
          <5> QED BY <2>1, <2>2, <2>3, <5>1, <1>2 DEF Lineage
        <4> QED BY <1>2, <1>6, <2>3, <2>5, <3>1, <4>1
      <3>2. CASE q # p
        <4>1. status[q] = "live" /\ parent'[q] = parent[q] /\ parent[q] \in Processes
          BY <1>0, <1>6, <2>6, <3>2 DEF TypeInv
        <4>2. /\ status[parent[q]] = "live" /\ depth[parent[q]] < depth[q]
              /\ \A r \in Processes \ {parent[q]} :
                   status[r] = "live" /\ depth[r] < depth[q] => depth[r] < depth[parent[q]]
          BY <2>1, <4>1 DEF Lineage
        <4>3. ~(d[p] < d[q])
          BY <1>2, <2>2, <2>5, <3>2, <4>1
        <4>4. parent[q] # p
          BY <1>2, <4>2
        <4> QED BY <1>6, <2>2, <3>2, <4>1, <4>2, <4>3, <4>4
      <3> QED BY <3>1, <3>2
    <2>7. ASSUME NEW q \in Processes, Alive(q)', NEW h \in HandleNumbers, jfn'[q][h] # Unused
          PROVE  MayHold(q, sf_PID[jfn[q][h]], d)'
      <3>1. Alive(q) /\ jfn[q][h] \in Sfts
        BY <1>7, <1>8, <2>7, CurrentHandles
      <3> DEFINE o == sf_PID[jfn[q][h]]
      <3>2. MayHold(q, o, depth) /\ o \in Processes /\ sf_PID'[jfn'[q][h]] = o
        BY <1>0, <1>8, <2>1, <2>7, <3>1 DEF Lineage, TypeInv
      <3> HIDE DEF o
      <3>3. status[q] = "none" => q = p
        BY <3>1, <1>1 DEF Alive, p
      <3>4. CASE o \in {q, Root}
        BY <3>2, <3>4 DEF MayHold
      <3>5. CASE o \notin {q, Root} /\ q = p
        <4>1. status[o] = "live" /\ o # p
          BY <1>2, <3>2, <3>5 DEF MayHold
        <4>2. status'[o] = "live" /\ status'[q] = "live" /\ d[o] < d[q]
          BY <1>6, <2>5, <3>2, <3>5, <4>1
        <4> QED BY <3>2, <4>2 DEF MayHold
      <3>6. CASE o \notin {q, Root} /\ q # p
        <4>1. status[o] = "live" /\ status[q] = "live" /\ depth[o] < depth[q] /\ o # p
          BY <1>2, <3>2, <3>3, <3>6 DEF MayHold
        <4>2. status'[o] = "live" /\ status'[q] = "live" /\ d[o] < d[q]
          BY <1>6, <2>2, <3>2, <3>6, <4>1
        <4> QED BY <3>2, <4>2 DEF MayHold
      <3> QED BY <3>4, <3>5, <3>6
    <2>8. Lineage(d)'
      BY <1>8, <2>4, <2>5, <2>6, <2>7, <1>6 DEF Lineage
    <2> QED BY <2>2, <2>8 DEF LineageInv
  <1> QED BY <1>t, <1>c, <1>n, <1>b, <1>l DEF IInv

(* Exit and ErrorAborts: the process that runs begins to end, or goes on if *)
(* it is the first one; the handle of an open cut short is taken back.      *)
LEMMA LeaveKeeps ==
  ASSUME IInv, LeaveProcess,
         UNCHANGED <<files, JFN_Length, JFN_Pointer, processes, mark>>,
         call.op \in {"user", "open", "close"}, call.back # "exit",
         IF call.op = "open" THEN SetHandle(CurrentPDB, call.from, Unused) ELSE UNCHANGED jfn
  PROVE  IInv'
  <1>0. TypeInv /\ CallInv /\ MarkInv /\ CountInv /\ TableInv /\ LineageInv
    BY DEF IInv
  <1>1. UNCHANGED <<sf_ref_count, sf_PID, JFN_Length, JFN_Pointer, status, parent, CurrentPDB, mark>>
    BY DEF files, processes
  <1>2. /\ ~InExit /\ CurrentPDB \in Processes /\ status[CurrentPDB] = "live"
        /\ CurrentPDB # Nobody /\ JFN_Length[CurrentPDB] \in 0..MaxHandles
        /\ call.from \in HandleNumbers
    <2>1. JFN_Length[CurrentPDB] \in FilPerProc..MaxHandles
      BY <1>0 DEF TypeInv
    <2> QED BY <1>0, <2>1, CurrentHandles, Basics DEF TypeInv, InExit, CallType
  <1>3. /\ jfn' \in [Processes -> [HandleNumbers -> Sfts \cup {Unused}]]
        /\ \A q \in Processes, g \in HandleNumbers :
              jfn'[q][g] = IF call.op = "open" /\ q = CurrentPDB /\ g = call.from THEN Unused
                           ELSE jfn[q][g]
    <2>1. CASE call.op = "open"
      BY <1>0, <1>2, <2>1, HandleSet
    <2>2. CASE call.op # "open"
      BY <1>0, <2>2 DEF TypeInv
    <2> QED BY <2>1, <2>2
  <1>4. /\ call' \in CallType
        /\ CurrentPDB = Root => call'.op = "user" /\ call'.back = "user" /\ owner' = owner
        /\ CurrentPDB # Root =>
             /\ call'.op = "exit" /\ call'.back = "user" /\ call'.left = JFN_Length[CurrentPDB]
             /\ owner' = [b \in Blocks |-> IF owner[b] = CurrentPDB THEN Nobody ELSE owner[b]]
    <2>1. CASE CurrentPDB = Root
      <3>1. call' = User /\ owner' = owner
        BY <2>1, Zenon DEF LeaveProcess
      <3> QED BY <2>1, <3>1, UserFields DEF CallIs
    <2>2. CASE CurrentPDB # Root
      <3>1. /\ call' = [User EXCEPT !.op = "exit", !.left = JFN_Length[CurrentPDB]]
            /\ owner' = [b \in Blocks |-> IF owner[b] = CurrentPDB THEN Nobody ELSE owner[b]]
        BY <2>2, Zenon DEF LeaveProcess
      <3>2. CallIs(call', "exit", "user", 0, 0, 0, 0, JFN_Length[CurrentPDB], Root)
        BY <1>2, <3>1, ExitFields
      <3>3. owner' = [b \in Blocks |-> IF owner[b] = CurrentPDB THEN Nobody ELSE owner[b]]
        BY <3>1, Zenon
      <3> QED BY <2>2, <3>2, <3>3 DEF CallIs
    <2> QED BY <2>1, <2>2
  <1>5. /\ InExit' <=> CurrentPDB # Root
        /\ \A q \in Processes : ~Ending(q) /\ (Ending(q)' <=> q = CurrentPDB /\ CurrentPDB # Root)
        /\ \A q \in Processes : Alive(q)' <=> Alive(q)
        /\ \A t : ~Ghost(t) /\ ~UnderOpen(t)'
        /\ \A t : Ghost(t)' <=> InExit' /\ UnderOpen(t)
    <2>1. InExit' <=> CurrentPDB # Root
      BY <1>4 DEF InExit
    <2>2. \A q \in Processes : ~Ending(q) /\ (Ending(q)' <=> q = CurrentPDB /\ CurrentPDB # Root)
      BY <1>1, <1>2, <1>4 DEF Ending, InExit
    <2>3. \A q \in Processes : Alive(q)' <=> Alive(q)
      BY <1>1, <1>4 DEF Alive
    <2>4. \A t : ~Ghost(t) /\ ~UnderOpen(t)'
      BY <1>2, <1>4 DEF Ghost, UnderOpen
    <2>5. ASSUME NEW t PROVE Ghost(t)' <=> InExit' /\ UnderOpen(t)
      <3>1. CASE call.op = "open"
        <4>1. mark # Unmarked /\ mark.psp = CurrentPDB /\ mark.sfn = call.sfn
          BY <1>0, <3>1, Basics DEF CallInv, Unmarked, Sfts
        <4> QED BY <1>1, <3>1, <4>1 DEF Ghost, UnderOpen
      <3>2. CASE call.op # "open"
        BY <1>0, <1>1, <1>2, <2>1, <3>2 DEF Ghost, UnderOpen, MarkInv
      <3> QED BY <3>1, <3>2
    <2> QED BY <2>1, <2>2, <2>3, <2>4, <2>5
  <1>t. TypeInv'
    <2>1. owner' \in [Blocks -> Processes \cup {Nobody}]
      BY <1>0, <1>4 DEF TypeInv
    <2> QED BY <1>0, <1>1, <1>3, <1>4, <2>1 DEF TypeInv
  <1>c. CallInv'
    <2>1. CASE CurrentPDB = Root
      BY <1>4, <1>5, <2>1 DEF CallInv
    <2>2. CASE CurrentPDB # Root
      <3>1. \A h \in HandleNumbers : JFN_Length[CurrentPDB] <= h => jfn[CurrentPDB][h] = Unused
        BY <1>0, <1>2, <1>5 DEF TableInv
      <3>2. \A h \in HandleNumbers : JFN_Length[CurrentPDB] <= h => jfn'[CurrentPDB][h] = Unused
        BY <1>2, <1>3, <3>1
      <3>3. mark # Unmarked /\ mark.psp = CurrentPDB => jfn'[CurrentPDB][mark.h] = Unused
        <4>1. ASSUME mark # Unmarked, mark.psp = CurrentPDB
              PROVE  call.op = "open" /\ mark.h = call.from
          BY <1>0, <1>2, <2>2, <4>1 DEF MarkInv, CallInv
        <4> QED BY <1>2, <1>3, <4>1
      <3> QED BY <1>1, <1>4, <1>5, <2>2, <3>2, <3>3 DEF CallInv
    <2> QED BY <2>1, <2>2
  <1>m. MarkInv'
    <2> SUFFICES ASSUME mark # Unmarked
                 PROVE  (/\ mark.sfn \in Sfts
                         /\ \/ status[mark.psp] = "none"
                            \/ mark.psp = Root /\ CurrentPDB = Root
                            \/ mark.psp = CurrentPDB /\ InExit)'
      BY <1>1 DEF MarkInv
    <2>1. CASE call.op = "open"
      <3>1. mark.psp = CurrentPDB /\ mark.sfn \in Sfts
        BY <1>0, <2>1 DEF CallInv
      <3> QED BY <1>1, <1>5, <3>1
    <2>2. CASE call.op # "open"
      BY <1>0, <1>1, <1>2, <2>2 DEF MarkInv
    <2> QED BY <2>1, <2>2
  <1>n. CountInv'
    <2> SUFFICES ASSUME NEW t \in Sfts PROVE CountRight(t)'
      BY DEF CountInv
    <2>1. CASE call.op = "open"
      <3>1. Reach(t)' = Reach(t) \ {<<CurrentPDB, call.from>>}
        BY <1>0, <1>2, <1>5, <2>1, ReachRemoves
      <3>2. CASE t = call.sfn
        <4>1. UnderOpen(t) /\ sf_PID[t] = CurrentPDB
          BY <1>0, <2>1, <3>2 DEF UnderOpen, CallInv
        <4>2. /\ sf_ref_count[t] = Busy /\ Reach(t) = {<<CurrentPDB, call.from>>}
              /\ sf_ref_count[t] # 0 => status[sf_PID[t]] # "none"
          BY <1>0, <4>1 DEF CountInv, CountRight
        <4>3. Reach(t)' = {}
          BY <3>1, <4>2
        <4> QED BY <1>1, <1>5, <4>1, <4>2, <4>3, Basics, <1>0 DEF CountRight
      <3>3. CASE t # call.sfn
        <4>1. <<CurrentPDB, call.from>> \notin Reach(t)
          BY <1>0, <2>1, <3>3 DEF Reach, CallInv
        <4>2. Reach(t)' = Reach(t) /\ ~UnderOpen(t)
          BY <3>1, <3>3, <4>1 DEF UnderOpen
        <4> QED BY <1>0, <1>1, <1>5, <4>2, CountKept
      <3> QED BY <3>2, <3>3
    <2>2. CASE call.op # "open"
      <3>1. Reach(t)' = Reach(t) /\ ~UnderOpen(t)
        BY <1>5, <2>2, ReachKept DEF UnderOpen
      <3> QED BY <1>0, <1>1, <1>5, <3>1, CountKept
    <2> QED BY <2>1, <2>2
  <1>b. TableInv'
    <2>1. CASE CurrentPDB = Root
      <3>1. UNCHANGED <<tables, status>>
        BY <1>1, <1>4, <2>1 DEF tables
      <3>2. \A p \in Processes : status[p] # "none" /\ ~Ending(p) => \A h \in HandleNumbers :
              JFN_Length[p] <= h => jfn'[p][h] = jfn[p][h]
        BY <1>0, <1>3, <1>5 DEF TableInv
      <3> QED BY <1>0, <1>5, <2>1, <3>1, <3>2, TableKept
    <2>2. CASE CurrentPDB # Root
      <3>1. \A b \in Blocks : owner'[b] = IF owner[b] = CurrentPDB THEN Nobody ELSE owner[b]
        BY <1>4, <2>2
      <3>2. ASSUME NEW b \in Blocks, owner'[b] # Nobody
            PROVE  status'[owner'[b]] # "none" /\ owner'[b] # CurrentPDB
        <4>1. owner'[b] = owner[b] /\ owner[b] \in Processes /\ owner[b] # CurrentPDB
          BY <1>0, <1>2, <3>1, <3>2 DEF TypeInv
        <4>2. status[owner[b]] # "none"
          BY <1>0, <4>1, Basics DEF TableInv
        <4> QED BY <1>1, <4>1, <4>2
      <3>3. \A p \in Processes : status'[p] = "none" => JFN_Length'[p] = FilPerProc /\ JFN_Pointer'[p] = Psp
        BY <1>0, <1>1 DEF TableInv
      <3>4. ASSUME NEW p \in Processes, p # CurrentPDB
            PROVE  /\ \A b \in Blocks : owner'[b] = p <=> JFN_Pointer'[p] = b
                   /\ (JFN_Pointer'[p] = Psp) <=> (JFN_Length'[p] = FilPerProc)
                   /\ status'[p] # "none" =>
                        \A h \in HandleNumbers : JFN_Length'[p] <= h => jfn'[p][h] = Unused
        <4>1. \A b \in Blocks : owner'[b] = p <=> owner[b] = p
          BY <1>0, <3>1, <3>4, Basics
        <4> QED BY <1>0, <1>1, <1>3, <1>5, <3>4, <4>1 DEF TableInv
      <3> QED BY <1>1, <1>4, <2>2, <3>2, <3>3, <3>4 DEF TableInv, Ending
    <2> QED BY <2>1, <2>2
  <1>l. LineageInv'
    <2>1. \A p \in Processes, h \in HandleNumbers : jfn'[p][h] # Unused => jfn'[p][h] = jfn[p][h]
      BY <1>3
    <2>2. UNCHANGED <<sf_PID, processes>>
      BY DEF files
    <2> QED BY <1>0, <1>5, <2>1, <2>2, LineageCopied
  <1> QED BY <1>t, <1>c, <1>m, <1>n, <1>b, <1>l DEF IInv

LEMMA ExitKeeps ==
  ASSUME IInv, Exit PROVE IInv'
  <1>1. /\ call.op = "user" /\ LeaveProcess
        /\ UNCHANGED <<files, JFN_Length, JFN_Pointer, processes, mark>> /\ UNCHANGED jfn
    BY Zenon DEF Exit
  <1>2. call.back # "exit"
    BY <1>1 DEF IInv, CallInv
  <1> QED BY <1>1, <1>2, LeaveKeeps

(* An open is cut short with its handle marked; otherwise nothing is marked *)
(* that matters, because no hard error follows one that cut an open short.  *)
LEMMA ErrorAbortsKeeps ==
  ASSUME HandlesRestriction, IInv, ErrorAborts PROVE IInv'
  <1>1. /\ call.op \in {"user", "open", "close"} /\ call.back # "exit"
        /\ call.op = "open" \/ mark = Unmarked
        /\ IF mark # Unmarked THEN SetHandle(mark.psp, mark.h, Unused) ELSE UNCHANGED jfn
        /\ LeaveProcess
        /\ UNCHANGED <<files, JFN_Length, JFN_Pointer, processes, mark>>
    BY Zenon DEF ErrorAborts, OnDisk, Aborting, HandlesRestriction
  <1>2. CASE call.op = "open"
    <2>1. mark # Unmarked /\ mark.psp = CurrentPDB /\ mark.h = call.from
      BY <1>2, Basics DEF IInv, CallInv, Unmarked, Sfts
    <2> QED BY <1>1, <1>2, <2>1, LeaveKeeps
  <1>3. CASE call.op # "open"
    BY <1>1, <1>3, LeaveKeeps
  <1> QED BY <1>2, <1>3

LEMMA ErrorAnsweredKeeps ==
  ASSUME HandlesRestriction, IInv, ErrorAnswered PROVE IInv'
  <1> USE DEF files, tables, processes
  <1>0. TypeInv /\ CallInv /\ MarkInv /\ CountInv /\ TableInv /\ LineageInv
    BY DEF IInv
  <1>1. /\ call.op \in {"user", "open", "close"} /\ mark # Unmarked
        /\ call.op = "open" \/ call.back = "exit"
        /\ SetHandle(mark.psp, mark.h, mark.sfn)
        /\ UNCHANGED <<files, tables, processes, mark, call>>
    BY DEF ErrorAnswered, OnDisk, Aborting, HandlesRestriction
  <1>2. mark.psp \in Processes /\ mark.h \in HandleNumbers /\ mark.sfn \in Sfts /\ CurrentPDB \in Processes
    BY <1>0, <1>1 DEF TypeInv, MarkInv
  <1>3. /\ jfn' \in [Processes -> [HandleNumbers -> Sfts \cup {Unused}]]
        /\ \A q \in Processes, g \in HandleNumbers :
              jfn'[q][g] = IF q = mark.psp /\ g = mark.h THEN mark.sfn ELSE jfn[q][g]
    BY <1>0, <1>1, <1>2, HandleSet
  <1>4. /\ \A q \in Processes : Alive(q)' <=> Alive(q)
        /\ \A q \in Processes : Ending(q)' <=> Ending(q)
        /\ \A t : (Ghost(t)' <=> Ghost(t)) /\ (UnderOpen(t)' <=> UnderOpen(t))
        /\ InExit' <=> InExit
    BY <1>1 DEF Alive, Ending, Ghost, UnderOpen, InExit
  <1>t. TypeInv'
    BY <1>0, <1>1, <1>3 DEF TypeInv
  <1>m. MarkInv'
    BY <1>0, <1>1, <1>4 DEF MarkInv
  <1>5. CASE call.op = "open"
    <2>1. jfn[mark.psp][mark.h] = mark.sfn
      BY <1>0, <1>5 DEF CallInv
    <2>2. \A q \in Processes, g \in HandleNumbers : jfn'[q][g] = jfn[q][g]
      BY <1>3, <2>1
    <2>3. jfn' = jfn
      <3>1. jfn \in [Processes -> [HandleNumbers -> Sfts \cup {Unused}]]
        BY <1>0 DEF TypeInv
      <3>2. \A q \in Processes : jfn'[q] = jfn[q]
        <4> SUFFICES ASSUME NEW q \in Processes PROVE jfn'[q] = jfn[q]
          OBVIOUS
        <4>1. jfn'[q] \in [HandleNumbers -> Sfts \cup {Unused}]
              /\ jfn[q] \in [HandleNumbers -> Sfts \cup {Unused}]
          BY <1>3, <3>1
        <4> QED BY <2>2, <4>1
      <3> QED BY <1>3, <3>1, <3>2
    <2>4. UNCHANGED vars
      BY <1>1, <2>3 DEF vars
    <2> QED BY <2>4, StutterKeeps
  <1>6. CASE call.op # "open"
    <2>1. call.back = "exit" /\ call.op = "close" /\ InExit /\ CurrentPDB # Root
      BY <1>0, <1>1, <1>6 DEF CallInv, InExit
    <2>2. \/ status[mark.psp] = "none" /\ mark.psp # CurrentPDB /\ ~Alive(mark.psp)
          \/ mark.psp = CurrentPDB /\ Ghost(mark.sfn)
      BY <1>0, <1>1, <2>1, CurrentHandles DEF MarkInv, Ghost, Alive
    <2>3. \A t \in Sfts : ~UnderOpen(t)
      BY <2>1 DEF UnderOpen
    <2>c. CallInv'
      <3>1. ASSUME NEW h \in HandleNumbers, call.left <= h \/ JFN_Length[CurrentPDB] <= h
            PROVE  jfn'[CurrentPDB][h] = Unused \/ (Ghost(jfn'[CurrentPDB][h]) /\ mark.h = h)
        <4>1. jfn[CurrentPDB][h] = Unused \/ (Ghost(jfn[CurrentPDB][h]) /\ mark.h = h)
          BY <1>0, <2>1, <3>1 DEF CallInv
        <4> QED BY <1>2, <1>3, <2>2, <4>1
      <3>2. \A h \in HandleNumbers : call.left <= h \/ JFN_Length[CurrentPDB] <= h =>
              (jfn[CurrentPDB][h] = Unused \/ (Ghost(jfn[CurrentPDB][h]) /\ mark.h = h))'
        BY <1>1, <1>4, <3>1 DEF Ghost
      <3>3. mark.psp = CurrentPDB => jfn'[CurrentPDB][mark.h] \in {Unused, mark.sfn}
        BY <1>2, <1>3
      <3>4. (call.op = "close" =>
               /\ call.sfn \in Sfts
               /\ call.old = 1 => sf_ref_count[call.sfn] = Busy /\ ~Ghost(call.sfn))'
        BY <1>0, <1>1, <1>4 DEF CallInv, Ghost
      <3> QED BY <1>1, <2>1, <3>2, <3>3, <3>4 DEF CallInv
    <2>n. CountInv'
      <3> SUFFICES ASSUME NEW t \in Sfts PROVE CountRight(t)'
        BY DEF CountInv
      <3>0. Unused \notin Sfts
        BY <1>0, Basics
      <3>1. CASE ~Alive(mark.psp)
        <4>1. \A r \in Processes \X HandleNumbers : r \in Reach(t)' <=> r \in Reach(t)
          BY <1>3, <1>4, <3>1 DEF Reach
        <4>2. Reach(t)' = Reach(t)
          BY <4>1 DEF Reach
        <4> QED BY <1>0, <1>1, <1>4, <2>3, <4>2, CountKept
      <3>2. CASE mark.psp = CurrentPDB /\ Ghost(mark.sfn)
        <4>1. Alive(CurrentPDB) /\ jfn[CurrentPDB][mark.h] \in {Unused, mark.sfn}
          BY <1>0, <1>1, <2>1, <3>2, CurrentHandles DEF CallInv
        <4>2. Reach(t)' = IF t = mark.sfn THEN Reach(t) \cup {<<CurrentPDB, mark.h>>}
                          ELSE Reach(t) \ {<<CurrentPDB, mark.h>>}
          BY <1>0, <1>1, <1>2, <1>4, <3>2, <4>1, ReachAdds
        <4>3. CASE t = mark.sfn
          <5>1. CountRight(t) /\ ~UnderOpen(t) /\ Ghost(t)
            BY <1>0, <2>3, <3>2, <4>3 DEF CountInv
          <5>2. /\ sf_ref_count[t] < 0 /\ sf_PID[t] = CurrentPDB
                /\ Reach(t) \subseteq {<<CurrentPDB, mark.h>>}
                /\ sf_ref_count[t] # 0 => status[sf_PID[t]] # "none"
            BY <5>1 DEF CountRight
          <5>3. Reach(t)' \subseteq {<<CurrentPDB, mark.h>>}
            BY <4>2, <4>3, <5>2
          <5> QED BY <1>1, <1>4, <5>1, <5>2, <5>3 DEF CountRight
        <4>4. CASE t # mark.sfn
          <5>1. <<CurrentPDB, mark.h>> \notin Reach(t)
            BY <3>0, <4>1, <4>4 DEF Reach
          <5>2. Reach(t)' = Reach(t)
            BY <4>2, <4>4, <5>1
          <5> QED BY <1>0, <1>1, <1>4, <2>3, <5>2, CountKept
        <4> QED BY <4>3, <4>4
      <3> QED BY <2>2, <3>1, <3>2
    <2>b. TableInv'
      <3>1. Ending(CurrentPDB)
        BY <2>1 DEF Ending
      <3>2. \A p \in Processes : status[p] # "none" /\ ~Ending(p) => \A h \in HandleNumbers :
              JFN_Length[p] <= h => jfn'[p][h] = jfn[p][h]
        BY <1>3, <2>2, <3>1
      <3> QED BY <1>0, <1>1, <1>4, <3>2, TableKept
    <2>l. LineageInv'
      <3>1. PICK depth \in [Processes -> Nat] : Lineage(depth)
        BY <1>0 DEF LineageInv
      <3>2. ASSUME NEW p \in Processes, Alive(p)', NEW h \in HandleNumbers, jfn'[p][h] # Unused
            PROVE  MayHold(p, sf_PID'[jfn'[p][h]], depth)
        <4>1. CASE p = mark.psp /\ h = mark.h
          <5>1. Alive(p) /\ p = CurrentPDB /\ Ghost(mark.sfn)
            BY <1>4, <2>2, <3>2, <4>1
          <5>2. sf_PID[mark.sfn] = CurrentPDB
            BY <1>0, <1>2, <2>3, <5>1 DEF CountInv, CountRight
          <5> QED BY <1>1, <1>3, <3>2, <4>1, <5>1, <5>2 DEF MayHold
        <4>2. CASE ~(p = mark.psp /\ h = mark.h)
          BY <1>1, <1>3, <1>4, <3>1, <3>2, <4>2 DEF Lineage
        <4> QED BY <4>1, <4>2
      <3> QED BY <1>0, <1>1, <3>1, <3>2, LineageKept
    <2> QED BY <1>t, <1>m, <2>c, <2>n, <2>b, <2>l DEF IInv
  <1> QED BY <1>5, <1>6

(* ExitEnds and Keep: the process that runs is the deepest one, and its     *)
(* parent, which is alive, goes on.  Nobody else has a file it opened.      *)
LEMMA OnlyItsOwn ==
  ASSUME IInv, call.op # "exec", CurrentPDB # Root,
         NEW p \in Processes \ {CurrentPDB}, NEW h \in HandleNumbers,
         Alive(p), jfn[p][h] # Unused
  PROVE  sf_PID[jfn[p][h]] # CurrentPDB
  <1>1. PICK depth \in [Processes -> Nat] : Lineage(depth)
    BY DEF IInv, LineageInv
  <1>2. status[p] # "none" /\ MayHold(p, sf_PID[jfn[p][h]], depth) /\ CurrentPDB \in Processes
    BY <1>1 DEF Lineage, Alive, IInv, TypeInv
  <1>3. ~(status[p] = "live" /\ depth[CurrentPDB] < depth[p])
    <2>1. depth[CurrentPDB] \in Nat /\ depth[p] \in Nat
      BY <1>2
    <2> QED BY <1>1, <2>1 DEF Lineage
  <1> QED BY <1>2, <1>3 DEF MayHold

LEMMA LineageBack ==
  ASSUME IInv, call.op # "exec", call'.op # "exec", CurrentPDB # Root,
         CurrentPDB' = parent[CurrentPDB], sf_PID' = sf_PID,
         status'[CurrentPDB] \in {"none", "resident"},
         \A p \in Processes \ {CurrentPDB} :
            status'[p] = status[p] /\ parent'[p] = parent[p] /\ jfn'[p] = jfn[p],
         status'[CurrentPDB] = "resident" => \A h \in HandleNumbers :
            jfn'[CurrentPDB][h] # Unused => sf_PID[jfn'[CurrentPDB][h]] \in {CurrentPDB, Root}
  PROVE  LineageInv'
  <1> DEFINE c == CurrentPDB
             e == parent[c]
  <1>0. /\ c \in Processes /\ c # Root /\ Root \in Processes /\ e \in Processes
        /\ \A q \in Processes : parent[q] \in Processes
    BY Basics DEF IInv, TypeInv
  <1>1. PICK depth \in [Processes -> Nat] : Lineage(depth)
    BY DEF IInv, LineageInv
  <1>2. \A q \in Processes : depth[q] \in Nat
    OBVIOUS
  <1>3. /\ status[c] = "live" /\ status[Root] = "live" /\ status[e] = "live" /\ depth[e] < depth[c]
        /\ \A q \in Processes \ {c} : status[q] = "live" => depth[q] < depth[c]
        /\ \A q \in Processes \ {e} :
             status[q] = "live" /\ depth[q] < depth[c] => depth[q] < depth[e]
    BY <1>0, <1>1 DEF Lineage
  <1>4. e # c /\ CurrentPDB' = e
    BY <1>0, <1>2, <1>3
  <1>5. status'[CurrentPDB'] = "live" /\ status'[Root] = "live"
    BY <1>0, <1>3, <1>4
  <1>6. \A q \in Processes : status'[q] = "live" => q # c /\ status[q] = "live"
    BY <1>0
  <1>7. \A q \in Processes \ {CurrentPDB'} : status'[q] = "live" => depth[q] < depth[CurrentPDB']
    BY <1>3, <1>4, <1>6
  <1>8. ASSUME NEW q \in Processes \ {Root}, status'[q] = "live"
        PROVE  /\ status'[parent'[q]] = "live" /\ depth[parent'[q]] < depth[q]
               /\ \A r \in Processes \ {parent'[q]} :
                    status'[r] = "live" /\ depth[r] < depth[q] => depth[r] < depth[parent'[q]]
    <2>1. q # c /\ status[q] = "live" /\ parent'[q] = parent[q] /\ parent[q] \in Processes
      BY <1>0, <1>6, <1>8
    <2>2. /\ status[parent[q]] = "live" /\ depth[parent[q]] < depth[q]
          /\ \A r \in Processes \ {parent[q]} :
               status[r] = "live" /\ depth[r] < depth[q] => depth[r] < depth[parent[q]]
      BY <1>1, <1>8, <2>1 DEF Lineage
    <2>3. parent[q] # c
      BY <1>0, <1>2, <1>3, <2>1, <2>2
    <2>4. status'[parent[q]] = "live"
      BY <2>1, <2>2, <2>3
    <2> QED BY <1>6, <2>1, <2>2, <2>4
  <1>9. ASSUME NEW q \in Processes, Alive(q)', NEW h \in HandleNumbers, jfn'[q][h] # Unused
        PROVE  MayHold(q, sf_PID[jfn[q][h]], depth)'
    <2>1. status'[q] # "none"
      BY <1>9 DEF Alive
    <2>2. CASE q = c
      <3>1. sf_PID[jfn'[c][h]] \in {c, Root}
        BY <1>9, <2>1, <2>2
      <3> QED BY <2>2, <3>1 DEF MayHold
    <2>3. CASE q # c
      <3>1. jfn'[q][h] = jfn[q][h] /\ status'[q] = status[q] /\ Alive(q) /\ jfn[q][h] \in Sfts
        <4>1. jfn'[q][h] = jfn[q][h] /\ status'[q] = status[q]
          BY <2>3
        <4>2. Alive(q)
          BY <2>1, <4>1 DEF Alive
        <4> QED BY <1>9, <4>1, <4>2, CurrentHandles
      <3> DEFINE o == sf_PID[jfn[q][h]]
      <3>2. MayHold(q, o, depth) /\ o # c /\ o \in Processes /\ sf_PID'[jfn'[q][h]] = o
        BY <1>1, <1>9, <2>3, <3>1, OnlyItsOwn DEF Lineage, IInv, TypeInv
      <3> HIDE DEF o
      <3>3. \/ o \in {q, Root}
            \/ status[q] = "live" /\ status[o] = "live" /\ depth[o] < depth[q]
        BY <2>1, <3>1, <3>2 DEF MayHold
      <3>4. \/ o \in {q, Root}
            \/ status'[q] = "live" /\ status'[o] = "live" /\ depth[o] < depth[q]
        BY <3>1, <3>2, <3>3
      <3> QED BY <3>2, <3>4 DEF MayHold
    <2> QED BY <2>2, <2>3
  <1>10. Lineage(depth)'
    BY <1>5, <1>7, <1>8, <1>9 DEF Lineage
  <1> QED BY <1>10 DEF LineageInv

LEMMA KeepKeeps ==
  ASSUME HandlesRestriction, IInv, Keep PROVE IInv'
  <1>0. TypeInv /\ CallInv /\ MarkInv /\ CountInv /\ TableInv /\ LineageInv
    BY DEF IInv
  <1> DEFINE c == CurrentPDB
  <1>1. /\ call.op = "user" /\ c # Root
        /\ \A h \in HandleNumbers : Valid(h) => sf_PID[Current[h]] \in {c, Root}
        /\ status' = [status EXCEPT ![c] = "resident"]
        /\ CurrentPDB' = parent[c]
        /\ UNCHANGED <<sf_ref_count, sf_PID, jfn, JFN_Length, JFN_Pointer, owner, parent, mark, call>>
    BY DEF Keep, files, tables, HandlesRestriction
  <1>2. /\ ~InExit /\ ~InExit' /\ call.back = "user" /\ c \in Processes /\ status[c] = "live"
        /\ CurrentPDB' \in Processes
    BY <1>0, <1>1, CurrentHandles DEF InExit, CallInv, TypeInv, CallType
  <1>3. status'[c] = "resident" /\ \A q \in Processes \ {c} : status'[q] = status[q]
    BY <1>0, <1>1, <1>2 DEF TypeInv
  <1>4. /\ \A q \in Processes : Alive(q)' <=> Alive(q)
        /\ \A q : ~Ending(q) /\ ~Ending(q)'
        /\ \A t : ~Ghost(t) /\ ~Ghost(t)' /\ ~UnderOpen(t) /\ ~UnderOpen(t)'
    BY <1>1, <1>2, <1>3 DEF Alive, Ending, Ghost, UnderOpen, InExit
  <1>t. TypeInv'
    <2>1. status' \in [Processes -> {"none", "live", "resident"}]
      BY <1>0, <1>1 DEF TypeInv
    <2> QED BY <1>0, <1>1, <1>2, <2>1 DEF TypeInv
  <1>c. CallInv' /\ MarkInv'
    <2>1. MarkInv'
      <3>1. ASSUME mark # Unmarked PROVE mark.sfn \in Sfts /\ status'[mark.psp] = "none"
        <4>1. mark.sfn \in Sfts /\ status[mark.psp] = "none" /\ mark.psp \in Processes
          BY <1>0, <1>1, <1>2, <3>1 DEF MarkInv, TypeInv
        <4> QED BY <1>2, <1>3, <4>1
      <3> QED BY <1>1, <3>1 DEF MarkInv
    <2> QED BY <1>1, <1>2, <2>1 DEF CallInv
  <1>n. CountInv'
    <2> SUFFICES ASSUME NEW t \in Sfts PROVE CountRight(t)'
      BY DEF CountInv
    <2>1. Reach(t)' = Reach(t)
      BY <1>1, <1>4, ReachKept
    <2>2. sf_PID[t] \in Processes
      BY <1>0 DEF TypeInv
    <2> QED BY <1>0, <1>1, <1>3, <1>4, <2>1, <2>2, CountKept
  <1>b. TableInv'
    <2>1. \A q \in Processes : status'[q] = "none" <=> status[q] = "none"
      BY <1>2, <1>3
    <2>2. \A b \in Blocks : owner[b] # Nobody => owner[b] \in Processes
      BY <1>0 DEF TypeInv
    <2> QED BY <1>0, <1>1, <1>4, <2>1, <2>2 DEF TableInv
  <1>l. LineageInv'
    <2>1. ASSUME NEW h \in HandleNumbers, jfn'[c][h] # Unused
          PROVE  sf_PID[jfn'[c][h]] \in {c, Root}
      <3>1. Current[h] # Unused /\ Current[h] = jfn'[c][h]
        BY <1>1, <2>1 DEF Current
      <3>2. Valid(h)
        BY <1>2, <3>1, CurrentHandles DEF Valid
      <3> QED BY <1>1, <3>1, <3>2
    <2> QED BY <1>1, <1>3, <2>1, LineageBack
  <1> QED BY <1>t, <1>c, <1>n, <1>b, <1>l DEF IInv

LEMMA ExitEndsKeeps ==
  ASSUME IInv, ExitEnds PROVE IInv'
  <1>0. TypeInv /\ CallInv /\ MarkInv /\ CountInv /\ TableInv /\ LineageInv
    BY DEF IInv
  <1> DEFINE c == CurrentPDB
  <1>1. /\ call.op = "exit" /\ call.left = 0
        /\ sf_ref_count' = [s \in Sfts |-> IF sf_PID[s] = c THEN 0 ELSE sf_ref_count[s]]
        /\ status' = [status EXCEPT ![c] = "none"]
        /\ CurrentPDB' = parent[c]
        /\ parent' = [parent EXCEPT ![c] = Root]
        /\ JFN_Length' = [JFN_Length EXCEPT ![c] = FilPerProc]
        /\ JFN_Pointer' = [JFN_Pointer EXCEPT ![c] = Psp]
        /\ jfn' = [jfn EXCEPT ![c] = NoHandles]
        /\ call' = User
        /\ UNCHANGED <<sf_PID, owner, mark>>
    BY Zenon DEF ExitEnds
  <1>2. /\ InExit /\ c \in Processes /\ c # Root /\ status[c] = "live" /\ Ending(c)
        /\ Root \in Processes /\ parent[c] \in Processes
    BY <1>0, <1>1, CurrentHandles, Basics DEF InExit, CallInv, TypeInv, Ending
  <1>3. call' \in CallType /\ call'.op = "user" /\ call'.back = "user" /\ ~InExit'
    BY <1>1, UserFields DEF CallIs, InExit
  <1>4. /\ status'[c] = "none" /\ JFN_Length'[c] = FilPerProc /\ JFN_Pointer'[c] = Psp
        /\ jfn'[c] = NoHandles
        /\ \A q \in Processes \ {c} :
             /\ status'[q] = status[q] /\ parent'[q] = parent[q] /\ jfn'[q] = jfn[q]
             /\ JFN_Length'[q] = JFN_Length[q] /\ JFN_Pointer'[q] = JFN_Pointer[q]
        /\ \A s \in Sfts : sf_ref_count'[s] = IF sf_PID[s] = c THEN 0 ELSE sf_ref_count[s]
    BY <1>0, <1>1, <1>2 DEF TypeInv
  <1>5. /\ \A q \in Processes : Alive(q)' <=> Alive(q) /\ q # c
        /\ \A q : ~Ending(q)'
        /\ \A t : ~Ghost(t)' /\ ~UnderOpen(t) /\ ~UnderOpen(t)'
    BY <1>1, <1>2, <1>3, <1>4 DEF Alive, Ending, InExit, Ghost, UnderOpen
  <1>t. TypeInv'
    <2>1. jfn' \in [Processes -> [HandleNumbers -> Sfts \cup {Unused}]]
      <3>1. NoHandles \in [HandleNumbers -> Sfts \cup {Unused}]
        BY DEF NoHandles
      <3> HIDE DEF NoHandles
      <3> QED BY <1>0, <1>1, <3>1 DEF TypeInv
    <2>2. /\ status' \in [Processes -> {"none", "live", "resident"}]
          /\ parent' \in [Processes -> Processes] /\ CurrentPDB' \in Processes
          /\ sf_ref_count' \in [Sfts -> Int]
      BY <1>0, <1>1, <1>2 DEF TypeInv
    <2>3. /\ JFN_Length' \in [Processes -> FilPerProc..MaxHandles]
          /\ JFN_Pointer' \in [Processes -> Blocks \cup {Psp}]
      <3>1. FilPerProc \in FilPerProc..MaxHandles
        BY <1>0, Basics
      <3> QED BY <1>0, <1>1, <3>1 DEF TypeInv
    <2>4. UNCHANGED <<sf_PID, owner, mark>>
      BY <1>1
    <2> QED BY <1>0, <1>3, <2>1, <2>2, <2>3, <2>4 DEF TypeInv
  <1>c. CallInv' /\ MarkInv'
    <2>1. MarkInv'
      <3>1. ASSUME mark # Unmarked PROVE mark.sfn \in Sfts /\ status'[mark.psp] = "none"
        <4>1. /\ mark.sfn \in Sfts /\ mark.psp \in Processes
              /\ status[mark.psp] = "none" \/ mark.psp = c
          BY <1>0, <1>1, <1>2, <3>1 DEF MarkInv, TypeInv
        <4> QED BY <1>4, <4>1
      <3>2. mark' = mark
        BY <1>1
      <3> QED BY <3>1, <3>2 DEF MarkInv
    <2>2. CallInv'
      BY <1>3 DEF CallInv
    <2> QED BY <2>1, <2>2
  <1>n. CountInv'
    <2> SUFFICES ASSUME NEW t \in Sfts PROVE CountRight(t)'
      BY DEF CountInv
    <2>0. t # Unused /\ sf_PID'[t] = sf_PID[t] /\ sf_PID[t] \in Processes
      BY <1>0, <1>1, Basics DEF TypeInv
    <2>1. CASE sf_PID[t] = c
      <3>1. ASSUME NEW p \in Processes, NEW h \in HandleNumbers, Alive(p)' PROVE jfn'[p][h] # t
        <4>1. p # c /\ Alive(p) /\ jfn'[p] = jfn[p]
          BY <1>4, <1>5, <3>1
        <4>2. jfn[p][h] = t => sf_PID[t] # c
          BY <1>1, <1>2, <2>0, <4>1, OnlyItsOwn
        <4> QED BY <2>1, <4>1, <4>2
      <3>2. Reach(t)' = {}
        BY <3>1 DEF Reach
      <3>3. sf_ref_count'[t] = 0
        BY <1>4, <2>1
      <3> QED BY <1>0, <1>5, <3>2, <3>3, Basics DEF CountRight
    <2>2. CASE sf_PID[t] # c
      <3>1. ~Ghost(t)
        BY <1>0, <1>5, <2>2 DEF CountInv, CountRight
      <3>2. \A h \in HandleNumbers : jfn[c][h] # t
        <4>1. \A h \in HandleNumbers : h \in Int /\ 0 <= h
          BY <1>0, Basics
        <4> QED BY <1>0, <1>1, <1>2, <2>0, <3>1, <4>1 DEF CallInv
      <3>3. \A r \in Processes \X HandleNumbers : r \in Reach(t)' <=> r \in Reach(t)
        BY <1>4, <1>5, <3>2 DEF Reach
      <3>4. Reach(t)' = Reach(t)
        BY <3>3 DEF Reach
      <3> QED BY <1>0, <1>4, <1>5, <2>0, <2>2, <3>1, <3>4, CountKept
    <2> QED BY <2>1, <2>2
  <1>b. TableInv'
    <2>1. \A b \in Blocks : owner[b] # Nobody => owner[b] \in Processes \ {c} /\ status[owner[b]] # "none"
      BY <1>0, <1>2 DEF TypeInv, TableInv
    <2>2. owner' = owner /\ Psp \notin Blocks /\ Nobody \notin Processes
      BY <1>0, <1>1, Basics
    <2>3. \A b \in Blocks : owner'[b] # Nobody => status'[owner'[b]] # "none"
      BY <1>4, <2>1, <2>2
    <2>4. \A p \in Processes : status'[p] = "none" => JFN_Length'[p] = FilPerProc /\ JFN_Pointer'[p] = Psp
      BY <1>0, <1>4 DEF TableInv
    <2>5. ASSUME NEW p \in Processes
          PROVE  /\ \A b \in Blocks : owner'[b] = p <=> JFN_Pointer'[p] = b
                 /\ (JFN_Pointer'[p] = Psp) <=> (JFN_Length'[p] = FilPerProc)
                 /\ status'[p] # "none" =>
                      \A h \in HandleNumbers : JFN_Length'[p] <= h => jfn'[p][h] = Unused
      <3>1. CASE p = c
        <4>1. \A b \in Blocks : owner'[b] # c /\ b # Psp
          BY <1>2, <2>1, <2>2
        <4> QED BY <1>4, <3>1, <4>1
      <3>2. CASE p # c
        <4>1. ~Ending(p)
          BY <3>2 DEF Ending
        <4> QED BY <1>0, <1>4, <2>2, <3>2, <4>1 DEF TableInv
      <3> QED BY <3>1, <3>2
    <2> QED BY <1>5, <2>3, <2>4, <2>5 DEF TableInv
  <1>l. LineageInv'
    <2>1. call.op # "exec" /\ call'.op # "exec" /\ c # Root /\ CurrentPDB' = parent[c]
          /\ sf_PID' = sf_PID
      BY <1>1, <1>2, <1>3
    <2> QED BY <1>4, <2>1, LineageBack
  <1> QED BY <1>t, <1>c, <1>n, <1>b, <1>l DEF IInv

-----------------------------------------------------------------------------

LEMMA NextKeeps ==
  ASSUME HandlesRestriction, IInv, [Next]_vars PROVE IInv'
  <1>1. CASE UNCHANGED vars
    BY <1>1, StutterKeeps
  <1>2. CASE Next
    BY <1>2, OpenBeginsKeeps, OpenRefusedKeeps, OpenEndsKeeps, CloseBeginsKeeps, CloseEndsKeeps,
       DupKeeps, Dup2BeginsKeeps, Dup2EndsKeeps, ExtHandleKeeps, ExecBeginsKeeps, InheritKeeps,
       ExecEndsKeeps, ExitKeeps, ExitClosesKeeps, ExitEndsKeeps, KeepKeeps, ErrorAnsweredKeeps,
       ErrorAbortsKeeps, Zenon DEF Next
  <1> QED BY <1>1, <1>2

(* The table of handles, the counts and the lineage of files stay right.   *)
THEOREM HandlesAlwaysRight ==
  ASSUME HandlesRestriction PROVE Spec => []IInv
  <1>1. IInv /\ [Next]_vars => IInv'
    BY NextKeeps
  <1> QED BY InitInvariant, <1>1, PTL DEF Spec

(* The reference count of an entry is the number of handles that stand for *)
(* it, whenever no call is under way ($OPEN, $CLOSE, $DUP, $DUP2, $EXEC    *)
(* with $Dup_PDB, and DOS_ABORT).                                          *)
THEOREM CountsAlwaysAgree ==
  ASSUME HandlesRestriction PROVE Spec => []CountsAgree
  <1>1. ASSUME IInv PROVE CountsAgree
    <2> SUFFICES ASSUME call.op = "user", NEW s \in Sfts
                 PROVE  IF sf_ref_count[s] > 0 THEN sf_ref_count[s] = Cardinality(Reach(s))
                        ELSE Reach(s) = {}
      BY DEF CountsAgree
    <2>1. ~InExit
      BY <1>1 DEF IInv, CallInv, InExit
    <2> QED BY <1>1, <2>1, CountsOf
  <1> QED BY <1>1, HandlesAlwaysRight, PTL

(* An entry that no handle stands for can be had again: it is free, or the *)
(* process that left it busy is still there (SFNFree, DOS_ABORT).          *)
THEOREM SftNeverLost ==
  ASSUME HandlesRestriction PROVE Spec => []NoSftLost
  <1>1. ASSUME IInv PROVE NoSftLost
    <2> SUFFICES ASSUME call.op = "user", NEW s \in Sfts, Reach(s) = {}
                 PROVE  \/ sf_ref_count[s] = 0
                        \/ sf_ref_count[s] = Busy /\ status[sf_PID[s]] # "none"
      BY DEF NoSftLost
    <2>1. ~InExit
      BY <1>1 DEF IInv, CallInv, InExit
    <2>2. ~(sf_ref_count[s] > 0)
      BY <1>1, <2>1, CountsOf, FS_EmptySet
    <2> QED BY <1>1, <2>1, <2>2, CountsOf, Basics DEF IInv
  <1> QED BY <1>1, HandlesAlwaysRight, PTL

(* The handles of a process lie in its PSP or in the one block it owns, and *)
(* nobody owns a block who is not there ($ExtHandle, arena_free_process).   *)
THEOREM TableAlwaysInPlace ==
  ASSUME HandlesRestriction PROVE Spec => []TableInPlace
  <1>1. ASSUME IInv PROVE TableInPlace
    <2>1. TypeInv /\ TableInv
      BY <1>1 DEF IInv
    <2>2. ASSUME NEW p \in Processes, Alive(p), ~Ending(p), call.op # "exec"
          PROVE  /\ {b \in Blocks : owner[b] = p} = {JFN_Pointer[p]} \ {Psp}
                 /\ (JFN_Pointer[p] = Psp) <=> (JFN_Length[p] = FilPerProc)
                 /\ \A h \in HandleNumbers : JFN_Length[p] <= h => jfn[p][h] = Unused
      <3>1. status[p] # "none"
        BY <2>2 DEF Alive
      <3>2. /\ \A b \in Blocks : owner[b] = p <=> JFN_Pointer[p] = b
            /\ JFN_Pointer[p] \in Blocks \cup {Psp} /\ Psp \notin Blocks
        BY <2>1, <2>2, Basics DEF TypeInv, TableInv
      <3>3. {b \in Blocks : owner[b] = p} = {JFN_Pointer[p]} \ {Psp}
        BY <3>2
      <3> QED BY <2>1, <2>2, <3>1, <3>3 DEF TableInv
    <2>3. \A b \in Blocks : owner[b] # Nobody => Alive(owner[b])
      BY <2>1 DEF TableInv, Alive
    <2> QED BY <2>2, <2>3 DEF TableInPlace
  <1> QED BY <1>1, HandlesAlwaysRight, PTL

-----------------------------------------------------------------------------
(* Handles implements OpenFiles. *)

(* What a handle stands for, as the program sees it. *)
Shown(p, h) == IF Alive(p) /\ ~Ending(p) THEN jfn[p][h] ELSE Unused

Step == [Promise!Next]_<<Bound, Opening>>

LEMMA BoundShows ==
  ASSUME TypeInv
  PROVE  /\ Bound \in [Processes -> [HandleNumbers -> Sfts \cup {Unused}]]
         /\ \A p \in Processes, h \in HandleNumbers : Bound[p][h] = Shown(p, h)
  <1>1. \A p \in Processes : jfn[p] \in [HandleNumbers -> Sfts \cup {Unused}]
    BY DEF TypeInv
  <1>2. \A p \in Processes : Bound[p] = IF Alive(p) /\ ~Ending(p) THEN jfn[p] ELSE NoHandles
    BY DEF Bound
  <1>3. NoHandles \in [HandleNumbers -> Sfts \cup {Unused}]
        /\ \A h \in HandleNumbers : NoHandles[h] = Unused
    BY DEF NoHandles
  <1>4. Bound \in [Processes -> [HandleNumbers -> Sfts \cup {Unused}]]
    <2> HIDE DEF NoHandles
    <2> QED BY <1>1, <1>3 DEF Bound
  <1> QED BY <1>2, <1>3, <1>4 DEF Shown

LEMMA BoundShowsNext ==
  ASSUME TypeInv'
  PROVE  /\ Bound' \in [Processes -> [HandleNumbers -> Sfts \cup {Unused}]]
         /\ \A p \in Processes, h \in HandleNumbers : Bound'[p][h] = Shown(p, h)'
  <1>1. \A p \in Processes : jfn'[p] \in [HandleNumbers -> Sfts \cup {Unused}]
    BY DEF TypeInv
  <1>2. \A p \in Processes : Bound'[p] = IF Alive(p)' /\ ~Ending(p)' THEN jfn'[p] ELSE NoHandles
    BY DEF Bound
  <1>3. NoHandles \in [HandleNumbers -> Sfts \cup {Unused}]
        /\ \A h \in HandleNumbers : NoHandles[h] = Unused
    BY DEF NoHandles
  <1>4. Bound' \in [Processes -> [HandleNumbers -> Sfts \cup {Unused}]]
    <2> HIDE DEF NoHandles
    <2> QED BY <1>1, <1>3 DEF Bound
  <1> QED BY <1>2, <1>3, <1>4 DEF Shown

(* Two tables with the same handles are the same. *)
LEMMA SameTable ==
  ASSUME NEW F, NEW T \in [Processes -> [HandleNumbers -> F]],
         NEW U \in [Processes -> [HandleNumbers -> F]],
         \A p \in Processes, h \in HandleNumbers : T[p][h] = U[p][h]
  PROVE  T = U
  <1>1. \A p \in Processes : T[p] \in [HandleNumbers -> F] /\ U[p] \in [HandleNumbers -> F]
    OBVIOUS
  <1>2. \A p \in Processes : T[p] = U[p]
    BY <1>1
  <1> QED BY <1>2

(* Nothing shows. *)
LEMMA NothingShows ==
  ASSUME TypeInv, TypeInv', Opening' = Opening,
         \A p \in Processes, h \in HandleNumbers : Shown(p, h)' = Shown(p, h)
  PROVE  Step
  <1>1. Bound' = Bound
    BY BoundShows, BoundShowsNext, SameTable
  <1> QED BY <1>1 DEF Step

(* One handle changes. *)
LEMMA OneShows ==
  ASSUME TypeInv, TypeInv', NEW p \in Processes, NEW h \in HandleNumbers, NEW v \in Sfts \cup {Unused},
         \A q \in Processes, g \in HandleNumbers :
            Shown(q, g)' = IF q = p /\ g = h THEN v ELSE Shown(q, g)
  PROVE  Bound' = [Bound EXCEPT ![p][h] = v] /\ Bound[p][h] = Shown(p, h)
  <1> DEFINE U == [Bound EXCEPT ![p][h] = v]
  <1>1. Bound \in [Processes -> [HandleNumbers -> Sfts \cup {Unused}]]
        /\ \A q \in Processes, g \in HandleNumbers : Bound[q][g] = Shown(q, g)
    BY BoundShows
  <1>2. U \in [Processes -> [HandleNumbers -> Sfts \cup {Unused}]]
        /\ \A q \in Processes, g \in HandleNumbers :
              U[q][g] = IF q = p /\ g = h THEN v ELSE Bound[q][g]
    BY <1>1
  <1> HIDE DEF U
  <1>3. Bound' = U
    BY <1>1, <1>2, BoundShowsNext, SameTable
  <1> QED BY <1>1, <1>3 DEF U

(* The handles of one process go. *)
LEMMA EndShows ==
  ASSUME TypeInv, TypeInv', NEW p \in Processes, Opening' = Unused,
         \A q \in Processes, g \in HandleNumbers :
            Shown(q, g)' = IF q = p THEN Unused ELSE Shown(q, g)
  PROVE  Step
  <1> DEFINE U == [Bound EXCEPT ![p] = [h \in HandleNumbers |-> Unused]]
  <1>1. Bound \in [Processes -> [HandleNumbers -> Sfts \cup {Unused}]]
        /\ \A q \in Processes, g \in HandleNumbers : Bound[q][g] = Shown(q, g)
    BY BoundShows
  <1>2. U \in [Processes -> [HandleNumbers -> Sfts \cup {Unused}]]
        /\ \A q \in Processes, g \in HandleNumbers :
              U[q][g] = IF q = p THEN Unused ELSE Bound[q][g]
    BY <1>1
  <1> HIDE DEF U
  <1>3. Bound' = U
    BY <1>1, <1>2, BoundShowsNext, SameTable
  <1> QED BY <1>3 DEF U, Step, Promise!Next, Promise!End

(* A handle is bound to a file that another one stands for. *)
LEMMA ShareShows ==
  ASSUME TypeInv, TypeInv', NEW p \in Processes, NEW h \in HandleNumbers, NEW s \in Sfts,
         NEW q \in Processes, NEW g \in HandleNumbers, Shown(q, g) = s, Shown(p, h) = Unused,
         Opening = Unused, Opening' = Unused,
         \A r \in Processes, i \in HandleNumbers :
            Shown(r, i)' = IF r = p /\ i = h THEN s ELSE Shown(r, i)
  PROVE  Step
  <1>1. Bound' = [Bound EXCEPT ![p][h] = s] /\ Bound[p][h] = Unused
    BY OneShows
  <1>2. Bound[q][g] = s /\ s # Unused
    BY BoundShows, Basics
  <1>3. s \in Promise!Opened
    BY <1>2 DEF Promise!Opened
  <1>4. Promise!Share(p, h, s)
    BY <1>1, <1>3 DEF Promise!Share, Promise!Bind
  <1> QED BY <1>4 DEF Step, Promise!Next

(* A handle is closed. *)
LEMMA CloseShows ==
  ASSUME TypeInv, TypeInv', NEW p \in Processes, NEW h \in HandleNumbers,
         Opening = Unused, Opening' = Unused,
         \A q \in Processes, g \in HandleNumbers :
            Shown(q, g)' = IF q = p /\ g = h THEN Unused ELSE Shown(q, g)
  PROVE  Step
  <1>1. Bound' = [Bound EXCEPT ![p][h] = Unused]
    BY OneShows
  <1>2. Promise!Close(p, h)
    BY <1>1 DEF Promise!Close, Promise!Unbind
  <1> QED BY <1>2 DEF Step, Promise!Next

LEMMA InitShows == Init => Promise!Init
  <1> SUFFICES ASSUME Init PROVE Promise!Init
    OBVIOUS
  <1>1. TypeInv
    BY InitInvariant DEF IInv
  <1>2. \A p \in Processes, h \in HandleNumbers : Shown(p, h) = Unused
    BY DEF Shown, Init, NoHandles
  <1>3. Bound = [p \in Processes |-> [h \in HandleNumbers |-> Unused]]
    <2> DEFINE U == [p \in Processes |-> [h \in HandleNumbers |-> Unused]]
    <2>1. U \in [Processes -> [HandleNumbers -> Sfts \cup {Unused}]]
          /\ \A p \in Processes, h \in HandleNumbers : U[p][h] = Unused
      OBVIOUS
    <2> HIDE DEF U
    <2>2. Bound = U
      BY <1>1, <1>2, <2>1, BoundShows, SameTable
    <2> QED BY <2>2 DEF U
  <1>4. Opening = Unused
    BY UserFields DEF Init, Opening, CallIs
  <1> QED BY <1>3, <1>4 DEF Promise!Init

LEMMA SameHandlesShow ==
  ASSUME UNCHANGED jfn, \A q \in Processes : Alive(q)' <=> Alive(q),
         \A q \in Processes : Alive(q) => (Ending(q)' <=> Ending(q))
  PROVE  \A p \in Processes, h \in HandleNumbers : Shown(p, h)' = Shown(p, h)
  BY DEF Shown

(* Where no process begins or ends, and none is about to. *)
LEMMA HandlesShow ==
  ASSUME ~InExit, ~InExit', \A q \in Processes : Alive(q)' <=> Alive(q),
         NEW p \in Processes, NEW h \in HandleNumbers, NEW v, Alive(p),
         \A q \in Processes, g \in HandleNumbers :
            jfn'[q][g] = IF q = p /\ g = h THEN v ELSE jfn[q][g]
  PROVE  /\ \A q \in Processes, g \in HandleNumbers :
              Shown(q, g)' = IF q = p /\ g = h THEN v ELSE Shown(q, g)
         /\ Shown(p, h) = jfn[p][h]
         /\ \A q \in Processes, g \in HandleNumbers : Alive(q) => Shown(q, g) = jfn[q][g]
  <1>1. \A q : ~Ending(q) /\ ~Ending(q)'
    BY DEF Ending, InExit
  <1> QED BY <1>1 DEF Shown

LEMMA OpenBeginsShows ==
  ASSUME IInv, IInv', OpenBegins PROVE Step
  <1>0. TypeInv /\ TypeInv' /\ CallInv /\ CallInv'
    BY DEF IInv
  <1>1. PICK s \in Sfts :
          /\ Usable(s)
          /\ \/ \E h \in HandleNumbers :
                  /\ FirstVacant(h)
                  /\ SetHandle(CurrentPDB, h, s)
                  /\ call' = [User EXCEPT !.op = "open", !.sfn = s, !.from = h]
             \/ UNCHANGED <<jfn, call>>
    BY Zenon DEF OpenBegins, FirstUsable
  <1>2. call.op = "user" /\ UNCHANGED <<status, CurrentPDB>> /\ CurrentPDB \in Processes
    BY <1>0, Zenon DEF OpenBegins, processes, TypeInv
  <1>3. ~InExit /\ Opening = Unused
    BY <1>0, <1>2 DEF InExit, CallInv, Opening
  <1>4. CASE UNCHANGED <<jfn, call>>
    <2>1. Opening' = Opening /\ \A q \in Processes : Alive(q)' <=> Alive(q)
      BY <1>2, <1>4 DEF Opening, Alive
    <2>2. \A q \in Processes : Ending(q)' <=> Ending(q)
      BY <1>2, <1>4 DEF Ending
    <2> QED BY <1>0, <1>4, <2>1, <2>2, SameHandlesShow, NothingShows
  <1>5. ASSUME NEW h \in HandleNumbers, FirstVacant(h), SetHandle(CurrentPDB, h, s),
               call' = [User EXCEPT !.op = "open", !.sfn = s, !.from = h]
        PROVE  Step
    <2>1. CallIs(call', "open", "user", s, 0, h, 0, 0, Root)
      BY <1>5, OpenFields
    <2>2. Current[h] = Unused /\ SetHandle(CurrentPDB, h, s)
      BY <1>5, Zenon DEF FirstVacant, Vacant
    <2>3. ~InExit' /\ Opening' = s /\ \A q \in Processes : Alive(q)' <=> Alive(q)
      BY <1>2, <2>1 DEF CallIs, InExit, Opening, Alive
    <2>4. /\ \A q \in Processes, g \in HandleNumbers :
               jfn'[q][g] = IF q = CurrentPDB /\ g = h THEN s ELSE jfn[q][g]
      BY <1>0, <1>2, <2>2, HandleSet
    <2>5. /\ \A q \in Processes, g \in HandleNumbers :
               Shown(q, g)' = IF q = CurrentPDB /\ g = h THEN s ELSE Shown(q, g)
          /\ Shown(CurrentPDB, h) = Unused
      BY <1>2, <1>3, <2>2, <2>3, <2>4, HandlesShow, CurrentHandles DEF Current
    <2>6. Bound' = [Bound EXCEPT ![CurrentPDB][h] = s] /\ Bound[CurrentPDB][h] = Unused
      BY <1>0, <1>2, <2>5, OneShows
    <2>7. Reach(s) = {}
      <3>1. Usable(s)
        BY <1>1, Zenon
      <3> QED BY <1>0, <1>2, <1>3, <3>1, CountsOf, Basics DEF Usable
    <2>8. ASSUME NEW q \in Processes, NEW g \in HandleNumbers PROVE Bound[q][g] # s
      <3>1. s # Unused /\ Bound[q][g] = Shown(q, g)
        <4>1. s # Unused
          BY <1>0, Basics
        <4> QED BY <1>0, <2>8, <4>1, BoundShows
      <3>2. Alive(q) => jfn[q][g] # s
        BY <2>7, <2>8, <3>1, CurrentHandles
      <3> QED BY <3>1, <3>2 DEF Shown
    <2>9. Promise!Open(CurrentPDB, h, s)
      BY <1>3, <2>3, <2>6, <2>8 DEF Promise!Open, Promise!Bind, Promise!Opened
    <2> QED BY <1>2, <2>9 DEF Step, Promise!Next
  <1> QED BY <1>1, <1>4, <1>5

LEMMA OpenEndsShows ==
  ASSUME IInv, IInv', OpenSucceeds \/ OpenFails PROVE Step
  <1>0. TypeInv /\ TypeInv' /\ CallInv
    BY DEF IInv
  <1>1. /\ call.op = "open" /\ call' = User /\ UNCHANGED <<status, CurrentPDB>>
        /\ UNCHANGED jfn \/ SetHandle(CurrentPDB, call.from, Unused)
    BY DEF OpenSucceeds, OpenFails, processes
  <1>2. call'.op = "user" /\ call'.back = "user"
    BY <1>1, UserFields DEF CallIs
  <1>3. /\ ~InExit /\ ~InExit' /\ Opening = call.sfn /\ Opening' = Unused
        /\ \A q \in Processes : Alive(q)' <=> Alive(q)
        /\ call.from \in HandleNumbers /\ CurrentPDB \in Processes
        /\ jfn[CurrentPDB][call.from] = call.sfn
    BY <1>0, <1>1, <1>2 DEF InExit, CallInv, Opening, Alive, TypeInv, CallType
  <1>4. CASE UNCHANGED jfn
    <2>1. \A q \in Processes : Ending(q)' <=> Ending(q)
      BY <1>3 DEF Ending, InExit
    <2>2. Bound' = Bound
      BY <1>0, <1>3, <1>4, <2>1, SameHandlesShow, BoundShows, BoundShowsNext, SameTable
    <2> QED BY <1>3, <2>2 DEF Step, Promise!Next, Promise!OpenDone
  <1>5. CASE SetHandle(CurrentPDB, call.from, Unused)
    <2> DEFINE h == call.from
    <2>1. \A q \in Processes, g \in HandleNumbers :
               jfn'[q][g] = IF q = CurrentPDB /\ g = h THEN Unused ELSE jfn[q][g]
      BY <1>0, <1>3, <1>5, HandleSet
    <2>2. /\ \A q \in Processes, g \in HandleNumbers :
               Shown(q, g)' = IF q = CurrentPDB /\ g = h THEN Unused ELSE Shown(q, g)
          /\ Shown(CurrentPDB, h) = Opening
      BY <1>3, <2>1, HandlesShow, CurrentHandles
    <2> HIDE DEF h
    <2>3. Bound' = [Bound EXCEPT ![CurrentPDB][h] = Unused] /\ Bound[CurrentPDB][h] = Opening
      BY <1>0, <1>3, <2>2, OneShows DEF h
    <2>4. Promise!OpenUndone(CurrentPDB, h)
      BY <1>3, <2>3 DEF Promise!OpenUndone, Promise!Unbind
    <2> QED BY <1>3, <2>4 DEF Step, Promise!Next, h
  <1> QED BY <1>1, <1>4, <1>5

LEMMA CloseHandleShows ==
  ASSUME IInv, IInv', NEW h \in HandleNumbers, Valid(h), NEW next \in CallType, CloseHandle(h, next),
         UNCHANGED processes, call.op \in {"user", "exit"}, next.back = "exit" <=> InExit
  PROVE  Step
  <1>0. TypeInv /\ TypeInv'
    BY DEF IInv
  <1>1. /\ SetHandle(CurrentPDB, h, Unused) /\ CurrentPDB \in Processes
        /\ CallIs(call', "close", next.back, Current[h], sf_ref_count[Current[h]],
                  next.from, next.to, next.left, next.child)
    BY <1>0, CloseHandleDoes DEF TypeInv
  <1>2. /\ call'.op = "close" /\ (InExit' <=> InExit) /\ Opening = Unused /\ Opening' = Unused
        /\ UNCHANGED <<status, CurrentPDB>>
        /\ \A q \in Processes : Alive(q)' <=> Alive(q)
    BY <1>1 DEF CallIs, InExit, Opening, Alive, processes
  <1>3. \A q \in Processes, g \in HandleNumbers :
           jfn'[q][g] = IF q = CurrentPDB /\ g = h THEN Unused ELSE jfn[q][g]
    BY <1>0, <1>1, HandleSet
  <1>4. CASE InExit
    <2>1. \A p \in Processes, g \in HandleNumbers : Shown(p, g)' = Shown(p, g)
      BY <1>2, <1>3, <1>4 DEF Shown, Ending, InExit
    <2> QED BY <1>0, <1>2, <2>1, NothingShows
  <1>5. CASE ~InExit
    <2>1. \A q \in Processes, g \in HandleNumbers :
             Shown(q, g)' = IF q = CurrentPDB /\ g = h THEN Unused ELSE Shown(q, g)
      BY <1>1, <1>2, <1>3, <1>5, HandlesShow, CurrentHandles
    <2> QED BY <1>0, <1>1, <1>2, <2>1, CloseShows
  <1> QED BY <1>4, <1>5

(* Steps that change neither handles nor processes. *)
LEMMA QuietShows ==
  ASSUME TypeInv, TypeInv', UNCHANGED <<jfn, status, CurrentPDB>>,
         call.op # "open", call'.op # "open", InExit' <=> InExit,
         call'.op = "exec" <=> call.op = "exec", call.op = "exec" => call'.child = call.child
  PROVE  Step
  <1>1. /\ Opening = Opening'
        /\ \A q \in Processes : Alive(q)' <=> Alive(q)
        /\ \A q \in Processes : Ending(q)' <=> Ending(q)
    BY DEF Opening, Alive, Ending, InExit
  <1> QED BY <1>1, SameHandlesShow, NothingShows

LEMMA CloseBeginsShows ==
  ASSUME IInv, IInv', CloseBegins PROVE Step
  <1>1. PICK h \in HandleNumbers : Valid(h) /\ CloseHandle(h, User)
    BY Zenon DEF CloseBegins
  <1>2. call.op = "user" /\ UNCHANGED processes
    BY Zenon DEF CloseBegins
  <1>3. User \in CallType /\ User.back = "user" /\ ~InExit
    BY <1>2, UserFields DEF CallIs, IInv, CallInv, InExit
  <1> QED BY <1>1, <1>2, <1>3, CloseHandleShows

LEMMA CloseEndsShows ==
  ASSUME IInv, IInv', CloseEnds PROVE Step
  <1>0. TypeInv /\ TypeInv' /\ CallInv
    BY DEF IInv
  <1>1. call.op = "close" /\ UNCHANGED <<jfn, status, CurrentPDB>>
    BY Zenon DEF CloseEnds, processes
  <1>2. call \in CallType /\ call.back \in {"user", "dup2", "exit"}
    BY <1>0 DEF TypeInv, CallType
  <1>3. call'.op = call.back /\ (call'.back = "exit" <=> call.back = "exit")
    <2>1. CASE call.back = "user"
      <3>1. call' = User
        BY <2>1, Zenon DEF CloseEnds
      <3> QED BY <2>1, <3>1, UserFields DEF CallIs
    <2>2. CASE call.back # "user"
      <3>1. call' = [call EXCEPT !.op = call.back]
        BY <2>2, Zenon DEF CloseEnds
      <3>2. CallIs(call', call.back, call.back, call.sfn, call.old, call.from, call.to, call.left, call.child)
        BY <1>2, <2>2, <3>1, SetOp
      <3> QED BY <3>2 DEF CallIs
    <2> QED BY <2>1, <2>2
  <1>4. InExit' <=> InExit
    BY <1>1, <1>3 DEF InExit
  <1> QED BY <1>0, <1>1, <1>2, <1>3, <1>4, QuietShows

LEMMA Dup2BeginsShows ==
  ASSUME IInv, IInv', Dup2Begins PROVE Step
  <1>0. TypeInv /\ TypeInv' /\ CallInv
    BY DEF IInv
  <1> DEFINE next(h, g) == [User EXCEPT !.back = "dup2", !.from = h, !.to = g]
  <1>1. PICK h \in HandleNumbers, g \in HandleNumbers :
          IF Valid(g) THEN CloseHandle(g, next(h, g))
          ELSE call' = [next(h, g) EXCEPT !.op = "dup2"] /\ UNCHANGED <<sf_ref_count, jfn>>
    BY Zenon DEF Dup2Begins
  <1>2. call.op = "user" /\ UNCHANGED processes
    BY Zenon DEF Dup2Begins
  <1>3. CallIs(next(h, g), "user", "dup2", 0, 0, h, g, 0, Root)
    BY Dup2Fields
  <1>4. ~InExit
    BY <1>0, <1>2 DEF CallInv, InExit
  <1> HIDE DEF next
  <1>5. CASE Valid(g)
    <2>1. CloseHandle(g, next(h, g))
      BY <1>1, <1>5, Zenon
    <2> QED BY <1>2, <1>3, <1>4, <1>5, <2>1, CloseHandleShows DEF CallIs
  <1>6. CASE ~Valid(g)
    <2>1. call' = [next(h, g) EXCEPT !.op = "dup2"] /\ UNCHANGED jfn
      BY <1>1, <1>6, Zenon
    <2>2. CallIs(call', "dup2", "dup2", 0, 0, h, g, 0, Root)
      BY <1>3, <2>1, SetOp DEF CallIs
    <2>3. ~InExit' /\ call'.op = "dup2"
      BY <2>2 DEF InExit, CallIs
    <2>4. UNCHANGED <<status, CurrentPDB>>
      BY <1>2 DEF processes
    <2> QED BY <1>0, <1>2, <1>4, <2>1, <2>3, <2>4, QuietShows
  <1> QED BY <1>5, <1>6

LEMMA ShareHandleShows ==
  ASSUME IInv, IInv', NEW p \in Processes, NEW h \in HandleNumbers, NEW g \in HandleNumbers,
         SetHandle(p, h, Current[g]), Current[g] # Unused, jfn[p][h] = Unused, Alive(p),
         UNCHANGED <<status, CurrentPDB>>, ~InExit, ~InExit', call.op # "open", call'.op # "open",
         call'.op = "exec" <=> call.op = "exec", call.op = "exec" => call'.child = call.child
  PROVE  Step
  <1>0. TypeInv /\ TypeInv' /\ CurrentPDB \in Processes
    BY DEF IInv, TypeInv
  <1> DEFINE s == Current[g]
  <1>1. s \in Sfts /\ Alive(CurrentPDB)
    BY <1>0, CurrentHandles DEF Current
  <1>2. Opening = Unused /\ Opening' = Unused /\ \A q \in Processes : Alive(q)' <=> Alive(q)
    BY DEF Opening, Alive
  <1> HIDE DEF s
  <1>3. \A q \in Processes, i \in HandleNumbers :
           jfn'[q][i] = IF q = p /\ i = h THEN s ELSE jfn[q][i]
    BY <1>0, <1>1, HandleSet DEF s
  <1>4. /\ \A q \in Processes, i \in HandleNumbers :
             Shown(q, i)' = IF q = p /\ i = h THEN s ELSE Shown(q, i)
        /\ Shown(p, h) = Unused /\ Shown(CurrentPDB, g) = s
    BY <1>0, <1>1, <1>2, <1>3, HandlesShow DEF s, Current
  <1> QED BY <1>0, <1>1, <1>2, <1>4, ShareShows

LEMMA DupShows ==
  ASSUME IInv, IInv', Dup PROVE Step
  <1>1. PICK h \in HandleNumbers, g \in HandleNumbers :
          FirstVacant(g) /\ Valid(h) /\ SetHandle(CurrentPDB, g, Current[h])
    BY DEF Dup
  <1>2. call.op = "user" /\ call' = call /\ UNCHANGED <<status, CurrentPDB>> /\ CurrentPDB \in Processes
    BY DEF Dup, processes, IInv, TypeInv
  <1>3. ~InExit /\ ~InExit'
    BY <1>2 DEF InExit, IInv, CallInv
  <1>4. Current[h] # Unused /\ jfn[CurrentPDB][g] = Unused /\ Alive(CurrentPDB)
    BY <1>1, CurrentHandles DEF Valid, FirstVacant, Vacant, Current
  <1> QED BY <1>1, <1>2, <1>3, <1>4, ShareHandleShows

LEMMA Dup2EndsShows ==
  ASSUME IInv, IInv', Dup2Ends PROVE Step
  <1>1. /\ call.op = "dup2" /\ call' = User /\ UNCHANGED <<status, CurrentPDB>>
        /\ IF Valid(call.from) THEN SetHandle(CurrentPDB, call.to, Current[call.from])
           ELSE UNCHANGED jfn
    BY DEF Dup2Ends, processes
  <1>2. call'.op = "user" /\ call'.back = "user"
    BY <1>1, UserFields DEF CallIs
  <1>3. /\ ~InExit /\ ~InExit' /\ TypeInv /\ TypeInv' /\ Alive(CurrentPDB) /\ CurrentPDB \in Processes
        /\ call.from \in HandleNumbers /\ call.to \in HandleNumbers
        /\ jfn[CurrentPDB][call.to] = Unused
    BY <1>1, <1>2, CurrentHandles DEF InExit, IInv, CallInv, TypeInv, CallType
  <1>4. CASE Valid(call.from)
    BY <1>1, <1>2, <1>3, <1>4, ShareHandleShows DEF Valid
  <1>5. CASE ~Valid(call.from)
    BY <1>1, <1>2, <1>3, <1>5, QuietShows
  <1> QED BY <1>4, <1>5

LEMMA InheritShows ==
  ASSUME IInv, IInv', Inherit PROVE Step
  <1> DEFINE h == call.left
             s == Current[h]
  <1>0. TypeInv /\ TypeInv' /\ CallInv
    BY DEF IInv
  <1>1. /\ call.op = "exec" /\ h < FilPerProc
        /\ call' = [call EXCEPT !.left = h + 1]
        /\ UNCHANGED processes
        /\ \/ Current[h] # Unused /\ SetHandle(call.child, h, s)
           \/ UNCHANGED jfn
    BY Zenon DEF Inherit
  <1>2. /\ call.op = "exec" /\ h < FilPerProc /\ UNCHANGED <<status, CurrentPDB>>
        /\ \/ Current[h] # Unused /\ SetHandle(call.child, h, s)
           \/ UNCHANGED jfn
    BY <1>1, Zenon DEF processes
  <1>3. call \in CallType /\ call.left \in 0..MaxHandles /\ call.child \in Processes
    BY <1>0, Zenon DEF TypeInv, CallType
  <1>4. h \in HandleNumbers /\ h + 1 \in 0..MaxHandles
    BY <1>0, <1>2, <1>3, Basics
  <1>5. CallIs(call', "exec", call.back, call.sfn, call.old, call.from, call.to, h + 1, call.child)
    BY <1>1, <1>3, <1>4, LeftFields DEF CallIs
  <1>6. ~InExit /\ ~InExit' /\ call'.op = "exec" /\ call'.child = call.child
    BY <1>0, <1>2, <1>5 DEF InExit, CallInv, CallIs
  <1>7. Alive(call.child) /\ jfn[call.child][h] = Unused
    <2>1. h \in Int
      BY <1>0, <1>4, Basics
    <2> QED BY <1>0, <1>2, <1>4, <2>1 DEF Alive, CallInv
  <1>8. CASE Current[h] # Unused /\ SetHandle(call.child, h, s)
    <2> HIDE DEF h
    <2> QED BY <1>2, <1>3, <1>4, <1>6, <1>7, <1>8, ShareHandleShows
  <1>9. CASE UNCHANGED jfn
    BY <1>0, <1>2, <1>6, <1>9, QuietShows
  <1> QED BY <1>2, <1>8, <1>9

LEMMA ExecBeginsShows ==
  ASSUME IInv, IInv', ExecBegins PROVE Step
  <1>0. TypeInv /\ TypeInv' /\ CallInv
    BY DEF IInv
  <1>1. call.op = "user" /\ UNCHANGED <<status, CurrentPDB>>
    BY Zenon DEF ExecBegins, processes
  <1>2. ~InExit /\ Opening = Unused
    BY <1>0, <1>1 DEF InExit, CallInv, Opening
  <1>3. CASE UNCHANGED <<jfn, call>>
    <2>1. InExit' <=> InExit
      BY <1>3 DEF InExit
    <2> QED BY <1>0, <1>1, <1>3, <2>1, QuietShows
  <1>4. CASE ~UNCHANGED <<jfn, call>>
    <2>1. PICK p \in Processes :
            /\ status[p] = "none"
            /\ jfn' = [jfn EXCEPT ![p] = NoHandles]
            /\ call' = [User EXCEPT !.op = "exec", !.child = p]
      BY <1>4, Zenon DEF ExecBegins
    <2>2. status[p] = "none" /\ jfn' = [jfn EXCEPT ![p] = NoHandles]
      BY <2>1, Zenon
    <2>3. CallIs(call', "exec", "user", 0, 0, 0, 0, 0, p)
      BY <2>1, ExecFields
    <2>4. call'.op = "exec" /\ call'.child = p /\ call'.back = "user" /\ Opening' = Unused
      BY <2>3 DEF CallIs, Opening
    <2>5. jfn'[p] = NoHandles /\ \A q \in Processes \ {p} : jfn'[q] = jfn[q]
      BY <1>0, <2>2 DEF TypeInv
    <2>6. \A q : ~Ending(q) /\ ~Ending(q)'
      BY <1>2, <2>4 DEF Ending, InExit
    <2>7. \A q \in Processes : (Alive(q) <=> status[q] # "none") /\ (Alive(q)' <=> status[q] # "none" \/ q = p)
      BY <1>1, <2>4 DEF Alive
    <2>8. \A q \in Processes, g \in HandleNumbers : Shown(q, g)' = Shown(q, g)
      BY <2>2, <2>5, <2>6, <2>7 DEF Shown, NoHandles
    <2> QED BY <1>0, <1>2, <2>4, <2>8, NothingShows
  <1> QED BY <1>3, <1>4

LEMMA ExecEndsShows ==
  ASSUME IInv, IInv', ExecEnds PROVE Step
  <1>0. TypeInv /\ TypeInv' /\ CallInv
    BY DEF IInv
  <1>1. /\ call.op = "exec" /\ call' = User /\ UNCHANGED jfn
        /\ status' = [status EXCEPT ![call.child] = "live"]
    BY DEF ExecEnds
  <1>2. call'.op = "user" /\ call'.back = "user"
    BY <1>1, UserFields DEF CallIs
  <1>3. call.child \in Processes /\ status[call.child] = "none" /\ ~InExit /\ ~InExit'
    BY <1>0, <1>1, <1>2 DEF TypeInv, CallType, CallInv, InExit
  <1>4. \A q \in Processes : Alive(q)' <=> Alive(q)
    BY <1>0, <1>1, <1>2, <1>3 DEF Alive, TypeInv
  <1>5. Opening' = Opening /\ \A q \in Processes : Ending(q)' <=> Ending(q)
    BY <1>1, <1>2, <1>3 DEF Opening, Ending, InExit
  <1> QED BY <1>0, <1>1, <1>4, <1>5, SameHandlesShow, NothingShows

LEMMA ExitClosesShows ==
  ASSUME IInv, IInv', ExitCloses PROVE Step
  <1>0. TypeInv /\ TypeInv' /\ CallInv
    BY DEF IInv
  <1> DEFINE h == call.left - 1
             next == [call EXCEPT !.back = "exit", !.left = h]
  <1>1. /\ call.op = "exit" /\ call.left > 0
        /\ IF Valid(h) THEN CloseHandle(h, next)
           ELSE call' = next /\ UNCHANGED <<sf_ref_count, jfn>>
        /\ UNCHANGED processes
    BY Zenon DEF ExitCloses
  <1>a. call \in CallType /\ call.left \in 0..MaxHandles /\ call.left > 0
    BY <1>0, <1>1, Zenon DEF TypeInv, CallType
  <1>2. h \in HandleNumbers /\ h \in 0..MaxHandles /\ call \in CallType
    <2> HIDE DEF next
    <2> QED BY <1>a, Basics, <1>0
  <1>3. CallIs(next, "exit", "exit", call.sfn, call.old, call.from, call.to, h, call.child)
    BY <1>1, <1>2, ExitCloseFields
  <1>4. InExit
    BY <1>1, Zenon DEF InExit
  <1> HIDE DEF next, h
  <1>5. CASE Valid(h)
    <2>1. CloseHandle(h, next)
      BY <1>1, <1>5, Zenon
    <2> QED BY <1>1, <1>2, <1>3, <1>4, <1>5, <2>1, CloseHandleShows DEF CallIs
  <1>6. CASE ~Valid(h)
    <2>1. call' = next /\ UNCHANGED jfn
      BY <1>1, <1>6, Zenon
    <2>2. InExit' /\ call'.op = "exit"
      BY <1>3, <2>1 DEF CallIs, InExit
    <2> QED BY <1>0, <1>1, <1>4, <2>1, <2>2, QuietShows DEF processes
  <1> QED BY <1>5, <1>6

LEMMA ExitEndsShows ==
  ASSUME IInv, IInv', ExitEnds PROVE Step
  <1>0. TypeInv /\ TypeInv' /\ CallInv
    BY DEF IInv
  <1> DEFINE c == CurrentPDB
  <1>1. /\ call.op = "exit" /\ call' = User
        /\ status' = [status EXCEPT ![c] = "none"]
        /\ jfn' = [jfn EXCEPT ![c] = NoHandles]
    BY Zenon DEF ExitEnds
  <1>2. call'.op = "user" /\ call'.back = "user" /\ c \in Processes
    BY <1>0, <1>1, UserFields DEF CallIs, TypeInv
  <1>3. status'[c] = "none"
        /\ \A q \in Processes \ {c} : status'[q] = status[q] /\ jfn'[q] = jfn[q]
    BY <1>0, <1>1, <1>2 DEF TypeInv
  <1>4. Opening' = Opening /\ Ending(c) /\ \A q \in Processes \ {c} : ~Ending(q)
        /\ \A r : ~Ending(r)'
    BY <1>1, <1>2 DEF Opening, Ending
  <1>5. \A q \in Processes : Alive(q)' <=> Alive(q) /\ q # c
    BY <1>1, <1>2, <1>3 DEF Alive
  <1>6. \A q \in Processes, g \in HandleNumbers : Shown(q, g)' = Shown(q, g)
    BY <1>3, <1>4, <1>5 DEF Shown
  <1> QED BY <1>0, <1>4, <1>6, NothingShows

LEMMA KeepShows ==
  ASSUME IInv, IInv', Keep PROVE Step
  <1>0. TypeInv /\ TypeInv' /\ CallInv
    BY DEF IInv
  <1>1. /\ call.op = "user" /\ status' = [status EXCEPT ![CurrentPDB] = "resident"]
        /\ UNCHANGED <<jfn, call>>
    BY DEF Keep
  <1>2. call.back # "exit" /\ CurrentPDB \in Processes /\ status[CurrentPDB] = "live"
    BY <1>0, <1>1, CurrentHandles DEF CallInv, TypeInv
  <1>3. \A q : ~Ending(q) /\ ~Ending(q)'
    BY <1>1, <1>2 DEF Ending
  <1>4. Opening' = Opening /\ \A q \in Processes : Alive(q)' <=> Alive(q)
    BY <1>0, <1>1, <1>2 DEF Opening, Alive, TypeInv
  <1> QED BY <1>0, <1>1, <1>3, <1>4, SameHandlesShow, NothingShows

(* A handle comes back only to a process that has ended or is about to. *)
LEMMA ErrorAnsweredShows ==
  ASSUME HandlesRestriction, IInv, IInv', ErrorAnswered PROVE Step
  <1>0. TypeInv /\ TypeInv' /\ CallInv /\ MarkInv
    BY DEF IInv
  <1>1. /\ call.op \in {"user", "open", "close"} /\ mark # Unmarked
        /\ call.op = "open" \/ call.back = "exit"
        /\ SetHandle(mark.psp, mark.h, mark.sfn)
        /\ UNCHANGED <<status, CurrentPDB, call>>
    BY DEF ErrorAnswered, OnDisk, Aborting, HandlesRestriction, processes
  <1>2. mark.psp \in Processes /\ mark.h \in HandleNumbers /\ mark.sfn \in Sfts
    BY <1>0, <1>1 DEF TypeInv, MarkInv
  <1>3. \A q \in Processes, g \in HandleNumbers :
           jfn'[q][g] = IF q = mark.psp /\ g = mark.h THEN mark.sfn ELSE jfn[q][g]
    BY <1>0, <1>1, <1>2, HandleSet
  <1>4. /\ \A q \in Processes : (Alive(q)' <=> Alive(q)) /\ (Ending(q)' <=> Ending(q))
        /\ Opening' = Opening
    BY <1>1 DEF Alive, Ending, Opening
  <1>5. \/ jfn[mark.psp][mark.h] = mark.sfn
        \/ ~Alive(mark.psp)
        \/ Ending(mark.psp)
    <2>1. CASE call.op = "open"
      BY <1>0, <2>1 DEF CallInv
    <2>2. CASE call.op # "open"
      <3>1. call.back = "exit" /\ call.op = "close"
        BY <1>0, <1>1, <2>2 DEF CallInv
      <3>2. CurrentPDB # Root /\ InExit
        BY <1>0, <3>1 DEF CallInv, InExit
      <3>3. status[mark.psp] = "none" \/ mark.psp = CurrentPDB
        BY <1>0, <1>1, <3>1, <3>2 DEF MarkInv
      <3> QED BY <3>1, <3>3 DEF Alive, Ending
    <2> QED BY <2>1, <2>2
  <1>6. \A q \in Processes, g \in HandleNumbers : Shown(q, g)' = Shown(q, g)
    BY <1>3, <1>4, <1>5 DEF Shown
  <1> QED BY <1>0, <1>4, <1>6, NothingShows

(* The process begins to end: all its handles go, the one of an open that   *)
(* was cut short among them; for the first process that one alone.          *)
LEMMA LeaveShows ==
  ASSUME IInv, IInv', LeaveProcess, UNCHANGED <<status, CurrentPDB>>,
         call.op \in {"user", "open", "close"}, call.back # "exit",
         IF call.op = "open" THEN SetHandle(CurrentPDB, call.from, Unused) ELSE UNCHANGED jfn
  PROVE  Step
  <1>0. TypeInv /\ TypeInv' /\ CallInv
    BY DEF IInv
  <1>1. CurrentPDB \in Processes /\ call.from \in HandleNumbers /\ ~InExit
        /\ JFN_Length[CurrentPDB] \in 0..MaxHandles
    <2>1. JFN_Length[CurrentPDB] \in FilPerProc..MaxHandles
      BY <1>0 DEF TypeInv
    <2> QED BY <1>0, <2>1, Basics DEF TypeInv, CallType, InExit
  <1>2. \A q \in Processes, g \in HandleNumbers :
           jfn'[q][g] = IF call.op = "open" /\ q = CurrentPDB /\ g = call.from THEN Unused
                        ELSE jfn[q][g]
    <2>1. CASE call.op = "open"
      BY <1>0, <1>1, <2>1, HandleSet
    <2>2. CASE call.op # "open"
      BY <2>2
    <2> QED BY <2>1, <2>2
  <1>3. CASE CurrentPDB = Root
    <2>1. call' = User
      BY <1>3, Zenon DEF LeaveProcess
    <2>2. call'.op = "user" /\ call'.back = "user" /\ ~InExit'
      BY <2>1, UserFields DEF CallIs, InExit
    <2>3. \A q \in Processes : Alive(q)' <=> Alive(q)
      BY <2>2 DEF Alive
    <2>4. CASE call.op = "open"
      <3> DEFINE h == call.from
      <3>1. Opening = call.sfn /\ Opening' = Unused /\ jfn[CurrentPDB][h] = call.sfn
        BY <1>0, <2>2, <2>4 DEF Opening, CallInv
      <3> HIDE DEF h
      <3>2. h \in HandleNumbers /\ \A q \in Processes, g \in HandleNumbers :
               jfn'[q][g] = IF q = CurrentPDB /\ g = h THEN Unused ELSE jfn[q][g]
        BY <1>1, <1>2, <2>4 DEF h
      <3>3. /\ \A q \in Processes, g \in HandleNumbers :
                 Shown(q, g)' = IF q = CurrentPDB /\ g = h THEN Unused ELSE Shown(q, g)
            /\ Shown(CurrentPDB, h) = call.sfn
        BY <1>1, <2>2, <2>3, <3>1, <3>2, HandlesShow, CurrentHandles
      <3>4. Bound' = [Bound EXCEPT ![CurrentPDB][h] = Unused] /\ Bound[CurrentPDB][h] = Opening
        BY <1>0, <1>1, <3>1, <3>2, <3>3, OneShows
      <3>5. Promise!OpenUndone(CurrentPDB, h)
        BY <3>1, <3>4 DEF Promise!OpenUndone, Promise!Unbind
      <3> QED BY <1>1, <3>2, <3>5 DEF Step, Promise!Next
    <2>5. CASE call.op # "open"
      BY <1>0, <1>1, <2>2, <2>5, QuietShows
    <2> QED BY <2>4, <2>5
  <1>4. CASE CurrentPDB # Root
    <2>1. call' = [User EXCEPT !.op = "exit", !.left = JFN_Length[CurrentPDB]]
      BY <1>4, Zenon DEF LeaveProcess
    <2>2. CallIs(call', "exit", "user", 0, 0, 0, 0, JFN_Length[CurrentPDB], Root)
      BY <1>1, <2>1, ExitFields
    <2>3. call'.op = "exit" /\ Opening' = Unused
      BY <2>2 DEF CallIs, Opening
    <2>4. /\ \A q \in Processes : Alive(q)' <=> Alive(q)
          /\ \A q \in Processes : ~Ending(q) /\ (Ending(q)' <=> q = CurrentPDB)
      BY <1>1, <2>3 DEF Alive, Ending, InExit
    <2>5. \A q \in Processes, g \in HandleNumbers :
             Shown(q, g)' = IF q = CurrentPDB THEN Unused ELSE Shown(q, g)
      BY <1>2, <2>4 DEF Shown
    <2> QED BY <1>0, <1>1, <2>3, <2>5, EndShows
  <1> QED BY <1>3, <1>4

LEMMA ExitShows ==
  ASSUME IInv, IInv', Exit PROVE Step
  <1>1. call.op = "user" /\ LeaveProcess /\ UNCHANGED <<status, CurrentPDB, jfn>>
    BY Zenon DEF Exit, processes
  <1>2. call.back # "exit"
    BY <1>1 DEF IInv, CallInv
  <1> QED BY <1>1, <1>2, LeaveShows

LEMMA ErrorAbortsShows ==
  ASSUME HandlesRestriction, IInv, IInv', ErrorAborts PROVE Step
  <1>1. /\ call.op \in {"user", "open", "close"} /\ call.back # "exit"
        /\ call.op = "open" \/ mark = Unmarked
        /\ IF mark # Unmarked THEN SetHandle(mark.psp, mark.h, Unused) ELSE UNCHANGED jfn
        /\ LeaveProcess /\ UNCHANGED <<status, CurrentPDB>>
    BY Zenon DEF ErrorAborts, OnDisk, Aborting, HandlesRestriction, processes
  <1>2. CASE call.op = "open"
    <2>1. mark # Unmarked /\ mark.psp = CurrentPDB /\ mark.h = call.from
      BY <1>2, Basics DEF IInv, CallInv, Unmarked, Sfts
    <2> QED BY <1>1, <1>2, <2>1, LeaveShows
  <1>3. CASE call.op # "open"
    BY <1>1, <1>3, LeaveShows
  <1> QED BY <1>2, <1>3

(* Calls that find nothing to do, and a table of another size. *)
LEMMA OthersShow ==
  ASSUME IInv, IInv', OpenRefused \/ ExtHandle \/ UNCHANGED vars PROVE Step
  <1>1. UNCHANGED <<jfn, status, CurrentPDB, call>>
    BY DEF OpenRefused, ExtHandle, vars, processes
  <1>2. /\ TypeInv /\ TypeInv' /\ Opening' = Opening
        /\ \A q \in Processes : (Alive(q)' <=> Alive(q)) /\ (Ending(q)' <=> Ending(q))
    BY <1>1 DEF IInv, Opening, Alive, Ending
  <1> QED BY <1>1, <1>2, SameHandlesShow, NothingShows

(* A handle stands for one file from the call that gave it to the close or  *)
(* the end of its process: reference counts, busy marks and both scans do   *)
(* not show through (SFNFree, DOS_CLOSE, DOS_ABORT, $Dup_PDB, FATALC).      *)
THEOREM HandlesImplementOpenFiles ==
  ASSUME HandlesRestriction PROVE Spec => HandlesKeepFile
  <1>1. IInv /\ IInv' /\ [Next]_vars => [Promise!Next]_<<Bound, Opening>>
    <2> SUFFICES ASSUME IInv, IInv', [Next]_vars PROVE Step
      BY DEF Step
    <2>1. CASE UNCHANGED vars
      BY <2>1, OthersShow
    <2>2. CASE Next
      BY <2>2, OthersShow, OpenBeginsShows, OpenEndsShows, CloseBeginsShows, CloseEndsShows,
         DupShows, Dup2BeginsShows, Dup2EndsShows, ExecBeginsShows, InheritShows, ExecEndsShows,
         ExitShows, ExitClosesShows, ExitEndsShows, KeepShows, ErrorAnsweredShows,
         ErrorAbortsShows, Zenon DEF Next
    <2> QED BY <2>1, <2>2
  <1> QED BY InitShows, HandlesAlwaysRight, <1>1, PTL DEF Spec, HandlesKeepFile, Promise!Spec, Promise!vars
=============================================================================
