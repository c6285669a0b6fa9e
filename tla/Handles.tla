------------------------------- MODULE Handles -------------------------------
(***************************************************************************)
(* File handles: the handle table of each process (JFN table in its PSP,   *)
(* or in a memory block after $ExtHandle), the system file table with its  *)
(* reference counts, and every call that changes them: open, close, dup,   *)
(* dup2, the size of the table, inheritance, exit and the way out of a     *)
(* hard error (INT 24).                                                    *)
(*                                                                         *)
(* One process runs at a time and only a hard error leaves a call before   *)
(* its end, so a call is cut into steps where that can happen and where    *)
(* the code loops over handles.  One user, no SHARE, no network files.     *)
(***************************************************************************)
EXTENDS Integers, FiniteSets

CONSTANTS
  Processes,            \* program segment prefixes
  Root,                 \* the first one, its own parent
  SftCount,             \* entries of the system file table (FILES=)
  FilPerProc,           \* handles in the PSP: 20
  MaxHandles,           \* largest table $ExtHandle is asked for
  Blocks,               \* memory blocks that may hold a handle table
  KeepsInherited,       \* may a program stay resident with files of a parent?
  ErrorsWhileMarked     \* may a hard error follow one that cut an open short?

ASSUME HandlesAssumption ==
  /\ Root \in Processes /\ "nobody" \notin Processes /\ "psp" \notin Blocks
  /\ SftCount \in Nat /\ FilPerProc \in Nat \ {0}
  /\ MaxHandles \in Nat /\ FilPerProc <= MaxHandles
  /\ KeepsInherited \in BOOLEAN /\ ErrorsWhileMarked \in BOOLEAN

Sfts == 0..(SftCount - 1)
HandleNumbers == 0..(MaxHandles - 1)
Unused == -1                    \* 0FFh in a handle table
Busy == -1                      \* sf_busy, a reference count
Unmarked == [sfn |-> -1, psp |-> Root, h |-> 0]  \* pJFN counts only with SFN
Nobody == "nobody"
Psp == "psp"

VARIABLES
  sf_ref_count, sf_PID,                         \* system file table
  jfn, JFN_Length, JFN_Pointer,                 \* handle tables
  owner,                                        \* of the memory blocks
  status, parent, CurrentPDB,                   \* processes
  mark,                                         \* SFN and pJFN
  call                                          \* the call under way

files == <<sf_ref_count, sf_PID>>
tables == <<JFN_Length, JFN_Pointer, owner>>
processes == <<status, parent, CurrentPDB>>
vars == <<files, jfn, tables, processes, mark, call>>

(* No call under way: the current process runs its own code. *)
User == [op |-> "user", back |-> "user", sfn |-> 0, old |-> 0,
         from |-> 0, to |-> 0, left |-> 0, child |-> Root]

NoHandles == [h \in HandleNumbers |-> Unused]

Init ==
  /\ sf_ref_count = [s \in Sfts |-> 0]
  /\ sf_PID = [s \in Sfts |-> Root]
  /\ jfn = [p \in Processes |-> NoHandles]
  /\ JFN_Length = [p \in Processes |-> FilPerProc]
  /\ JFN_Pointer = [p \in Processes |-> Psp]
  /\ owner = [b \in Blocks |-> Nobody]
  /\ status = [p \in Processes |-> IF p = Root THEN "live" ELSE "none"]
  /\ parent = [p \in Processes |-> Root]
  /\ CurrentPDB = Root
  /\ mark = Unmarked
  /\ call = User

-----------------------------------------------------------------------------
Current == jfn[CurrentPDB]

(* CheckOwner: a handle in the table that is in use. *)
Valid(h) == h < JFN_Length[CurrentPDB] /\ Current[h] # Unused

(* SFNFree takes the first entry that is free, or that an open of the same *)
(* process left busy.                                                      *)
Usable(s) ==
  \/ sf_ref_count[s] = 0
  \/ sf_ref_count[s] = Busy /\ sf_PID[s] = CurrentPDB

FirstUsable(s) == Usable(s) /\ \A t \in Sfts : Usable(t) => s <= t

(* JFNFree takes the first unused handle. *)
Vacant(h) == h < JFN_Length[CurrentPDB] /\ Current[h] = Unused

FirstVacant(h) == Vacant(h) /\ \A g \in HandleNumbers : Vacant(g) => h <= g

SetHandle(p, h, s) == jfn' = [jfn EXCEPT ![p][h] = s]

SetCount(s, n) == sf_ref_count' = [sf_ref_count EXCEPT ![s] = n]

-----------------------------------------------------------------------------
(* AccessFile up to the disk. An entry stays busy when there is no handle. *)
OpenBegins ==
  /\ call.op = "user"
  /\ \E s \in Sfts :
       /\ FirstUsable(s)
       /\ SetCount(s, Busy)
       /\ sf_PID' = [sf_PID EXCEPT ![s] = CurrentPDB]
       /\ \/ \E h \in HandleNumbers :
               /\ FirstVacant(h)
               /\ SetHandle(CurrentPDB, h, s)
               /\ mark' = [sfn |-> s, psp |-> CurrentPDB, h |-> h]
               /\ call' = [User EXCEPT !.op = "open", !.sfn = s, !.from = h]
          \/ /\ ~\E h \in HandleNumbers : Vacant(h)
             /\ mark' = Unmarked
             /\ UNCHANGED <<jfn, call>>
  /\ UNCHANGED <<tables, processes>>

(* Every entry is in use. *)
OpenRefused ==
  /\ call.op = "user" /\ ~\E s \in Sfts : Usable(s)
  /\ mark' = Unmarked
  /\ UNCHANGED <<files, jfn, tables, processes, call>>

(* OpenOK: the file is there. *)
OpenSucceeds ==
  /\ call.op = "open"
  /\ SetCount(call.sfn, 1)
  /\ mark' = Unmarked /\ call' = User
  /\ UNCHANGED <<sf_PID, jfn, tables, processes>>

(* OpenE: it is not, or a hard error was answered with Fail. *)
OpenFails ==
  /\ call.op = "open"
  /\ SetCount(call.sfn, 0)
  /\ SetHandle(CurrentPDB, call.from, Unused)
  /\ mark' = Unmarked /\ call' = User
  /\ UNCHANGED <<sf_PID, tables, processes>>

-----------------------------------------------------------------------------
(* $Close and DOS_CLOSE with FREE_SFT, up to the disk: the handle is given *)
(* up, the last reference makes the entry busy.                            *)
CloseHandle(h, next) ==
  LET s == Current[h]
      n == sf_ref_count[s]
  IN  /\ SetHandle(CurrentPDB, h, Unused)
      /\ SetCount(s, IF n = 1 THEN Busy ELSE n - 1)
      /\ call' = [next EXCEPT !.op = "close", !.sfn = s, !.old = n]

CloseBegins ==
  /\ call.op = "user"
  /\ \E h \in HandleNumbers : Valid(h) /\ CloseHandle(h, User)
  /\ UNCHANGED <<sf_PID, tables, processes, mark>>

(* Mutant: the entry is freed one reference too early. *)
CloseEndsEarly ==
  /\ call.op = "close"
  /\ IF call.old <= 2 THEN SetCount(call.sfn, 0) ELSE UNCHANGED sf_ref_count
  /\ call' = IF call.back = "user" THEN User ELSE [call EXCEPT !.op = call.back]
  /\ UNCHANGED <<sf_PID, jfn, tables, processes, mark>>

(* CloseFinish, after the directory has been written or not. *)
CloseEnds ==
  /\ call.op = "close"
  /\ IF call.old = 1 THEN SetCount(call.sfn, 0) ELSE UNCHANGED sf_ref_count
  /\ call' = IF call.back = "user" THEN User ELSE [call EXCEPT !.op = call.back]
  /\ UNCHANGED <<sf_PID, jfn, tables, processes, mark>>

-----------------------------------------------------------------------------
(* $DUP. *)
Dup ==
  /\ call.op = "user"
  /\ \E h, g \in HandleNumbers :
       /\ FirstVacant(g) /\ Valid(h)
       /\ SetCount(Current[h], sf_ref_count[Current[h]] + 1)
       /\ SetHandle(CurrentPDB, g, Current[h])
  /\ UNCHANGED <<sf_PID, tables, processes, mark, call>>

(* Mutant: an open target is written over. *)
Dup2BeginsUnclosed ==
  /\ call.op = "user"
  /\ \E h, g \in HandleNumbers :
       /\ g < JFN_Length[CurrentPDB]
       /\ call' = [User EXCEPT !.op = "dup2", !.from = h, !.to = g]
  /\ UNCHANGED <<files, jfn, tables, processes, mark>>

(* $DUP2 closes its target, if that is open, before it looks at the source. *)
Dup2Begins ==
  /\ call.op = "user"
  /\ \E h, g \in HandleNumbers :
       LET next == [User EXCEPT !.back = "dup2", !.from = h, !.to = g]
       IN  /\ g < JFN_Length[CurrentPDB]
           /\ IF Valid(g) THEN CloseHandle(g, next)
              ELSE call' = [next EXCEPT !.op = "dup2"] /\ UNCHANGED <<sf_ref_count, jfn>>
  /\ UNCHANGED <<sf_PID, tables, processes, mark>>

Dup2Ends ==
  /\ call.op = "dup2"
  /\ IF Valid(call.from)
       THEN /\ SetCount(Current[call.from], sf_ref_count[Current[call.from]] + 1)
            /\ SetHandle(CurrentPDB, call.to, Current[call.from])
       ELSE UNCHANGED <<sf_ref_count, jfn>>
  /\ call' = User
  /\ UNCHANGED <<sf_PID, tables, processes, mark>>

-----------------------------------------------------------------------------
(* Mutant: the block of the old table is not given back. *)
ExtHandleKeepsBlock ==
  LET p == CurrentPDB IN
  /\ call.op = "user"
  /\ \E n \in FilPerProc..MaxHandles :
       /\ n # JFN_Length[p]
       /\ \A h \in HandleNumbers : n <= h => Current[h] = Unused
       /\ JFN_Length' = [JFN_Length EXCEPT ![p] = n]
       /\ \E new \in {b \in Blocks : owner[b] = Nobody} \cup {Psp} :
            /\ (new = Psp) <=> (n = FilPerProc)
            /\ JFN_Pointer' = [JFN_Pointer EXCEPT ![p] = new]
            /\ owner' = [b \in Blocks |-> IF b = new THEN p ELSE owner[b]]
  /\ UNCHANGED <<files, jfn, processes, mark, call>>

(* $ExtHandle: a table of another size, in the PSP or in a block of its    *)
(* own; the block of the old one is given back.  Handles beyond the new    *)
(* size must be closed.                                                    *)
ExtHandle ==
  LET p == CurrentPDB IN
  /\ call.op = "user"
  /\ \E n \in FilPerProc..MaxHandles :
       /\ n # JFN_Length[p]
       /\ \A h \in HandleNumbers : n <= h => Current[h] = Unused
       /\ JFN_Length' = [JFN_Length EXCEPT ![p] = n]
       /\ \E new \in {b \in Blocks : owner[b] = Nobody} \cup {Psp} :
            /\ (new = Psp) <=> (n = FilPerProc)
            /\ JFN_Pointer' = [JFN_Pointer EXCEPT ![p] = new]
            /\ owner' = [b \in Blocks |-> IF b = new THEN p
                                          ELSE IF b = JFN_Pointer[p] THEN Nobody
                                          ELSE owner[b]]
  /\ UNCHANGED <<files, jfn, processes, mark, call>>

-----------------------------------------------------------------------------
(* EXEC opens and closes the program file, then $Dup_PDB goes through the  *)
(* first handles of the parent.                                            *)
ExecBegins ==
  /\ call.op = "user"
  /\ \E s \in Sfts :
       /\ FirstUsable(s)
       /\ SetCount(s, 0)
       /\ sf_PID' = [sf_PID EXCEPT ![s] = CurrentPDB]
  /\ \E h \in HandleNumbers : Vacant(h)
  /\ mark' = Unmarked
  /\ \/ \E p \in Processes :
          /\ status[p] = "none"
          /\ jfn' = [jfn EXCEPT ![p] = NoHandles]
          /\ call' = [User EXCEPT !.op = "exec", !.child = p]
     \/ UNCHANGED <<jfn, call>>             \* no memory, or not a program
  /\ UNCHANGED <<tables, processes>>

(* One handle: inherited unless it is unused or its file says otherwise    *)
(* (sf_no_inherit, which is left open).                                    *)
Inherit ==
  LET h == call.left
      s == Current[h]
  IN  /\ call.op = "exec" /\ h < FilPerProc
      /\ \/ /\ Current[h] # Unused
            /\ SetCount(s, sf_ref_count[s] + 1)
            /\ SetHandle(call.child, h, s)
         \/ UNCHANGED <<sf_ref_count, jfn>>
      /\ call' = [call EXCEPT !.left = h + 1]
      /\ UNCHANGED <<sf_PID, tables, processes, mark>>

ExecEnds ==
  LET p == call.child IN
  /\ call.op = "exec" /\ call.left = FilPerProc
  /\ status' = [status EXCEPT ![p] = "live"]
  /\ parent' = [parent EXCEPT ![p] = CurrentPDB]
  /\ CurrentPDB' = p
  /\ JFN_Length' = [JFN_Length EXCEPT ![p] = FilPerProc]
  /\ JFN_Pointer' = [JFN_Pointer EXCEPT ![p] = Psp]
  /\ call' = User
  /\ UNCHANGED <<files, jfn, owner, mark>>

-----------------------------------------------------------------------------
(* exit_inner and reset_environment: a process that is its own parent goes *)
(* on; another one has its memory freed, and DOS_ABORT closes its handles, *)
(* the last one first.                                                     *)
LeaveProcess ==
  IF CurrentPDB = Root
    THEN call' = User /\ UNCHANGED owner
    ELSE /\ call' = [User EXCEPT !.op = "exit", !.left = JFN_Length[CurrentPDB]]
         /\ owner' = [b \in Blocks |-> IF owner[b] = CurrentPDB THEN Nobody ELSE owner[b]]

Exit ==
  /\ call.op = "user" /\ CurrentPDB # Root
  /\ LeaveProcess
  /\ UNCHANGED <<files, jfn, JFN_Length, JFN_Pointer, processes, mark>>

ExitCloses ==
  /\ call.op = "exit" /\ call.left > 0
  /\ LET h == call.left - 1
         next == [call EXCEPT !.back = "exit", !.left = h]
     IN  IF Valid(h) THEN CloseHandle(h, next)
         ELSE call' = next /\ UNCHANGED <<sf_ref_count, jfn>>
  /\ UNCHANGED <<sf_PID, tables, processes, mark>>

(* Mutant: only entries that an open left busy. *)
ExitEndsBusyOnly ==
  /\ call.op = "exit" /\ call.left = 0
  /\ sf_ref_count' = [s \in Sfts |-> IF sf_PID[s] = CurrentPDB /\ sf_ref_count[s] = Busy
                                     THEN 0 ELSE sf_ref_count[s]]
  /\ status' = [status EXCEPT ![CurrentPDB] = "none"]
  /\ CurrentPDB' = parent[CurrentPDB]
  /\ parent' = [parent EXCEPT ![CurrentPDB] = Root]
  /\ JFN_Length' = [JFN_Length EXCEPT ![CurrentPDB] = FilPerProc]
  /\ JFN_Pointer' = [JFN_Pointer EXCEPT ![CurrentPDB] = Psp]
  /\ jfn' = [jfn EXCEPT ![CurrentPDB] = NoHandles]
  /\ call' = User
  /\ UNCHANGED <<sf_PID, owner, mark>>

(* The rest of DOS_ABORT: entries the process opened and that are not free. *)
(* Its PSP is free memory now.                                             *)
ExitEnds ==
  /\ call.op = "exit" /\ call.left = 0
  /\ sf_ref_count' = [s \in Sfts |-> IF sf_PID[s] = CurrentPDB THEN 0 ELSE sf_ref_count[s]]
  /\ status' = [status EXCEPT ![CurrentPDB] = "none"]
  /\ CurrentPDB' = parent[CurrentPDB]
  /\ parent' = [parent EXCEPT ![CurrentPDB] = Root]
  /\ JFN_Length' = [JFN_Length EXCEPT ![CurrentPDB] = FilPerProc]
  /\ JFN_Pointer' = [JFN_Pointer EXCEPT ![CurrentPDB] = Psp]
  /\ jfn' = [jfn EXCEPT ![CurrentPDB] = NoHandles]
  /\ call' = User
  /\ UNCHANGED <<sf_PID, owner, mark>>

(* $Keep_process: back to the parent with nothing closed. *)
Keep ==
  /\ call.op = "user" /\ CurrentPDB # Root
  /\ KeepsInherited \/ \A h \in HandleNumbers :
       Valid(h) => sf_PID[Current[h]] \in {CurrentPDB, Root}
  /\ status' = [status EXCEPT ![CurrentPDB] = "resident"]
  /\ CurrentPDB' = parent[CurrentPDB]
  /\ UNCHANGED <<files, jfn, tables, parent, mark, call>>

-----------------------------------------------------------------------------
(* A hard error in a call that reads or writes the disk: FATALC takes back *)
(* the handle of the open that is marked, because INT 24 may not return.   *)
OnDisk == call.op \in {"user", "open", "close"}

Aborting == call.back = "exit"          \* fAborting

(* Retry, Ignore or Fail: CleanUp puts the marked handle back. *)
ErrorAnswered ==
  /\ OnDisk /\ mark # Unmarked
  /\ ErrorsWhileMarked \/ call.op = "open" \/ Aborting
  /\ SetHandle(mark.psp, mark.h, mark.sfn)
  /\ UNCHANGED <<files, tables, processes, mark, call>>

(* Abort: the mark stays. *)
ErrorAborts ==
  /\ OnDisk /\ ~Aborting
  /\ ErrorsWhileMarked \/ call.op = "open" \/ mark = Unmarked
  /\ IF mark # Unmarked THEN SetHandle(mark.psp, mark.h, Unused) ELSE UNCHANGED jfn
  /\ LeaveProcess
  /\ UNCHANGED <<files, JFN_Length, JFN_Pointer, processes, mark>>

-----------------------------------------------------------------------------
Next ==
  \/ OpenBegins \/ OpenRefused \/ OpenSucceeds \/ OpenFails
  \/ CloseBegins \/ CloseEnds
  \/ Dup \/ Dup2Begins \/ Dup2Ends \/ ExtHandle
  \/ ExecBegins \/ Inherit \/ ExecEnds
  \/ Exit \/ ExitCloses \/ ExitEnds \/ Keep
  \/ ErrorAnswered \/ ErrorAborts

Spec == Init /\ [][Next]_vars

-----------------------------------------------------------------------------
Alive(p) == status[p] # "none" \/ (call.op = "exec" /\ call.child = p)

(* A process gives its handles up when it begins to end. *)
Ending(p) == p = CurrentPDB /\ "exit" \in {call.op, call.back}

(* The handles that stand for entry s. *)
Reach(s) ==
  {r \in Processes \X HandleNumbers : Alive(r[1]) /\ jfn[r[1]][r[2]] = s}

(* Between two calls the reference count of an entry is the number of      *)
(* handles, of whatever process, that stand for it, however they came to   *)
(* and whatever calls were cut short by a hard error.                      *)
CountsAgree ==
  call.op = "user" =>
    \A s \in Sfts :
      IF sf_ref_count[s] > 0 THEN sf_ref_count[s] = Cardinality(Reach(s))
      ELSE Reach(s) = {}

(* No entry is lost: one that no handle stands for is free, or busy for a  *)
(* process that can still open it (SFNFree) or free it when it ends.       *)
NoSftLost ==
  call.op = "user" =>
    \A s \in Sfts :
      Reach(s) = {} => \/ sf_ref_count[s] = 0
                      \/ (sf_ref_count[s] = Busy /\ status[sf_PID[s]] # "none")

(* A handle table lies in the PSP or in the one block that its process     *)
(* owns, with no handle in use past its end, and a process that has ended  *)
(* owns no block ($ExtHandle, arena_free_process before DOS_ABORT).        *)
TableInPlace ==
  /\ \A p \in Processes : Alive(p) /\ ~Ending(p) /\ call.op # "exec" =>
       /\ {b \in Blocks : owner[b] = p} = {JFN_Pointer[p]} \ {Psp}
       /\ (JFN_Pointer[p] = Psp) <=> (JFN_Length[p] = FilPerProc)
       /\ \A h \in HandleNumbers : JFN_Length[p] <= h => jfn[p][h] = Unused
  /\ \A b \in Blocks : owner[b] # Nobody => Alive(owner[b])

Bound ==
  [p \in Processes |-> IF Alive(p) /\ ~Ending(p) THEN jfn[p] ELSE NoHandles]

Opening == IF call.op = "open" THEN call.sfn ELSE Unused

Promise == INSTANCE OpenFiles WITH Files <- Sfts, bound <- Bound, opening <- Opening

(* Reference counts, busy marks and both scans do not show through:        *)
(* an open gets an entry that no handle of any process stands for, so a    *)
(* handle keeps its file until it is closed (SFNFree, DOS_CLOSE, DOS_ABORT *)
(* and $Dup_PDB against OpenFiles).                                        *)
HandlesKeepFile == Promise!Spec
=============================================================================
