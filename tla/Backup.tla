-------------------------------- MODULE Backup --------------------------------
(***************************************************************************)
(* BACKUP: files found in directory order are copied, a buffer at a time,  *)
(* to a target that may fill up at any of them; then, unless it is a hard  *)
(* disk, the file goes on on the next.  A session is one run of BACKUP;    *)
(* those after the first add to the set (/A).                              *)
(*                                                                         *)
(* Ctrl-C is seen where BACKUP writes to the console (BREAK=OFF).  Only    *)
(* fresh diskettes are inserted, with room for what is written at once.    *)
(***************************************************************************)
EXTENDS BackupSet, FiniteSetsExt

CONSTANTS
  Jobs,       \* [hard, sessions]: a session says which files were written to since
              \* the one before, and whether /M is given
  Rooms,      \* clusters of a target
  Buffer      \* units copied at once

ASSUME BackupAssumption ==
  /\ Buffer \in Nat \ {0}
  /\ \A r \in Rooms : r * ClusterUnits >= Buffer + 5 * ClusterUnits

VARIABLES
  job, session,
  written,    \* of each file the session before which it was last written
  archive,    \* its archive bit
  saved,      \* history: the versions whose archive bit a session has reset
  bk          \* the globals of BACKUP.C, its place in do_backup and its result

source == <<job, session, written, archive>>
backupVars == <<source, saved, bk>>

Start == [pc |-> "start", file |-> 1, newDirectory |-> TRUE, first |-> TRUE, count |-> 0,
          db |-> 0, fh |-> 0, full |-> FALSE, spans |-> FALSE, seq |-> 1,
          part |-> 0, cumul |-> 0, rest |-> 0, result |-> "none"]

Adding == session > 1
ThisSession == job.sessions[session]
Target == disks[Len(disks)]

BackupInit ==
  /\ disks = <<>>
  /\ job \in Jobs /\ session = 1
  /\ written = [f \in Files |-> 1] /\ archive = [f \in Files |-> TRUE]
  /\ saved = [f \in Files |-> {}]
  /\ bk = Start

\* see_if_it_should_be_backed_up, of the files after f
ToDo(f) == {g \in Files : g > f /\ (ThisSession.modified => archive[g])}

-----------------------------------------------------------------------------
\* The routines on the control file, on a state t = [b: globals, d: target].

UpdateDbEntries(t) ==
  LET d == SetEntries(t.d, t.b.db, t.b.count)
  IN  [t EXCEPT !.d = IF t.b.full THEN d ELSE SetNext(d, t.b.db, Eof(d))]

\* Mutant: the link is written behind the new block.
PutNewDbFirst(t) ==
  LET u == [t EXCEPT !.d = AddRecord(@, DirBlock(DirOf[t.b.file]))]
      v == IF t.b.count > 0 THEN UpdateDbEntries(u) ELSE u
  IN  [v EXCEPT !.b.db = Eof(t.d), !.b.newDirectory = FALSE, !.b.count = 0]

PutNewDb(t) ==
  LET u == IF t.b.count > 0 THEN UpdateDbEntries(t) ELSE t
  IN  [b |-> [u.b EXCEPT !.db = Eof(u.d), !.newDirectory = FALSE, !.count = 0],
       d |-> AddRecord(u.d, DirBlock(DirOf[u.b.file]))]

\* The target that was the last: the chain of its blocks is to go on at its end.
ChainBroken(d) == \E i \in Linked(d) : d.ctl[i].next > Len(d.ctl)
ChainEnd(d) == CHOOSE i \in Linked(d) : d.ctl[i].next = LastBlock
MarkAsNotLast(d) == SetNext(SetLast(d, FALSE), ChainEnd(d), Eof(d))
Reopens(t) == Adding /\ t.b.first /\ t.b.count = 0

PutNewFh(t) ==
  LET u == IF Reopens(t) THEN [t EXCEPT !.d = MarkAsNotLast(@)] ELSE t
      v == IF u.b.newDirectory THEN PutNewDb(u) ELSE u
      f == v.b.file
      left == IF v.b.spans THEN Size[f] - v.b.cumul ELSE Size[f]
  IN  [b |-> [v.b EXCEPT !.fh = Eof(v.d), !.spans = FALSE],
       d |-> AddRecord(v.d, FileHeader(f, v.b.seq, Len(v.d.data), left))]

PutDiskHeader(t) == PutNewDb([t EXCEPT !.d = AddRecord(@, DiskHeader)])

UpdateFhEntries(t) ==
  LET cut == job.hard /\ t.b.full
  IN  IF t.b.fh \notin DOMAIN t.d.ctl \/ t.b.fh = 0 THEN t
      ELSE [t EXCEPT !.d.ctl[t.b.fh].last = cut \/ ~t.b.spans,
                     !.d.ctl[t.b.fh].complete = ~cut,
                     !.d.ctl[t.b.fh].part = t.b.part]

\* Mutant: the parts of a file all have one number.
CloseOutSameNumber(t) ==
  LET b == [t.b EXCEPT !.full = TRUE, !.spans = @ \/ t.b.part # 0,
                       !.count = IF t.b.part # 0 THEN @ + 1 ELSE @]
      u == [b |-> b, d |-> IF b.count > 0 THEN SetEntries(t.d, b.db, b.count) ELSE t.d]
      v == UpdateFhEntries(u)
  IN  [v EXCEPT !.d = IF job.hard THEN SetLast(@, TRUE) ELSE @]

CloseOut(t) ==
  LET more == t.b.part # 0
      b == [t.b EXCEPT !.full = TRUE, !.spans = @ \/ more,
                       !.count = IF more THEN @ + 1 ELSE @]
      u == [b |-> b, d |-> IF b.count > 0 THEN SetEntries(t.d, b.db, b.count) ELSE t.d]
      v == UpdateFhEntries(u)
  IN  [b |-> [b EXCEPT !.seq = IF b.spans THEN @ + 1 ELSE @],
       d |-> IF job.hard THEN SetLast(v.d, TRUE) ELSE v.d]

\* clean_up_and_exit: with the control file open it is made the last of the
\* set; a session that has counted nothing deletes the target again.
CleanUp(t, open, result) ==
  LET u == IF open THEN UpdateFhEntries([t EXCEPT !.d = SetEntries(SetLast(@, TRUE), t.b.db, t.b.count)])
           ELSE t
      deletes == t.b.count = 0 /\ ~Adding
  IN  /\ bk' = [u.b EXCEPT !.pc = "over", !.result = result]
      /\ disks' = IF deletes /\ job.hard THEN <<>>
                  ELSE IF deletes /\ open THEN SubSeq(disks, 1, Len(disks) - 1)
                  ELSE [disks EXCEPT ![Len(disks)] = u.d]

Becomes(t) == bk' = t.b /\ disks' = [disks EXCEPT ![Len(disks)] = t.d]
State == [b |-> bk, d |-> Target]

\* find_next_file
FindNext(t) ==
  LET f == t.b.file
  IN  IF ToDo(f) = {} THEN CleanUp(t, TRUE, "done")
      ELSE LET g == Min(ToDo(f))
           IN  Becomes([t EXCEPT !.b.file = g, !.b.pc = "open",
                                 !.b.newDirectory = @ \/ DirOf[f] # DirOf[g]])

-----------------------------------------------------------------------------
\* get_first_target, without /A: a fresh diskette, or an empty \BACKUP.
FirstTarget(room) ==
  /\ bk.pc = "start" /\ ~Adding /\ ToDo(0) # {}
  /\ LET b == [bk EXCEPT !.file = Min(ToDo(0)), !.pc = "open"]
         t == PutDiskHeader([b |-> b, d |-> Empty(room)])
     IN  bk' = t.b /\ disks' = <<t.d>>
  /\ UNCHANGED <<source, saved>>

\* get_first_target, with /A: check_last_target accepts only the last diskette.
AddToTarget(i) ==
  /\ bk.pc = "start" /\ Adding /\ ToDo(0) # {}
  /\ bk' = IF i \in DOMAIN disks /\ (job.hard \/ disks[i].ctl[1].last)
           THEN [bk EXCEPT !.file = Min(ToDo(0)), !.pc = "open"]
           ELSE [bk EXCEPT !.pc = "over", !.result = "not the last"]
  /\ UNCHANGED <<source, saved, disks>>

NoFiles ==
  /\ bk.pc = "start" /\ ToDo(0) = {}
  /\ bk' = [bk EXCEPT !.pc = "over", !.result = "no files"]
  /\ UNCHANGED <<source, saved, disks>>

OpenSourceFile ==
  /\ bk.pc = "open"
  /\ LET t == [State EXCEPT !.b.seq = 1, !.b.spans = FALSE]
     IN  IF Reopens(t) /\ ChainBroken(t.d)    \* mark_as_not_last_target finds no end
         THEN bk' = [bk EXCEPT !.pc = "over", !.result = "hung"] /\ UNCHANGED disks
         ELSE LET u == PutNewFh(t)
              IN  Becomes([u EXCEPT !.b.pc = "copy", !.b.part = 0, !.b.cumul = 0])
  /\ UNCHANGED <<source, saved>>

FileSharingError ==
  /\ bk.pc = "open"
  /\ FindNext([State EXCEPT !.b.seq = 1, !.b.spans = FALSE])
  /\ UNCHANGED <<source, saved>>

\* write_to_target, up to the request for the next diskette.
WriteToTarget ==
  /\ bk.pc = "copy" /\ bk.cumul < Size[bk.file]
  /\ LET n == Min({Buffer, Size[bk.file] - bk.cumul})
         fits == Fits(Target, Len(Target.data), n)
         k == IF fits THEN n ELSE FreeClusters(Target) * ClusterUnits
         bytes == SubSeq(Content(bk.file, written[bk.file]), bk.cumul + 1, bk.cumul + k)
         t == [b |-> [bk EXCEPT !.part = @ + k, !.cumul = @ + k, !.rest = n - k],
               d |-> AddData(Target, bytes)]
     IN  IF fits THEN Becomes(t)
         ELSE IF job.hard THEN CleanUp(CloseOut(t), FALSE, "full")
         ELSE Becomes([CloseOut(t) EXCEPT !.b.pc = "insert"])
  /\ UNCHANGED <<source, saved>>

\* get_next_target, then the rest of the buffer, whose write is not checked.
GetNextTarget(room) ==
  /\ bk.pc = "insert"
  /\ LET b == [bk EXCEPT !.first = FALSE, !.count = 0, !.full = FALSE, !.pc = "copy"]
         t == PutNewFh(PutDiskHeader([b |-> b, d |-> Empty(room)]))
         bytes == SubSeq(Content(bk.file, written[bk.file]), bk.cumul + 1, bk.cumul + bk.rest)
         d == AddData(t.d, bytes)
         k == Len(d.data)
     IN  /\ bk' = [t.b EXCEPT !.part = k, !.cumul = @ + k, !.rest = 0]
         /\ disks' = Append(disks, d)
  /\ UNCHANGED <<source, saved>>

\* The end of do_copy.
FileCopied ==
  /\ bk.pc = "copy" /\ bk.cumul = Size[bk.file]
  /\ FindNext([State EXCEPT !.b.count = @ + 1])
  /\ archive' = [archive EXCEPT ![bk.file] = FALSE]
  /\ saved' = [saved EXCEPT ![bk.file] = @ \cup {written[bk.file]}]
  /\ UNCHANGED <<job, session, written>>

\* Ctrl-C: at a prompt, or when the name of the next file is shown.
ControlBreak ==
  /\ bk.pc \in {"open", "insert"}
  /\ CleanUp([State EXCEPT !.b.count = IF bk.pc = "insert" THEN 0 ELSE @], bk.pc = "open", "break")
  /\ UNCHANGED <<source, saved>>

\* The user writes to some files and calls BACKUP again, with /A.
NextSession ==
  /\ bk.pc = "over" /\ session < Len(job.sessions)
  /\ session' = session + 1
  /\ LET touched == job.sessions[session + 1].touched
     IN  /\ written' = [f \in Files |-> IF f \in touched THEN session + 1 ELSE written[f]]
         /\ archive' = [f \in Files |-> f \in touched \/ archive[f]]
  /\ bk' = Start
  /\ UNCHANGED <<job, saved, disks>>

BackupNext ==
  \/ \E r \in Rooms : FirstTarget(r) \/ GetNextTarget(r)
  \/ \E i \in 1 .. Len(disks) + 1 : AddToTarget(i)
  \/ NoFiles \/ OpenSourceFile \/ FileSharingError
  \/ WriteToTarget \/ FileCopied \/ ControlBreak \/ NextSession
=============================================================================
