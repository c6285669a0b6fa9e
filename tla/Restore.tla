------------------------------- MODULE Restore -------------------------------
(***************************************************************************)
(* RESTORE of the new format: everything (\*.* /S) or one file by name.    *)
(* The search in a control file reads ahead, a file that was split goes on *)
(* on the diskette inserted next, and the user may insert any diskette of  *)
(* the set, and keep it in against the warning.                            *)
(***************************************************************************)
EXTENDS BackupSet

CONSTANTS
  All,        \* the file specification \*.* with /S; else a file
  NoFile

VARIABLES
  rs,         \* RESTORE: its place, the search and its result
  dest,       \* the destination files, NoFile or a sequence
  strayed     \* history: a diskette was accepted out of sequence

restoreVars == <<rs, dest, strayed>>

NoHeader == [kind |-> "file", file |-> 0, seq |-> 1, off |-> 0, part |-> 0,
             last |-> TRUE, complete |-> FALSE]

\* The search: block and file header last read, position of the next read,
\* numentry, done_searching, and the outcome of the last step.
NoSearch == [block |-> DirBlock(RootDir), head |-> NoHeader, pos |-> 1, left |-> 0,
             done |-> FALSE, outcome |-> "none", item |-> NoHeader, dir |-> RootDir]

Idle == [pc |-> "idle", spec |-> All, want |-> 1, drive |-> 0, warned |-> FALSE,
         outOfSeq |-> FALSE, firstFile |-> TRUE, split |-> FALSE, search |-> NoSearch,
         seq |-> 1, found |-> FALSE, partial |-> FALSE, result |-> "none"]

RestoreInit ==
  /\ rs = Idle /\ strayed = FALSE
  /\ dest = [f \in Files |-> NoFile]

-----------------------------------------------------------------------------
\* Reading the control file of target d.

\* At the end of the file nothing is read and the header is the one before; a
\* block that stands there has nothing where the flag of a complete file is.
ReadFileHeader(d, c) ==
  [c EXCEPT !.head = CASE c.pos \notin DOMAIN d.ctl -> @
                       [] c.pos \in Blocks(d) -> NoHeader
                       [] OTHER -> d.ctl[c.pos],
            !.pos = @ + 1]

\* A block, then the length of the file header behind it, which must be there.
ReadDirBlock(d, c, i) ==
  IF i < Len(d.ctl) THEN [c EXCEPT !.block = d.ctl[i], !.pos = i + 1]
  ELSE [c EXCEPT !.outcome = "refused"]

Less(n) == IF n > 0 THEN n - 1 ELSE 0

\* A specification is a path, with or without /S, and a name; a file that is
\* continued is searched by its path and name, with the switches as they are.
PathMatches(spec, path, dir) == dir = path \/ (spec = All /\ path = RootDir)
NameMatches(name, f) == name = All \/ name = f

\* The file header just matched: step over it, reading ahead.
Take(d, c) ==
  LET t == [c EXCEPT !.outcome = "file", !.item = c.head, !.dir = c.block.dir,
                     !.left = Less(c.left)]
  IN  IF t.left > 0 THEN ReadFileHeader(d, t)
      ELSE IF t.block.next = LastBlock THEN [t EXCEPT !.done = TRUE]
      ELSE LET n == ReadDirBlock(d, t, t.block.next)
           IN  IF n.outcome = "refused" THEN n
               ELSE [ReadFileHeader(d, n) EXCEPT !.left = n.block.entries]

RECURSIVE SearchBlocks(_, _, _, _, _)
RECURSIVE SearchHeaders(_, _, _, _, _)

\* findfile_new and findnext_new, in and after the current block
NextBlock(d, c, spec, path, name) ==
  IF c.block.next = LastBlock THEN [c EXCEPT !.outcome = "none", !.done = TRUE]
  ELSE LET n == ReadDirBlock(d, c, c.block.next)
       IN  IF n.outcome = "refused" THEN n ELSE SearchBlocks(d, n, spec, path, name)
SearchBlocks(d, c, spec, path, name) ==
  IF ~PathMatches(spec, path, c.block.dir) THEN NextBlock(d, c, spec, path, name)
  ELSE SearchHeaders(d, [ReadFileHeader(d, c) EXCEPT !.left = c.block.entries], spec, path, name)
SearchHeaders(d, c, spec, path, name) ==
  IF c.head.complete /\ NameMatches(name, c.head.file) THEN Take(d, c)
  ELSE LET m == [c EXCEPT !.left = Less(@)]
       IN  IF m.left > 0 THEN SearchHeaders(d, ReadFileHeader(d, m), spec, path, name)
           ELSE NextBlock(d, m, spec, path, name)

\* findfirst_new; the first block stands behind the disk header.
FindFirst(d, c, spec, path, name) ==
  LET n == ReadDirBlock(d, [c EXCEPT !.outcome = "none", !.done = FALSE], 2)
  IN  IF n.outcome = "refused" THEN n ELSE SearchBlocks(d, n, spec, path, name)

FindNextNew(d, c, spec, path, name) ==
  IF PathMatches(spec, path, c.block.dir) THEN SearchHeaders(d, c, spec, path, name)
  ELSE NextBlock(d, c, spec, path, name)

-----------------------------------------------------------------------------
Drive == disks[rs.drive]
SpecPath == IF rs.spec = All THEN RootDir ELSE DirOf[rs.spec]
Exit(r, result) == [r EXCEPT !.pc = "over", !.result = result]

\* RESTORE is started with a diskette in the drive.
Restores(spec, i) ==
  /\ rs.pc = "idle"
  /\ rs' = IF disks = <<>> THEN Exit(rs, "refused")
           ELSE [rs EXCEPT !.pc = "check", !.spec = spec, !.drive = i]
  /\ UNCHANGED <<dest, strayed, disks>>

\* "Insert backup diskette nn", and the key struck after a warning.
Insert(i) ==
  /\ rs.pc \in {"insert", "warned"}
  /\ rs' = [rs EXCEPT !.pc = "check", !.drive = i]
  /\ UNCHANGED <<dest, strayed, disks>>

\* check_bkdisk_new: the number is not looked at again after the warning.
CheckDisk ==
  /\ rs.pc = "check"
  /\ IF rs.drive # rs.want /\ ~rs.warned
     THEN rs' = [rs EXCEPT !.pc = "warned", !.warned = TRUE] /\ UNCHANGED strayed
     ELSE /\ rs' = [rs EXCEPT !.pc = IF rs.split THEN "continue" ELSE "first",
                              !.want = rs.drive + 1, !.warned = FALSE,
                              !.outOfSeq = @ \/ rs.warned]
          /\ strayed' = (strayed \/ rs.drive # rs.want)
  /\ UNCHANGED <<dest, disks>>

\* The end of search_src_disk_new, and the test in the loop of dorestore.
DiskSearched(r) ==
  LET more == ~Drive.ctl[1].last /\ (r.spec = All \/ ~r.found)
  IN  IF more THEN [r EXCEPT !.pc = "insert", !.outOfSeq = FALSE, !.split = FALSE]
      ELSE Exit(r, IF r.found THEN "normal" ELSE "no files")

Searched(c) ==
  LET r == [rs EXCEPT !.search = c]
  IN  CASE c.outcome = "file" -> [r EXCEPT !.pc = "matched"]
        [] c.outcome = "none" -> DiskSearched(r)
        [] c.outcome = "refused" -> Exit(r, "refused")

SearchDisk ==
  /\ rs.pc = "first"
  /\ rs' = [Searched(FindFirst(Drive, rs.search, rs.spec, SpecPath, rs.spec)) EXCEPT !.firstFile = TRUE]
  /\ UNCHANGED <<dest, strayed, disks>>

SearchOn ==
  /\ rs.pc = "next"
  /\ rs' = IF rs.search.done THEN DiskSearched(rs)
           ELSE Searched(FindNextNew(Drive, rs.search, rs.spec, SpecPath, rs.spec))
  /\ UNCHANGED <<dest, strayed, disks>>

\* A file was found; the first of a diskette out of sequence may be a later part.
SkipLaterPart ==
  /\ rs.pc = "matched"
  /\ rs.outOfSeq /\ rs.firstFile /\ rs.search.item.seq # 1
  /\ rs' = [rs EXCEPT !.pc = "next"]
  /\ UNCHANGED <<dest, strayed, disks>>

BadSequence ==
  /\ rs.pc = "matched"
  /\ rs.search.item.seq # 1 /\ ~(rs.outOfSeq /\ rs.firstFile)
  /\ rs' = Exit(rs, "refused")
  /\ UNCHANGED <<dest, strayed, disks>>

\* open_dest_file creates the file, or cuts the one that is there to nothing.
OpenDestFile ==
  /\ rs.pc = "matched" /\ rs.search.item.seq = 1
  /\ dest' = [dest EXCEPT ![rs.search.item.file] = <<>>]
  /\ rs' = [rs EXCEPT !.pc = "copy", !.partial = TRUE, !.seq = 1]
  /\ UNCHANGED <<strayed, disks>>

\* The data of one part; what the data file lacks is not noticed.
CopyPart ==
  /\ rs.pc = "copy"
  /\ LET item == rs.search.item
     IN  /\ dest' = [dest EXCEPT ![item.file] = @ \o Part(Drive, item)]
         /\ rs' = IF item.last
                  THEN [rs EXCEPT !.pc = "next", !.partial = FALSE, !.found = TRUE,
                                  !.firstFile = FALSE, !.split = FALSE]
                  ELSE [rs EXCEPT !.pc = "insert", !.split = TRUE]
  /\ UNCHANGED <<strayed, disks>>

\* The file goes on on this diskette, or RESTORE stops, leaving what it has.
ContinueFile ==
  /\ rs.pc = "continue"
  /\ LET c == FindFirst(Drive, rs.search, rs.spec, rs.search.dir, rs.search.item.file)
     IN  rs' = IF c.outcome = "file" /\ c.item.seq = rs.seq + 1
               THEN [rs EXCEPT !.pc = "copy", !.search = c, !.seq = @ + 1]
               ELSE Exit(rs, "refused")
  /\ UNCHANGED <<dest, strayed, disks>>

\* Mutant: the destination file is closed, and not deleted.
InterruptedKeeps ==
  /\ rs.pc \in {"insert", "warned", "matched", "copy"}
  /\ rs' = Exit([rs EXCEPT !.partial = FALSE], "break")
  /\ UNCHANGED <<dest, strayed, disks>>

\* signal_handler_routine, at a prompt or while the name of a file is shown
Interrupted ==
  /\ rs.pc \in {"insert", "warned", "matched", "copy"}
  /\ rs' = Exit([rs EXCEPT !.partial = FALSE], "break")
  /\ dest' = IF rs.partial THEN [dest EXCEPT ![rs.search.item.file] = NoFile] ELSE dest
  /\ UNCHANGED <<strayed, disks>>

Proceed ==
  \/ CheckDisk \/ SearchDisk \/ SearchOn
  \/ SkipLaterPart \/ BadSequence \/ OpenDestFile \/ CopyPart \/ ContinueFile \/ Interrupted
=============================================================================
