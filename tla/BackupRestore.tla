---------------------------- MODULE BackupRestore ----------------------------
(***************************************************************************)
(* BACKUP in one or more sessions, then RESTORE from what they left.       *)
(***************************************************************************)
EXTENDS Backup, Restore

CONSTANT Detours    \* how often the user may insert another diskette than the one asked for
VARIABLE detours

vars == <<disks, backupVars, restoreVars, detours>>

Init == BackupInit /\ RestoreInit /\ detours = 0

BackupStep == rs.pc = "idle" /\ BackupNext /\ UNCHANGED <<restoreVars, detours>>

\* A user may start with a wrong diskette, insert one, or heed the warning; to
\* keep the diskette in is the first detour still.
Wanted(i) == CASE rs.pc = "insert" -> i = rs.want
               [] rs.pc = "warned" -> i \in {rs.want, rs.drive}
               [] OTHER -> i = 1
Detour(i) == detours' = detours + (IF Wanted(i) THEN 0 ELSE 1) /\ detours' <= Detours

RestoreStep ==
  /\ bk.pc = "over"
  /\ \/ \E i \in DOMAIN disks \cup {1} : \E spec \in Files \cup {All} : Restores(spec, i) /\ Detour(i)
     \/ \E i \in DOMAIN disks : Insert(i) /\ Detour(i)
     \/ Proceed /\ UNCHANGED detours
  /\ UNCHANGED backupVars

Over == rs.pc = "over" \/ (rs.pc = "idle" /\ bk.result = "hung")
Next == BackupStep \/ RestoreStep \/ (Over /\ UNCHANGED vars)
Spec == Init /\ [][Next]_vars

-----------------------------------------------------------------------------
Faulty(F(_)) == \E i \in DOMAIN disks : F(disks[i])

\* Once BACKUP has come to an end by itself or by Ctrl-C, every version of a
\* file whose archive bit it has reset can be put together from the set by
\* what the format says: the sequences of parts, the counts of the blocks and
\* the offsets agree on every diskette, over a change of diskettes, of
\* directories and of sessions.  Left out: a control file that did not fit
\* and a hard disk from which the clean-up has deleted all.
SavedIsRestorable ==
  bk.pc = "over" /\ disks # <<>> /\ ~Faulty(Orphaned) /\ ~Faulty(Dangling) /\ ~Faulty(Headerless) =>
    \A f \in Files : \A g \in saved[f] : Holds(f, g)

\* A RESTORE that was not led astray leaves no file in part, whether it came
\* to its end or was stopped by Ctrl-C; at its end it has restored all files
\* in their latest saved version, or the file that was asked for in one of
\* its versions.
RestoredIsWhole ==
  LET sound == /\ ~strayed /\ disks # <<>>
               /\ ~Faulty(Orphaned) /\ ~Faulty(Headerless) /\ ~Faulty(Uncounted)
      versions(f) == {Content(f, g) : g \in saved[f]}
  IN  sound /\ rs.result \in {"normal", "no files", "break"} =>
        /\ \A f \in Files : dest[f] \in versions(f) \cup {NoFile}
        /\ rs.result # "break" => \A f \in Files :
             saved[f] # {} /\ rs.spec \in {f, All} =>
               dest[f] \in IF rs.spec = All THEN {Content(f, Max(saved[f]))} ELSE versions(f)

\* RESTORE gives up only on a set whose links are broken, on one whose sessions
\* left nothing, or because it was given a diskette out of sequence: what BACKUP
\* writes passes all its checks, those it makes when it reads ahead included.
RefusesOnlyBroken ==
  rs.result = "refused" => strayed \/ disks = <<>> \/ Faulty(Dangling) \/ Faulty(Orphaned)
=============================================================================
