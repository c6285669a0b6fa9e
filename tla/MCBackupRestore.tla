--------------------------- MODULE MCBackupRestore ---------------------------
(* Two files in the root, of which the first may need three diskettes, and   *)
(* two in a subdirectory, one of them empty.                                 *)
EXTENDS BackupRestore

MCFiles == 1 .. 4
MCDirOf == <<0, 0, 1, 1>>
MCSize == <<17, 7, 0, 2>>

Only(modified, touched) == [modified |-> modified, touched |-> touched]
First == Only(FALSE, {})
MCJobs ==
  {[hard |-> h, sessions |-> <<First, s>>] :
     h \in BOOLEAN, s \in {Only(TRUE, {2}), Only(TRUE, {}), Only(TRUE, {3, 4}), Only(FALSE, {3})}}
=============================================================================
