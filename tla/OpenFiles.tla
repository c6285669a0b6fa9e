------------------------------ MODULE OpenFiles ------------------------------
(***************************************************************************)
(* What DOS promises about file handles, whatever tables it keeps: a       *)
(* handle of a process is unused or stands for one open file.  An open     *)
(* binds a handle to a file that nobody has open, a duplication or an      *)
(* inheritance to one that another handle stands for, and the handle then  *)
(* stands for that file until it is closed or its process ends.            *)
(***************************************************************************)
CONSTANTS Processes, HandleNumbers, Files, Unused

VARIABLES
  bound,        \* [Processes -> [HandleNumbers -> Files \cup {Unused}]]
  opening       \* the file whose open is under way, or Unused

vars == <<bound, opening>>

Opened == {bound[p][h] : p \in Processes, h \in HandleNumbers} \ {Unused}

Bind(p, h, f) ==
  /\ bound[p][h] = Unused
  /\ bound' = [bound EXCEPT ![p][h] = f]

Unbind(p, h) == bound' = [bound EXCEPT ![p][h] = Unused]

Init ==
  /\ bound = [p \in Processes |-> [h \in HandleNumbers |-> Unused]]
  /\ opening = Unused

Open(p, h, f) ==
  /\ opening = Unused /\ f \notin Opened
  /\ Bind(p, h, f) /\ opening' = f

OpenDone == opening' = Unused /\ UNCHANGED bound

(* The open fails, or a hard error ends it. *)
OpenUndone(p, h) ==
  /\ bound[p][h] = opening
  /\ Unbind(p, h) /\ opening' = Unused

Share(p, h, f) ==
  /\ opening = Unused /\ f \in Opened
  /\ Bind(p, h, f) /\ UNCHANGED opening

Close(p, h) ==
  /\ opening = Unused
  /\ Unbind(p, h) /\ UNCHANGED opening

End(p) ==
  /\ bound' = [bound EXCEPT ![p] = [h \in HandleNumbers |-> Unused]]
  /\ opening' = Unused

Next ==
  \/ OpenDone
  \/ \E p \in Processes :
       \/ End(p)
       \/ \E h \in HandleNumbers :
            \/ OpenUndone(p, h) \/ Close(p, h)
            \/ \E f \in Files : Open(p, h, f) \/ Share(p, h, f)

Spec == Init /\ [][Next]_vars
=============================================================================
