---------------------------- MODULE MCStackPool ----------------------------
(* Instances of StackPool for TLC: the configurations give its constants   *)
(* values; a table of three or four entries stands for the 8 to 64.        *)
EXTENDS StackPool
=============================================================================
