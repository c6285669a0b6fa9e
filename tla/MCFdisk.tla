------------------------------ MODULE MCFdisk ------------------------------
(* Small instances of Fdisk for TLC. *)
EXTENDS Fdisk

\* No other system's partition, one in front of the free space, one behind it.
MCLayouts == {{}, {<<0, 0>>}, {<<TotalDisk - 1, TotalDisk - 1>>}}

MCForeign ==
  {[i \in PartIndexes |->
      IF i = 0 /\ layout # {}
      THEN LET p == CHOOSE p \in layout : TRUE
           IN  [sys |-> "foreign", start |-> p[1], end |-> p[2], active |-> FALSE]
      ELSE Unused] : layout \in MCLayouts}

ASSUME MCLayoutsFit == LayoutsFit

=============================================================================
