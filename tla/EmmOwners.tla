------------------------------ MODULE EmmOwners ------------------------------
(***************************************************************************)
(* What an expanded memory manager promises its callers, whatever arrays   *)
(* it keeps: a handle's logical pages are a list of physical pages, a call *)
(* changes the list of the one handle it names, growing adds unowned pages *)
(* behind the ones the handle has, shrinking drops pages from the end, and *)
(* so no logical page ever changes the physical page behind it.            *)
(***************************************************************************)
EXTENDS Integers, Sequences

CONSTANTS Handles, Pages

VARIABLE owned          \* [Handles -> Seq(Pages)]

Owner(p) == {h \in Handles : \E k \in 1..Len(owned[h]) : owned[h][k] = p}

Init ==
  /\ owned \in [Handles -> Seq(Pages)]
  /\ \A h \in Handles : h # 0 => owned[h] = <<>>

SameFor(others) == \A g \in others : owned'[g] = owned[g]

(* The first n logical pages of h stay where they are. *)
KeepsFirst(h, n) == \A k \in 1..n : owned'[h][k] = owned[h][k]

Grow(h) ==
  /\ Len(owned'[h]) > Len(owned[h])
  /\ KeepsFirst(h, Len(owned[h]))
  /\ \A k \in (Len(owned[h]) + 1)..Len(owned'[h]) :
       /\ owned'[h][k] \in Pages
       /\ Owner(owned'[h][k]) = {}
       /\ \A l \in (Len(owned[h]) + 1)..Len(owned'[h]) :
            owned'[h][k] = owned'[h][l] => k = l

Shrink(h) ==
  /\ Len(owned'[h]) < Len(owned[h])
  /\ KeepsFirst(h, Len(owned'[h]))

Next ==
  /\ owned' \in [Handles -> Seq(Pages)]
  /\ \E h \in Handles : SameFor(Handles \ {h}) /\ (Grow(h) \/ Shrink(h))

Spec == Init /\ [][Next]_owned
=============================================================================
