------------------------------ MODULE MCArena ------------------------------
(* Instances of Arena for TLC. *)
EXTENDS Arena

(* A provider with two extents apart from each other, the first next to    *)
(* conventional memory, and extents the registration refuses: overlapping  *)
(* the arena, too small, reaching the end of the address space.            *)
MCExtents == {<<5, 4>>, <<11, 3>>, <<4, 4>>, <<10, 2>>, <<29, 3>>}

MCMethods == [fit : {"first"}, domain : Domains]
=============================================================================
