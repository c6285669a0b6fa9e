----------------------------- MODULE MCUmbBoot -----------------------------
(* Instances of UmbBoot for TLC. *)
EXTENDS UmbBoot

(* Two extents that can be registered, one that overlaps the first, one    *)
(* that lies inside conventional memory and one that is too small.         *)
MCExtents == {<<5, 4>>, <<10, 3>>, <<8, 4>>, <<2, 3>>, <<14, 2>>}
MCMethods == [fit : {"first"}, domain : {"low", "upper"}]
=============================================================================
