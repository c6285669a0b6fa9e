---------------------------- MODULE MCArenaScan ----------------------------
(* Instances of ArenaScan for TLC. *)
EXTENDS ArenaScan

MCExtents == {<<4, 5>>, <<10, 3>>}
MCMethods == [fit : {"best", "last"}, domain : {"fallback"}]
=============================================================================
