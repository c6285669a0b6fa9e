----------------------------- MODULE MCLoadHigh -----------------------------
(* Instances of LoadHigh for TLC. *)
EXTENDS LoadHigh

MCExtents == {<<4, 3>>, <<8, 4>>}
MCMethods == [fit : {"best"}, domain : {"low"}]

MCProfiles ==
    {[mask |-> {1, 2}, minimum |-> <<1, 2>>, shrink |-> TRUE],
     [mask |-> {2}, minimum |-> <<0, 1>>, shrink |-> TRUE],
     [mask |-> {1}, minimum |-> <<1, 0>>, shrink |-> FALSE]}
=============================================================================
