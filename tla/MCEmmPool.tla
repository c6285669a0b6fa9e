------------------------------ MODULE MCEmmPool ------------------------------
(* A pool of three pages and three handles whose page indexes run to    *)
(* NullPage = 5, so that the indexes of handles without pages wrap.         *)
EXTENDS EmmPool
=============================================================================
