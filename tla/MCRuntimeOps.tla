---------------------------- MODULE MCRuntimeOps ----------------------------
(***************************************************************************)
(* RuntimeOps with the bitwise operators of the community modules.         *)
(***************************************************************************)
EXTENDS RuntimeOps, Bitwise

AndOf(a, b) == a & b
OrOf(a, b)  == a | b
XorOf(a, b) == a ^^ b
=============================================================================
