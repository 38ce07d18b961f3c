------------------------------- MODULE MCFib -------------------------------
(***************************************************************************)
(* The routing table with short addresses and a pool that two routes       *)
(* exhaust.  The devices are interchangeable, and no property is a         *)
(* liveness property, so their symmetry is sound.                          *)
(***************************************************************************)
EXTENDS Fib, TLC

DevSymmetry == Permutations(Devs)
=============================================================================
