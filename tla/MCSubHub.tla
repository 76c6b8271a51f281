------------------------------- MODULE MCSubHub -------------------------------
(***************************************************************************)
(* Instances of SubHub for TLC.                                            *)
(***************************************************************************)
EXTENDS SubHub

\* No action tells subscribers apart, and no liveness property is checked with it.
SymmetricHub == Permutations(Subscribers) \cup Permutations(Topics)
===============================================================================
