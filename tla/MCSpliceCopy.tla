---------------------------- MODULE MCSpliceCopy ----------------------------
(* SpliceCopy for TLC: the copies are interchangeable, and so are the pipes. *)
EXTENDS SpliceCopy, TLC

SymmetricCopies == Permutations(Copies) \cup Permutations(Pipes)
===============================================================================
