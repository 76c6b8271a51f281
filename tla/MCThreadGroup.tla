---------------------------- MODULE MCThreadGroup ----------------------------
(***************************************************************************)
(* Instances of ThreadGroup for TLC.                                       *)
(***************************************************************************)
EXTENDS ThreadGroup, TLC

\* The tasks of a Group are interchangeable: no action tells one from another.
\* So are the calls of Run.  Used where no liveness property is checked.
SymmetricGroup == Permutations(Tasks) \cup Permutations(Runs)
===============================================================================
