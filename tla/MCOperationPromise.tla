------------------------- MODULE MCOperationPromise -------------------------
(* Instances of OperationPromise for TLC. *)
EXTENDS OperationPromise, TLC

\* Operation rows and workers are interchangeable.
Symmetry == Permutations(Ops) \cup Permutations(Workers)
=============================================================================
