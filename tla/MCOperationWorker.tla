------------------------- MODULE MCOperationWorker -------------------------
(* Instances of OperationWorker for TLC. *)
EXTENDS OperationWorker, TLC

\* Operation rows are interchangeable (safety runs only).
Symmetry == Permutations(Ops)
=============================================================================
