------------------------------ MODULE MCPortal ------------------------------
(* Instances of Portal for TLC. *)
EXTENDS Portal, TLC

\* Requests, people, names and keys are interchangeable (user rows are named
\* after logins).
Symmetry ==
    Permutations(Logins) \cup Permutations(Pages) \cup Permutations(Logouts)
        \cup Permutations(People) \cup Permutations(Names) \cup Permutations(Keys)
=============================================================================
