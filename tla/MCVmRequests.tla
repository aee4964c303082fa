---------------------------- MODULE MCVmRequests ----------------------------
(* Instances of VmRequests for TLC. *)
EXTENDS VmRequests, TLC

\* Requests are interchangeable, and so are users and keys (safety runs only).
Symmetry == Permutations(Requests) \cup Permutations(Users) \cup Permutations(Keys)

\* Bound: at most one request asks for more than the smallest size, and the
\* VMs that exist before are of that size.
FewLarge ==
    /\ Cardinality({r \in Requests : size[r] > 1}) <= 1
    /\ \A x \in Seeds : vmSize[x] = 1
=============================================================================
