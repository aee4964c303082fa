---- MODULE MCClusterUser ----
EXTENDS ClusterUser, TLC
\* Runs, execute nodes and ordinary names are interchangeable.
Symmetry == Permutations(Runs) \cup Permutations(Nodes) \cup Permutations(Names \ {Root})
====
