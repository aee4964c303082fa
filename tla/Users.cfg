\* Three runs for two people and root, one execute node, two UIDs.
SPECIFICATION Spec
CONSTANTS
    Runs = {r1, r2, r3}
    Names = {root, ann, bob}
    Root = root
    Bastion = bastion
    Condor = condor
    Nodes = {e1}
    UidMin = 1
    UidMax = 2
    Explicit = FALSE
SYMMETRY Symmetry
INVARIANTS UidsAgree DirsAreOwn DoneIsComplete
CHECK_DEADLOCK FALSE
