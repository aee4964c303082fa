\* A call that outlives the grace period on a reboot.
SPECIFICATION Spec
CONSTANTS
    Ops = {o1, o2}
    Vms = {v1}
    Workers = {w1, w2}
    NoOp = NoOp
    Faults = {}
    GraceCoversCall = FALSE
SYMMETRY Symmetry
CHECK_DEADLOCK FALSE
INVARIANTS
    RebootEndsStarted
