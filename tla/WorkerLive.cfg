\* Liveness and the power states shown, under every fault but a guest that
\* powers off.
SPECIFICATION FairSpec
CONSTANTS
    Ops = {o1, o2, o3}
    Vms = {v1}
    Workers = {w1, w2}
    NoOp = NoOp
    Faults = {"crash", "timeout", "loss", "unreachable", "taskfail"}
    GraceCoversCall = TRUE
CHECK_DEADLOCK FALSE
INVARIANT StatusAgrees
PROPERTIES
    OperationSettles
    CompletionIsNoticed
