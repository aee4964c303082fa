\* A call may outlive the grace period: a second worker reconciles under it.
\* Every commit is still one that VmRequests allows the worker.
SPECIFICATION Spec
CONSTANTS
    Ops = {o1, o2, o3}
    Vms = {v1}
    Workers = {w1, w2}
    NoOp = NoOp
    Faults = {"timeout", "loss", "unreachable", "taskfail", "crash", "lock", "guest"}
    GraceCoversCall = FALSE
SYMMETRY Symmetry
CHECK_DEADLOCK FALSE
INVARIANTS
    CreateTaskMatchesStep
PROPERTIES
    CommitsAreOutcomes
