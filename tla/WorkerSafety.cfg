\* One VM through four operations, two workers, every fault.
SPECIFICATION Spec
CONSTANTS
    Ops = {o1, o2, o3, o4}
    Vms = {v1}
    Workers = {w1, w2}
    NoOp = NoOp
    Faults = {"crash", "timeout", "loss", "unreachable", "taskfail", "lock", "guest"}
    GraceCoversCall = TRUE
SYMMETRY Symmetry
CHECK_DEADLOCK FALSE
INVARIANTS
    AtMostOnePost
    TaskMatchesStep
    NoStrandedOperation
    NeverBootsUnconfigured
    DeletedIsGone
    NoHiddenRun
PROPERTIES
    FinalStays
    PromiseKept
