\* Four operations on one VM, two restarts, with the fairness of run_worker.
SPECIFICATION FairSpec
CONSTANTS
    Ops = {o1, o2, o3, o4}
    Vms = {v1}
    MaxRestarts = 2
INVARIANT ForgottenIsNotConfirmed
PROPERTIES PromiseKept Settles
CHECK_DEADLOCK FALSE
