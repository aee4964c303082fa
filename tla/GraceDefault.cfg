\* The default timeout of 10 s: three requests of three waits take at most 90 s.
SPECIFICATION Spec
CONSTANTS
    Timeout = 10
    Requests = 3
    Waits = 3
    Grace = 300
    Delay = 10
INVARIANTS
    RunningCallIsNotCut
