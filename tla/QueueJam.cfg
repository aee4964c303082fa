\* Two creations and a worker; a clone may be lost.
SPECIFICATION FairSpec
CONSTANTS
    Vms = {v1, v2}
    Workers = {w1}
    Vmids = {1, 2, 3}
    Faults = {"lost"}
    NoVmid = NoVmid
    NoRow = NoRow
CHECK_DEADLOCK FALSE
PROPERTIES
    PendingIsTaken
