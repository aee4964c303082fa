\* Two workers, two VMs, lost clones, deletions, calls cut off and VMs of others.
SPECIFICATION FairSpec
CONSTANTS
    Vms = {v1, v2}
    Workers = {w1, w2}
    Vmids = {1, 2, 3, 4}
    Faults = {"lost", "delete", "cut", "foreign"}
    NoVmid = NoVmid
    NoRow = NoRow
CHECK_DEADLOCK FALSE
PROPERTIES
    PlacementStays
    TakenUnlessJammed
