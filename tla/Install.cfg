\* Two authorizations of two nodes; watchers overlap and reach their limits.
SPECIFICATION FairSpec
CONSTANTS
    Auths = {a1, a2}
    Macs = {m1, m2}
    MaxBoots = 4
    World = {"overlap", "expire"}
    NoAuth = NoAuth
CHECK_DEADLOCK FALSE
INVARIANTS
    OnceForEachFlag
    FreshFlagKept
PROPERTIES
    ServedIsMoved
