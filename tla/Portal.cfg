\* Two logins of two people, two pages that may send keys, a logout; every fault.
SPECIFICATION PortalSpec
CONSTANTS
    Logins = {l1, l2}
    Pages = {p1, p2}
    Logouts = {o1}
    People = {ann, bob}
    Faults = {"portal", "plan"}
    Nobody = Nobody
    Names = {n1}
    Keys = {k1}
    NoKey = NoKey
SYMMETRY Symmetry
CHECK_DEADLOCK FALSE
INVARIANTS
    OneWholeAccount
    RetryIsEnough
    EndedIsRefused
    SavedAreDistinct
    ConflictIsReal
    KeyIsOwn
    SomeoneGoesOn
PROPERTIES
    RevokedStays
