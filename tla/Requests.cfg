\* Three racing requests of two users with two keys on one existing VM: a large
\* and a small creation exceed the sum alone, three small ones the number alone.
SPECIFICATION Spec
CONSTANTS
    Requests = {r1, r2, r3}
    Users = {u1, u2}
    Keys = {k1, k2}
    Seeds = {vm0}
    Asked = {"create", "stop"}
    Sizes = {1, 3}
    MaxVms = 3
    MaxTotal = 4
    Nobody = Nobody
SYMMETRY Symmetry
CONSTRAINT FewLarge
CHECK_DEADLOCK FALSE
INVARIANTS
    OneOperationPerKey
    OneActiveOperation
    QuotaHolds
    AnswerIsOwn
    NoOrphanVm
    SomeoneGoesOn
PROPERTIES
    CheckedAtCommit
