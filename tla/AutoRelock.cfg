\* Two requests that may meet at a locker, two lockers.
SPECIFICATION Spec
SYMMETRY Symmetry
CONSTANTS
    Lockers = {l1, l2}
    Requests = {q1, q2}
    MayFail = TRUE
INVARIANTS
    TypeOK
    QueueMirrorsDoors
