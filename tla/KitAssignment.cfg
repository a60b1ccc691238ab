\* Kit moves by locker and kit requests.
SPECIFICATION Spec
CONSTANTS
    Lockers = {l1, l2}
    Kits = {k1, k2, k3}
    Rentals = {}
    Requests = {q1, q2}
    None = None
    Keep = Keep
    Absent = Absent
    StatusInputs = {"KEEP"}
    KitInputs = {Keep, None, k1, k2, k3}
    LockerInputs = {Keep, None, l1, l2}
SYMMETRY Symmetry
INVARIANTS
    TypeOK
    OneKitPerLocker
PROPERTY
    PlacementSpec
