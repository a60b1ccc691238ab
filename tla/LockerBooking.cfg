\* Reservations, releases and admin edits of locker rows.
SPECIFICATION Spec
CONSTANTS
    Lockers = {l1, l2}
    Kits = {}
    Rentals = {r1, r2}
    Requests = {q1, q2}
    None = None
    Keep = Keep
    Absent = Absent
    StatusInputs = {"KEEP", "AVAILABLE", "MAINTENANCE"}
    KitInputs = {Keep}
    LockerInputs = {}
SYMMETRY Symmetry
INVARIANTS
    StatusAgreesWithRental
    RowNamesItsHolder
PROPERTY
    OwnershipSpec
