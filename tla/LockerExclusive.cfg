\* A PATCH of a locker read before a reservation and saved after it.
SPECIFICATION Spec
CONSTANTS
    Lockers = {l1}
    Kits = {}
    Rentals = {r1, r2}
    Requests = {q1}
    None = None
    Keep = Keep
    Absent = Absent
    StatusInputs = {"KEEP", "MAINTENANCE"}
    KitInputs = {Keep}
    LockerInputs = {}
INVARIANT
    ExclusiveReservation
