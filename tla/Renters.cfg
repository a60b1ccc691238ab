\* Two requests at a time, two rows for one phone, retention inside the clock.
SPECIFICATION Spec
CONSTANTS
    Ids = {i1, i2}
    Phones = {p1}
    Anonymous = Anonymous
    Requests = {q1, q2}
    LastYear = 2
    Retention = 2
    None = None
SYMMETRY Symmetry
INVARIANTS
    TypeOK
    DeletionSticks
    OneRenterPerPhone
PROPERTIES
    AnonymizedWhenDue
    LifecycleSpec
