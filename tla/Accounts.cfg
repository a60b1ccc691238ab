\* Two requests at a time, two organizations, two admins.
SPECIFICATION Spec
CONSTANTS
    Orgs = {o1, o2}
    Accounts = {a1, a2}
    Slugs = {s1, s2}
    Emails = {e1, e2}
    Columns = {c1, c2}
    Requests = {q1, q2}
    None = None
SYMMETRY Symmetry
INVARIANTS
    TypeOK
    OneRowEach
    AdminRemains
    ChangesAddUp
PROPERTIES
    SuspensionFreezes
    RegistrySpec
