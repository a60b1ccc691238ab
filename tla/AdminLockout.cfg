\* Two admins of one organization, disabled at the same time.
SPECIFICATION Spec
CONSTANTS
    Orgs = {o1}
    Accounts = {a1, a2}
    Slugs = {s1}
    Emails = {e1, e2}
    Columns = {}
    Requests = {q1, q2}
    None = None
SYMMETRY Symmetry
INVARIANT
    NoLockout
