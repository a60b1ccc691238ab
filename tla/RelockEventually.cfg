\* One locker, one request at a time, no failures.
SPECIFICATION FairSpec
CONSTANTS
    Lockers = {l1}
    Requests = {q1}
    MayFail = FALSE
PROPERTY
    RelockedEventually
