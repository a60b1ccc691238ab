\* Three tariffs for three durations; use beyond the longest of them.
SPECIFICATION Spec
CONSTANTS
    Ids = {i1, i2, i3}
    Durations = {1, 2, 4}
    Prices = {1, 3}
    LongestUse = 5
    Requests = {q1, q2}
    None = None
SYMMETRY Symmetry
INVARIANTS
    TypeOK
    OnePricePerDuration
    TariffAsTold
    OvertimeTopsUp
    LongerNeverCheaper
