\* Two lockers at one station, two kits of two types, two types of day.
SPECIFICATION Spec
CONSTANTS
    Stations = {s1}
    Main = s1
    Lockers = {l1, l2}
    Kits = {k1, k2}
    KitTypes = {t1, t2}
    DayTypes = {d1, d2}
    StationOf <- AllAtMain
    Varying = {"isVisibleToClients"}
    Statuses = {"AVAILABLE", "RESERVED"}
    None = None
SYMMETRY Symmetry
INVARIANTS
    TypeOK
    SteadyOffered
    OffersOfOneMoment
    SteadyCounted
