\* Two overlapping ticks, an admin, two possible controllers.
SPECIFICATION FairSpec
CONSTANTS
    Controllers = {c1, c2}
    Ticks = {t1, t2}
    Requests = {q1}
    None = None
INVARIANTS
    TypeOK
    EffectiveActive
    CleanStateAgrees
    GatewayOfRow
PROPERTIES
    OutageSeen
    RecoverySeen
