--------------------------- MODULE StationHealth ---------------------------
(***************************************************************************)
(* One station of the locations module: its row, the admin's PATCH, and    *)
(* the connectivity monitor (StationHealthCheckerCron,                     *)
(* StationHealthCheckerService, StationHealthEvaluator) with the monitor's *)
(* memory and the cache of SmartLockGatewayFactoryImpl.                    *)
(*                                                                         *)
(* A tick lists the organizations and, unless the station's is suspended,  *)
(* reads the station row, asks the controller, judges the answer with a    *)
(* per-process memory and then saves the whole row it read.  A PATCH       *)
(* reads the row, changes it and saves the whole row too.  Nothing keeps   *)
(* two ticks, or a tick and a PATCH, apart.                                *)
(*                                                                         *)
(* Of the row's other columns (name, visible, working status, secrets)     *)
(* nothing here depends; a PATCH carries them as it carries `intended'.    *)
(***************************************************************************)
EXTENDS Naturals

CONSTANTS
    Controllers,    \* values of the connection settings (URL and token)
    Ticks,          \* slots for health checks in flight at the same time
    Requests,       \* slots for admin requests in flight at the same time
    None            \* nothing in memory, nothing cached; no slot

ASSUME ControllersAssumption == Controllers # {} /\ None \notin Controllers
ASSUME SlotsAssumption == None \notin Ticks \cup Requests

VARIABLES
    row,            \* the stations row
    memory,         \* evaluatorState of the station in this process
    gateway,        \* the controller of the cached gateway
    ticks,          \* the health check each slot runs
    requests,       \* the admin request each slot runs
    suspended,      \* the status of the station's organization
    up,             \* environment: which controllers answer
    asked,          \* history: isActive as the last admin save set it
    clean,          \* history: no save so far failed or met another one's read
    moved           \* history: a PATCH saved other connection settings in this process

vars == <<row, memory, gateway, ticks, requests, suspended, up, asked, clean, moved>>

Health == {"UNKNOWN", "ONLINE", "OFFLINE"}
Row == [intended : BOOLEAN, active : BOOLEAN, health : Health, controller : Controllers]

\* consecutiveFailures is compared with 2 only, so it is not counted past 2.
Threshold == 2
Memory == [failures : 0 .. Threshold, status : Health]
ASSUME NoneAssumption == None \notin Memory

Tick == [pc : {"idle", "listed", "queued", "probing", "saving"}, row : Row, probed : Controllers \cup {None}]
Request == [pc : {"idle", "saving"}, row : Row]

----------------------------------------------------------------------------
(* Station and StationHealthEvaluator *)

\* Station.create
NewRow(c) == [intended |-> TRUE, active |-> TRUE, health |-> "UNKNOWN", controller |-> c]

SetActive_ForgetsHealth(s, value) == [s EXCEPT !.intended = value, !.active = value]
SetActive(s, value) ==
    [s EXCEPT !.intended = value, !.active = value /\ s.health # "OFFLINE"]

TransitionHealth_ActiveOnly(s, status) ==
    [s EXCEPT !.active = s.intended /\ status # "OFFLINE"]
TransitionHealth(s, status) ==
    IF s.health = status THEN s
    ELSE [s EXCEPT !.health = status, !.active = s.intended /\ status # "OFFLINE"]

\* onCheckResult: the new memory; a transition is a change of its status.
OnCheckResult_NeverRecovers(m, reachable) ==
    IF reachable
    THEN [failures |-> 0, status |-> IF m.status = "UNKNOWN" THEN "ONLINE" ELSE m.status]
    ELSE LET n == IF m.failures < Threshold THEN m.failures + 1 ELSE Threshold IN
         [failures |-> n, status |-> IF n >= Threshold THEN "OFFLINE" ELSE m.status]
OnCheckResult_NeverCounts(m, reachable) ==
    [failures |-> 0, status |-> IF reachable THEN "ONLINE" ELSE m.status]
OnCheckResult_NoDefault(m, reachable) ==
    IF reachable
    THEN [failures |-> 0, status |-> "ONLINE"]
    ELSE LET n == IF m.failures < Threshold THEN m.failures + 1 ELSE Threshold IN
         [failures |-> n, status |-> IF n >= Threshold THEN "OFFLINE" ELSE None]
OnCheckResult(m, reachable) ==
    IF reachable
    THEN [failures |-> 0, status |-> "ONLINE"]
    ELSE LET n == IF m.failures < Threshold THEN m.failures + 1 ELSE Threshold IN
         [failures |-> n, status |-> IF n >= Threshold THEN "OFFLINE" ELSE m.status]

----------------------------------------------------------------------------

IdleTick(c) == [pc |-> "idle", row |-> NewRow(c), probed |-> None]
IdleRequest(c) == [pc |-> "idle", row |-> NewRow(c)]
AnyController == CHOOSE c \in Controllers : TRUE

Init ==
    /\ row \in {NewRow(c) : c \in Controllers}
    /\ memory = None
    /\ gateway = None
    /\ ticks = [t \in Ticks |-> IdleTick(AnyController)]
    /\ requests = [q \in Requests |-> IdleRequest(AnyController)]
    /\ suspended = FALSE
    /\ up \in [Controllers -> BOOLEAN]
    /\ asked = TRUE
    /\ clean = TRUE
    /\ moved = FALSE

EndTick(t) == ticks' = [ticks EXCEPT ![t] = IdleTick(AnyController)]
EndRequest(q) == requests' = [requests EXCEPT ![q] = IdleRequest(AnyController)]

\* The tick has read the station, and has not finished with it.
HasRow(t) == ticks[t].pc \notin {"idle", "listed"}

\* Somebody other than t and q has read the row and not saved it yet.
Others(t, q) ==
    \/ \E x \in Ticks \ {t} : HasRow(x)
    \/ \E x \in Requests \ {q} : requests[x].pc # "idle"

----------------------------------------------------------------------------
(* The monitor *)

\* tick: listAll reads the organizations; suspended ones are skipped.
ListOrganizations(t) ==
    /\ ticks[t].pc = "idle"
    /\ ~suspended
    /\ ticks' = [ticks EXCEPT ![t] = [@ EXCEPT !.pc = "listed"]]
    /\ UNCHANGED <<row, memory, gateway, requests, suspended, up, asked, clean, moved>>

\* Then listAdmin reads the stations; those the admin switched off are skipped.
ReadStation(t) ==
    /\ ticks[t].pc = "listed"
    /\ IF row.intended
       THEN ticks' = [ticks EXCEPT ![t] = [@ EXCEPT !.pc = "queued", !.row = row]]
       ELSE EndTick(t)
    /\ UNCHANGED <<row, memory, gateway, requests, suspended, up, asked, clean, moved>>

\* forStation: the cached gateway, or else one for the settings read.
ForStation_OneForAll(c) == IF gateway = None THEN AnyController ELSE gateway
ForStation(c) == IF gateway = None THEN c ELSE gateway

\* checkOne takes the gateway, which is cached from now on.
Probe(t) ==
    LET g == ForStation(ticks[t].row.controller) IN
    /\ ticks[t].pc = "queued"
    /\ gateway' = g
    /\ ticks' = [ticks EXCEPT ![t] = [@ EXCEPT !.pc = "probing", !.probed = g]]
    /\ UNCHANGED <<row, memory, requests, suspended, up, asked, clean, moved>>

\* The answer arrives: the memory changes at once, the row only with the save.
Answer(t) ==
    LET s == ticks[t].row
        m == IF memory = None THEN [failures |-> 0, status |-> s.health] ELSE memory
        n == OnCheckResult(m, up[ticks[t].probed]) IN
    /\ ticks[t].pc = "probing"
    /\ memory' = n
    /\ IF n.status = m.status
       THEN EndTick(t)
       ELSE ticks' = [ticks EXCEPT ![t] =
                        [@ EXCEPT !.pc = "saving", !.row = TransitionHealth(s, n.status)]]
    /\ UNCHANGED <<row, gateway, requests, suspended, up, asked, clean, moved>>

SaveTick(t) ==
    /\ ticks[t].pc = "saving"
    /\ row' = ticks[t].row
    /\ EndTick(t)
    /\ clean' = (clean /\ ~Others(t, None))
    /\ UNCHANGED <<memory, gateway, requests, suspended, up, asked, moved>>

\* The save throws; the cron logs it and goes on, the memory keeps the status.
SaveTickFails(t) ==
    /\ ticks[t].pc = "saving"
    /\ EndTick(t)
    /\ clean' = FALSE
    /\ UNCHANGED <<row, memory, gateway, requests, suspended, up, asked, moved>>

----------------------------------------------------------------------------
(* The admin *)

\* PATCH: isActive, the connection settings, both, or neither (other columns).
Edits(s) == {s, SetActive(s, TRUE), SetActive(s, FALSE)}

ReadForPatch(q) ==
    /\ requests[q].pc = "idle"
    /\ \E s \in Edits(row), c \in Controllers :
          requests' = [requests EXCEPT ![q] =
                         [pc |-> "saving", row |-> [s EXCEPT !.controller = c]]]
    /\ UNCHANGED <<row, memory, gateway, ticks, suspended, up, asked, clean, moved>>

SavePatch(q) ==
    /\ requests[q].pc = "saving"
    /\ row' = requests[q].row
    /\ asked' = requests[q].row.intended
    /\ EndRequest(q)
    /\ clean' = (clean /\ ~Others(None, q))
    /\ moved' = (moved \/ requests[q].row.controller # row.controller)
    /\ UNCHANGED <<memory, gateway, ticks, suspended, up>>

SavePatchFails(q) ==
    /\ requests[q].pc = "saving"
    /\ EndRequest(q)
    /\ UNCHANGED <<row, memory, gateway, ticks, suspended, up, asked, clean, moved>>

----------------------------------------------------------------------------

\* A request that opens or closes a locker reads the station and caches a gateway
\* for its settings, if there is none.
ResolveGateway ==
    /\ gateway = None
    /\ gateway' = ForStation(row.controller)
    /\ UNCHANGED <<row, memory, ticks, requests, suspended, up, asked, clean, moved>>

\* The process restarts: memory, cache and everything in flight are gone.
Restart ==
    /\ memory' = None
    /\ gateway' = None
    /\ ticks' = [t \in Ticks |-> IdleTick(AnyController)]
    /\ requests' = [q \in Requests |-> IdleRequest(AnyController)]
    /\ moved' = FALSE
    /\ UNCHANGED <<row, suspended, up, asked, clean>>

\* A controller comes or goes.
Connectivity ==
    /\ \E c \in Controllers : up' = [up EXCEPT ![c] = ~@]
    /\ UNCHANGED <<row, memory, gateway, ticks, requests, suspended, asked, clean, moved>>

\* The organization is suspended; a settings change that had read it before
\* may bring it back (see Accounts).
Suspension ==
    /\ suspended' = ~suspended
    /\ UNCHANGED <<row, memory, gateway, ticks, requests, up, asked, clean, moved>>

Monitor(t) ==
    \/ ListOrganizations(t)
    \/ ReadStation(t)
    \/ Probe(t) \/ Answer(t) \/ SaveTick(t) \/ SaveTickFails(t)

Admin(q) == ReadForPatch(q) \/ SavePatch(q) \/ SavePatchFails(q)

Next ==
    \/ \E t \in Ticks : Monitor(t)
    \/ \E q \in Requests : Admin(q)
    \/ ResolveGateway
    \/ Restart
    \/ Suspension
    \/ Connectivity

Spec == Init /\ [][Next]_vars

\* The cron fires every 30 seconds, a probe answers or times out, and a save
\* returns: the monitor's steps happen.  Nothing makes the admin, the
\* platform or the controllers act.
MonitorFairness ==
    \A t \in Ticks : /\ WF_vars(ListOrganizations(t)) /\ WF_vars(ReadStation(t))
                     /\ WF_vars(Probe(t)) /\ WF_vars(Answer(t))
                     /\ WF_vars(SaveTick(t) \/ SaveTickFails(t))
FairSpec == Spec /\ MonitorFairness

----------------------------------------------------------------------------
(* Properties *)

\* Every variable has its type.
TypeOK ==
    /\ row \in Row
    /\ memory \in Memory \cup {None}
    /\ gateway \in Controllers \cup {None}
    /\ ticks \in [Ticks -> Tick]
    /\ requests \in [Requests -> Request]
    /\ suspended \in BOOLEAN
    /\ up \in [Controllers -> BOOLEAN]
    /\ asked \in BOOLEAN
    /\ clean \in BOOLEAN
    /\ moved \in BOOLEAN

\* is_active, the column bookability reads, is the admin's intent minus the
\* OFFLINE stations, although whole rows from old reads are saved over it.
Effective(s) == s.active = (s.intended /\ s.health # "OFFLINE")
EffectiveActive == Effective(row)

\* Until a save fails or meets a read made before it, the row keeps what the
\* admin set last (FR-010) and, between checks, the monitor's memory and the row
\* agree on the health, so a recovery or an outage will be seen.
CleanStateAgrees ==
    clean =>
        /\ row.intended = asked
        /\ memory # None /\ (\A t \in Ticks : ticks[t].pc # "saving") => memory.status = row.health

\* The cached gateway drives the controller of the row, however old the row was that a
\* tick made it from and whatever ticks save, until a PATCH changes the connection
\* settings; from then on only a restart brings them together again.
GatewayOfRow == gateway # None /\ ~moved => gateway = row.controller

\* In a run without failed or crossing saves, after the last restart, a station
\* the admin leaves on, of an organization that is not suspended, ends up ONLINE if
\* its controllers stay reachable and OFFLINE if they stay away (FR-008, FR-009).
Undisturbed == []clean /\ <>[]row.intended /\ <>[]~suspended /\ <>[][~Restart]_vars
OutageSeen == Undisturbed /\ <>[](\A c \in Controllers : ~up[c]) => <>[](row.health = "OFFLINE")
RecoverySeen == Undisturbed /\ <>[](\A c \in Controllers : up[c]) => <>[](row.health = "ONLINE")

=======
