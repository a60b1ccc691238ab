----------------------------- MODULE AutoRelock -----------------------------
(***************************************************************************)
(* Remote opening and closing of lockers (LockerAccessService) and the     *)
(* BullMQ queue `auto-relock' that is to lock a door again after the       *)
(* station's delay (AutoRelockProducer, AutoRelockWorker).                 *)
(*                                                                         *)
(* A request calls the controller, then Redis; nothing keeps two requests  *)
(* for one locker apart and nothing ties the two calls together.  The      *)
(* queue has one job per locker, because the job id is made of the locker  *)
(* id: an add is ignored while a job with the id is there, in any state.   *)
(*                                                                         *)
(* Time is left out: a delayed job may become due at any moment.  So are   *)
(* the events the handlers publish, which nothing subscribes to, and the   *)
(* setup without Redis, where schedule and cancel do nothing.              *)
(***************************************************************************)
EXTENDS Naturals

CONSTANTS
    Lockers,
    Requests,   \* slots for open and close requests in flight
    MayFail     \* FALSE: every call succeeds and no process stops

ASSUME MayFailAssumption == MayFail \in BOOLEAN

VARIABLES
    door,       \* the electric lock of each locker, as the controller drives it
    job,        \* the job relock_<lockerId> in Redis, and how often it stalled
    requests,   \* the open or close request each slot runs
    disturbed   \* history: lockers with a failed call, crossing requests or a run job

vars == <<door, job, requests, disturbed>>

NoJob == [state |-> "none", stalls |-> 0]
Job == [state : {"none", "delayed", "waiting", "active", "failed"}, stalls : {0, 1}]

Idle == [pc |-> "idle"]
Request ==
    {Idle} \cup [pc : {"unlock", "schedule", "lock", "getJob", "remove"}, locker : Lockers]

On(l) == {q \in Requests : requests[q] # Idle /\ requests[q].locker = l}

Init ==
    /\ door = [l \in Lockers |-> "locked"]
    /\ job = [l \in Lockers |-> NoJob]
    /\ requests = [q \in Requests |-> Idle]
    /\ disturbed = {}

Goto(q, pc) == requests' = [requests EXCEPT ![q].pc = pc]
Finish(q) == requests' = [requests EXCEPT ![q] = Idle]
Disturb(l) == disturbed' = disturbed \cup {l}

----------------------------------------------------------------------------
(* LockerAccessService *)

\* openLocker starts with the controller's unlock, closeLocker with its lock.
Begin(q, l, pc) ==
    /\ requests[q] = Idle
    /\ requests' = [requests EXCEPT ![q] = [pc |-> pc, locker |-> l]]
    /\ IF On(l) = {} THEN UNCHANGED disturbed ELSE Disturb(l)
    /\ UNCHANGED <<door, job>>

Command(q, pc, next, position) ==
    /\ requests[q].pc = pc
    /\ door' = [door EXCEPT ![requests[q].locker] = position]
    /\ Goto(q, next)
    /\ UNCHANGED <<job, disturbed>>

Unlock(q) == Command(q, "unlock", "schedule", "unlocked")
Lock(q) == Command(q, "lock", "getJob", "locked")

\* The controller refuses, cannot be reached, or its answer is lost after it has
\* moved the lock: either way the request ends here.
CommandFails(q) ==
    LET l == requests[q].locker IN
    /\ requests[q].pc \in {"unlock", "lock"}
    /\ \/ UNCHANGED door
       \/ door' = [door EXCEPT ![l] = IF requests[q].pc = "unlock" THEN "unlocked" ELSE "locked"]
    /\ Finish(q)
    /\ Disturb(l)
    /\ UNCHANGED job

----------------------------------------------------------------------------
(* AutoRelockProducer *)

\* schedule: queue.add, ignored when the locker has a job.
Added(j) == IF j.state = "none" THEN [state |-> "delayed", stalls |-> 0] ELSE j

Schedule(q) ==
    LET l == requests[q].locker IN
    /\ requests[q].pc = "schedule"
    /\ job' = [job EXCEPT ![l] = Added(@)]
    /\ Finish(q)
    /\ UNCHANGED <<door, disturbed>>

\* cancel: the job is looked up, and removed in a second call.
GetJob_NotRemoved(q) ==
    /\ requests[q].pc = "getJob"
    /\ Finish(q)
    /\ UNCHANGED <<door, job, disturbed>>
GetJob(q) ==
    LET l == requests[q].locker IN
    /\ requests[q].pc = "getJob"
    /\ IF job[l].state = "none" THEN Finish(q) ELSE Goto(q, "remove")
    /\ UNCHANGED <<door, job, disturbed>>

\* A job the worker has locked cannot be removed: the call throws.
Removed(j) == IF j.state = "active" THEN j ELSE NoJob

Remove(q) ==
    LET l == requests[q].locker IN
    /\ requests[q].pc = "remove"
    /\ job' = [job EXCEPT ![l] = Removed(@)]
    /\ Finish(q)
    /\ UNCHANGED <<door, disturbed>>

\* A call to Redis throws before it does anything.
QueueFails(q) ==
    /\ requests[q].pc \in {"schedule", "getJob", "remove"}
    /\ Finish(q)
    /\ Disturb(requests[q].locker)
    /\ UNCHANGED <<door, job>>

----------------------------------------------------------------------------
(* The queue and AutoRelockWorker *)

\* The delay is over, or a stalled job is tried again.
Take(l) ==
    /\ job[l].state \in {"delayed", "waiting"}
    /\ job' = [job EXCEPT ![l].state = "active"]
    /\ Disturb(l)
    /\ UNCHANGED <<door, requests>>

\* process, by the worker's clock too early: the job goes back to the delayed set.
Early_CountsAsStall(l) ==
    /\ job[l].state = "active"
    /\ job' = [job EXCEPT ![l] = [state |-> "delayed", stalls |-> @.stalls + 1]]
    /\ UNCHANGED <<door, requests, disturbed>>
Early(l) ==
    /\ job[l].state = "active"
    /\ job' = [job EXCEPT ![l].state = "delayed"]
    /\ UNCHANGED <<door, requests, disturbed>>

\* process, on time: MockSmartLockGateway.lock(lockerId).  Whatever gateway the
\* station has, the mock's record for the locker's id is locked, and the lock
\* the doors are driven by (haLockEntityId) is not.  A job that is done is gone.
Relocked(l) == door

Relock(l) ==
    /\ job[l].state = "active"
    /\ door' = Relocked(l)
    /\ job' = [job EXCEPT ![l] = NoJob]
    /\ UNCHANGED <<requests, disturbed>>

\* BullMQ finds an active job whose worker is gone: once it is tried again, the
\* second time it has failed, and stays (removeOnFail is false).
Stalled(j) == IF j.stalls = 0 THEN [state |-> "waiting", stalls |-> 1]
              ELSE [j EXCEPT !.state = "failed"]

Stall(l) ==
    /\ job[l].state = "active"
    /\ job' = [job EXCEPT ![l] = Stalled(@)]
    /\ UNCHANGED <<door, requests, disturbed>>

\* The process stops and starts again; Redis and the doors stay as they are.
Crash ==
    /\ \E q \in Requests : requests[q] # Idle
    /\ requests' = [q \in Requests |-> Idle]
    /\ disturbed' = disturbed \cup {l \in Lockers : On(l) # {}}
    /\ UNCHANGED <<door, job>>

Handler(q) ==
    \/ Unlock(q) \/ Lock(q) \/ Schedule(q) \/ GetJob(q) \/ Remove(q)

Worker(l) == Take(l) \/ Early(l) \/ Relock(l)

Failure ==
    \/ \E q \in Requests : CommandFails(q) \/ QueueFails(q)
    \/ \E l \in Lockers : Stall(l)
    \/ Crash

Next ==
    \/ \E q \in Requests, l \in Lockers, pc \in {"unlock", "lock"} : Begin(q, l, pc)
    \/ \E q \in Requests : Handler(q)
    \/ \E l \in Lockers : Worker(l)
    \/ MayFail /\ Failure

Spec == Init /\ [][Next]_vars

\* Requests are carried out, and the worker of a live process takes the jobs that
\* are due and runs them, early ones not for ever.
FairSpec ==
    /\ Spec
    /\ \A q \in Requests : WF_vars(Handler(q) \/ (MayFail /\ (CommandFails(q) \/ QueueFails(q))))
    /\ \A l \in Lockers : WF_vars(Take(l)) /\ SF_vars(Relock(l))

----------------------------------------------------------------------------
(* Properties *)

\* Every variable has its type.
TypeOK ==
    /\ door \in [Lockers -> {"locked", "unlocked"}]
    /\ job \in [Lockers -> Job]
    /\ requests \in [Requests -> Request]
    /\ disturbed \subseteq Lockers

\* With one request at a time, no failing call and no job run yet, the queue
\* holds a relock for exactly the lockers that are open: a second open adds no
\* second job, a close takes the job away, and an open after it adds one again.
QueueMirrorsDoors ==
    \A l \in Lockers \ disturbed :
        On(l) = {} => job[l] = IF door[l] = "unlocked" THEN [state |-> "delayed", stalls |-> 0]
                               ELSE NoJob

\* A locker that was opened is eventually locked again (FR-013, BR-03.4).
RelockedEventually ==
    \A l \in Lockers : door[l] = "unlocked" ~> door[l] = "locked"

=============================================================================
