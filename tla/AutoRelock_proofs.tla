------------------------- MODULE AutoRelock_proofs -------------------------
(***************************************************************************)
(* Proofs about AutoRelock: its types, and that the queue holds a relock   *)
(* for exactly the open doors as long as nothing fails, requests for one   *)
(* locker do not cross and no job has run.                                 *)
(***************************************************************************)
EXTENDS AutoRelock, TLAPS

Delayed == [state |-> "delayed", stalls |-> 0]
Mirrors(l) == job[l] = IF door[l] = "unlocked" THEN Delayed ELSE NoJob

\* Of an undisturbed locker: one request at most, a job that has not run, and what
\* the request has done so far and still has to do.
Handled(l) ==
    /\ \A p, q \in On(l) : p = q
    /\ job[l] \in {NoJob, Delayed}
    /\ On(l) = {} => Mirrors(l)
    /\ \A q \in On(l) :
          /\ requests[q].pc = "schedule" => door[l] = "unlocked"
          /\ requests[q].pc = "getJob" => door[l] = "locked"
          /\ requests[q].pc = "remove" => door[l] = "locked"

Inv == TypeOK /\ \A l \in Lockers \ disturbed : Handled(l)

LEMMA Kinds ==
    /\ \A r \in Request : r # Idle => r.locker \in Lockers
    /\ \A r \in Request :
          r # Idle <=> r.pc \in {"unlock", "schedule", "lock", "getJob", "remove"}
    /\ \A r \in Request, pc \in {"unlock", "schedule", "lock", "getJob", "remove"} :
          r # Idle => /\ [r EXCEPT !.pc = pc] \in Request /\ [r EXCEPT !.pc = pc] # Idle
                      /\ [r EXCEPT !.pc = pc].locker = r.locker
                      /\ [r EXCEPT !.pc = pc].pc = pc
    /\ Idle \in Request /\ Idle.pc = "idle"
    /\ NoJob # Delayed /\ NoJob \in Job /\ Delayed \in Job
    /\ NoJob.state = "none" /\ Delayed.state = "delayed"
BY DEF Request, Idle, NoJob, Delayed, Job

LEMMA InitInv == Init => Inv
<1> SUFFICES ASSUME Init PROVE Inv
  OBVIOUS
<1>1. TypeOK
  BY Kinds DEF Init, TypeOK
<1>2. \A l \in Lockers : On(l) = {} /\ Mirrors(l) /\ job[l] = NoJob
  BY DEF Init, On, Mirrors
<1> QED BY <1>1, <1>2 DEF Inv, Handled

\* Request q, about locker l, goes on as r, and the other requests stay.
Moves(q, r, l) ==
    /\ requests' \in [Requests -> Request] /\ requests'[q] = r
    /\ \A p \in Requests \ {q} : requests'[p] = requests[p]
    /\ l \in Lockers /\ q \in On(l)
    /\ r = Idle => On(l)' = On(l) \ {q}
    /\ r # Idle => On(l)' = On(l)
    /\ \A k \in Lockers \ {l} : On(k)' = On(k) /\ \A p \in On(k) : requests'[p] = requests[p]

\* A step of request q, which is about locker l, leaves the other requests alone.
LEMMA RequestFrame ==
    ASSUME TypeOK, NEW q \in Requests, NEW r \in Request, NEW l, requests[q].locker = l,
           requests[q] # Idle, requests' = [requests EXCEPT ![q] = r],
           r = Idle \/ r.locker = l
    PROVE  Moves(q, r, l)
<1>1. /\ requests' \in [Requests -> Request] /\ requests'[q] = r
      /\ \A p \in Requests \ {q} : requests'[p] = requests[p]
  BY DEF TypeOK
<1>2. l \in Lockers /\ q \in On(l)
  BY Kinds DEF TypeOK, On
<1>3. /\ r = Idle => On(l)' = On(l) \ {q}
      /\ r # Idle => On(l)' = On(l)
  <2>1. CASE r = Idle
    BY <1>1, <2>1 DEF On
  <2>2. CASE r # Idle
    BY <1>1, <1>2, <2>2 DEF On
  <2> QED BY <2>1, <2>2
<1>4. ASSUME NEW k \in Lockers \ {l}
      PROVE  On(k)' = On(k) /\ \A p \in On(k) : requests'[p] = requests[p]
  <2>1. q \notin On(k) /\ q \notin On(k)'
    BY <1>1, <1>4 DEF On
  <2> QED BY <1>1, <2>1 DEF On
<1> QED BY <1>1, <1>2, <1>3, <1>4 DEF Moves

\* A locker that the step leaves alone stays handled.
LEMMA OthersHandled ==
    ASSUME Inv, NEW l \in Lockers \ disturbed, job'[l] = job[l], door'[l] = door[l],
           On(l)' = On(l), \A p \in On(l) : requests'[p] = requests[p]
    PROVE  Handled(l)'
BY DEF Inv, Handled, Mirrors

\* What a step of request q must make of its locker l.
LEMMA RequestStep ==
    ASSUME Inv, NEW q \in Requests, NEW r \in Request, NEW l, requests[q].locker = l,
           requests[q] # Idle, requests' = [requests EXCEPT ![q] = r],
           r = Idle \/ r.locker = l,
           door' \in [Lockers -> {"locked", "unlocked"}], job' \in [Lockers -> Job],
           disturbed' \in SUBSET Lockers, disturbed \subseteq disturbed',
           \A k \in Lockers \ {l} : job'[k] = job[k] /\ door'[k] = door[k],
           l \notin disturbed' /\ Handled(l) =>
              /\ job'[l] \in {NoJob, Delayed}
              /\ r = Idle => Mirrors(l)'
              /\ r.pc = "schedule" => door'[l] = "unlocked"
              /\ r.pc \in {"getJob", "remove"} => door'[l] = "locked"
    PROVE  Inv'
<1>a. Moves(q, r, l)
  BY RequestFrame DEF Inv
<1>1. /\ requests' \in [Requests -> Request] /\ requests'[q] = r
      /\ \A p \in Requests \ {q} : requests'[p] = requests[p]
      /\ l \in Lockers /\ q \in On(l)
      /\ r = Idle => On(l)' = On(l) \ {q}
      /\ r # Idle => On(l)' = On(l)
      /\ \A k \in Lockers \ {l} : On(k)' = On(k) /\ \A p \in On(k) : requests'[p] = requests[p]
  BY <1>a DEF Moves
<1>2. TypeOK'
  BY <1>1 DEF TypeOK
<1>3. ASSUME NEW k \in Lockers \ disturbed', k # l PROVE Handled(k)'
  BY <1>1, <1>3, OthersHandled
<1>4. ASSUME l \notin disturbed' PROVE Handled(l)'
  <2>1. l \notin disturbed /\ Handled(l)
    BY <1>1, <1>4 DEF Inv
  <2>2. On(l) = {q}
    BY <1>1, <2>1 DEF Handled
  <2>3. CASE r = Idle
    BY <1>1, <1>4, <2>1, <2>2, <2>3 DEF Handled
  <2>4. CASE r # Idle
    BY <1>1, <1>4, <2>1, <2>2, <2>4 DEF Handled
  <2> QED BY <2>3, <2>4
<1> QED BY <1>2, <1>3, <1>4 DEF Inv

LEMMA BeginStep ==
    ASSUME Inv, NEW q \in Requests, NEW l \in Lockers, NEW pc \in {"unlock", "lock"},
           Begin(q, l, pc)
    PROVE  Inv'
<1> DEFINE r == [pc |-> pc, locker |-> l]
<1>1. r \in Request /\ r # Idle /\ r.locker = l /\ r.pc = pc
  BY DEF Request, Idle
<1>2. /\ requests[q] = Idle /\ requests' = [requests EXCEPT ![q] = r]
      /\ IF On(l) = {} THEN UNCHANGED disturbed ELSE disturbed' = disturbed \cup {l}
      /\ UNCHANGED <<door, job>>
  BY DEF Begin, Disturb
<1> HIDE DEF r
<1>3. /\ requests' \in [Requests -> Request] /\ requests'[q] = r
      /\ \A p \in Requests \ {q} : requests'[p] = requests[p]
  BY <1>1, <1>2 DEF Inv, TypeOK
<1>4. TypeOK'
  BY <1>2, <1>3 DEF Inv, TypeOK
<1>5. ASSUME NEW k \in Lockers \ disturbed' PROVE Handled(k)'
  <2>1. k \notin disturbed /\ q \notin On(k)
    BY <1>2, <1>5 DEF On
  <2>2. CASE k # l
    <3>1. On(k)' = On(k)
      BY <1>1, <1>3, <2>1, <2>2 DEF On
    <3> QED BY <1>2, <1>3, <2>1, <3>1, OthersHandled
  <2>3. CASE k = l
    <3>1. On(l) = {}
      BY <1>2, <1>5, <2>3
    <3>2. On(l)' = {q}
      BY <1>1, <1>3, <3>1 DEF On
    <3> QED BY <1>1, <1>2, <1>3, <2>1, <2>3, <3>2 DEF Inv, Handled
  <2> QED BY <2>2, <2>3
<1> QED BY <1>4, <1>5 DEF Inv

\* Goto and Finish, as RequestStep wants them.
LEMMA GotoKind ==
    ASSUME TypeOK, NEW q \in Requests, requests[q] # Idle,
           NEW pc \in {"unlock", "schedule", "lock", "getJob", "remove"}, Goto(q, pc)
    PROVE  \E r \in Request : /\ requests' = [requests EXCEPT ![q] = r] /\ r # Idle
                              /\ r.locker = requests[q].locker /\ r.pc = pc
<1> DEFINE r == [requests[q] EXCEPT !.pc = pc]
<1>1. r \in Request /\ r # Idle /\ r.locker = requests[q].locker /\ r.pc = pc
  BY Kinds DEF TypeOK
<1>2. requests' = [requests EXCEPT ![q] = r]
  BY DEF Goto
<1> QED BY <1>1, <1>2

LEMMA Working ==
    ASSUME TypeOK, NEW q \in Requests,
           requests[q].pc \in {"unlock", "schedule", "lock", "getJob", "remove"}
    PROVE  requests[q] # Idle /\ requests[q].locker \in Lockers
BY Kinds DEF TypeOK

LEMMA CommandStep ==
    ASSUME Inv, NEW q \in Requests, Unlock(q) \/ Lock(q)
    PROVE  Inv'
<1>1. PICK next \in {"schedule", "getJob"}, position \in {"locked", "unlocked"} :
         /\ requests[q].pc \in {"unlock", "lock"}
         /\ door' = [door EXCEPT ![requests[q].locker] = position]
         /\ Goto(q, next) /\ UNCHANGED <<job, disturbed>>
         /\ next = "schedule" => position = "unlocked"
         /\ next = "getJob" => position = "locked"
  BY DEF Unlock, Lock, Command
<1>2. requests[q] # Idle /\ requests[q].locker \in Lockers
  BY <1>1, Working DEF Inv
<1>3. PICK l \in Lockers : requests[q].locker = l
  BY <1>2
<1>4. PICK r \in Request : /\ requests' = [requests EXCEPT ![q] = r] /\ r # Idle
                           /\ r.locker = l /\ r.pc = next
  BY <1>1, <1>2, <1>3, GotoKind DEF Inv
<1>5. /\ door' \in [Lockers -> {"locked", "unlocked"}] /\ door'[l] = position
      /\ \A k \in Lockers \ {l} : door'[k] = door[k]
  BY <1>1, <1>3 DEF Inv, TypeOK
<1>6. /\ job' = job /\ job \in [Lockers -> Job]
      /\ disturbed' = disturbed /\ disturbed \in SUBSET Lockers
  BY <1>1 DEF Inv, TypeOK
<1>7. Handled(l) => job'[l] \in {NoJob, Delayed}
  BY <1>6 DEF Handled
<1>8. r.pc = "schedule" => door'[l] = "unlocked"
  BY <1>1, <1>4, <1>5
<1>9. r.pc \in {"getJob", "remove"} => door'[l] = "locked"
  BY <1>1, <1>4, <1>5
<1> QED BY <1>2, <1>3, <1>4, <1>5, <1>6, <1>7, <1>8, <1>9, RequestStep

\* A call that fails disturbs its locker, whatever it did before.
LEMMA FailStep ==
    ASSUME Inv, NEW q \in Requests, CommandFails(q) \/ QueueFails(q)
    PROVE  Inv'
<1>1. /\ requests[q].pc \in {"unlock", "schedule", "lock", "getJob", "remove"}
      /\ requests' = [requests EXCEPT ![q] = Idle]
      /\ disturbed' = disturbed \cup {requests[q].locker}
      /\ UNCHANGED job
  BY DEF CommandFails, QueueFails, Finish, Disturb
<1>2. requests[q] # Idle /\ requests[q].locker \in Lockers
  BY <1>1, Working DEF Inv
<1>3. PICK l \in Lockers : requests[q].locker = l
  BY <1>2
<1>4. /\ door' \in [Lockers -> {"locked", "unlocked"}]
      /\ \A k \in Lockers \ {l} : door'[k] = door[k]
  BY <1>3 DEF CommandFails, QueueFails, Inv, TypeOK
<1>5. job' = job /\ job \in [Lockers -> Job] /\ disturbed' = disturbed \cup {l}
      /\ disturbed' \in SUBSET Lockers
  BY <1>1, <1>3 DEF Inv, TypeOK
<1> QED BY <1>1, <1>2, <1>3, <1>4, <1>5, Kinds, RequestStep

LEMMA AddedKind == \A j \in {NoJob, Delayed} : Added(j) = Delayed
BY DEF Added, NoJob, Delayed

LEMMA RemovedKind == \A j \in {NoJob, Delayed} : Removed(j) = NoJob
BY DEF Removed, NoJob, Delayed

LEMMA JobKinds ==
    ASSUME NEW j \in Job
    PROVE  Added(j) \in Job /\ Removed(j) \in Job /\ Stalled(j) \in Job
BY DEF Job, Added, Removed, Stalled, NoJob

LEMMA ScheduleStep == ASSUME Inv, NEW q \in Requests, Schedule(q) PROVE Inv'
<1>1. /\ requests[q].pc = "schedule" /\ requests' = [requests EXCEPT ![q] = Idle]
      /\ job' = [job EXCEPT ![requests[q].locker] = Added(@)]
      /\ UNCHANGED <<door, disturbed>>
  BY DEF Schedule, Finish
<1>2. requests[q] # Idle /\ requests[q].locker \in Lockers
  BY <1>1, Working DEF Inv
<1>3. PICK l \in Lockers : requests[q].locker = l
  BY <1>2
<1>4. /\ job' \in [Lockers -> Job] /\ job'[l] = Added(job[l])
      /\ \A k \in Lockers \ {l} : job'[k] = job[k]
  BY <1>1, <1>3, JobKinds DEF Inv, TypeOK
<1>5. Handled(l) => job'[l] = Delayed /\ Mirrors(l)'
  <2>1. Handled(l) => job[l] \in {NoJob, Delayed} /\ door[l] = "unlocked"
    BY <1>1, <1>2, <1>3 DEF Handled, On
  <2> QED BY <1>1, <1>4, <2>1, AddedKind DEF Mirrors
<1>6. /\ door' \in [Lockers -> {"locked", "unlocked"}] /\ door' = door
      /\ disturbed' = disturbed /\ disturbed \in SUBSET Lockers
  BY <1>1 DEF Inv, TypeOK
<1> QED BY <1>1, <1>2, <1>3, <1>4, <1>5, <1>6, Kinds, RequestStep

LEMMA RemoveStep == ASSUME Inv, NEW q \in Requests, Remove(q) PROVE Inv'
<1>1. /\ requests[q].pc = "remove" /\ requests' = [requests EXCEPT ![q] = Idle]
      /\ job' = [job EXCEPT ![requests[q].locker] = Removed(@)]
      /\ UNCHANGED <<door, disturbed>>
  BY DEF Remove, Finish
<1>2. requests[q] # Idle /\ requests[q].locker \in Lockers
  BY <1>1, Working DEF Inv
<1>3. PICK l \in Lockers : requests[q].locker = l
  BY <1>2
<1>4. /\ job' \in [Lockers -> Job] /\ job'[l] = Removed(job[l])
      /\ \A k \in Lockers \ {l} : job'[k] = job[k]
  BY <1>1, <1>3, JobKinds DEF Inv, TypeOK
<1>5. Handled(l) => job'[l] = NoJob /\ Mirrors(l)'
  <2>1. Handled(l) => job[l] \in {NoJob, Delayed} /\ door[l] = "locked"
    BY <1>1, <1>2, <1>3 DEF Handled, On
  <2> QED BY <1>1, <1>4, <2>1, RemovedKind DEF Mirrors
<1>6. /\ door' \in [Lockers -> {"locked", "unlocked"}] /\ door' = door
      /\ disturbed' = disturbed /\ disturbed \in SUBSET Lockers
  BY <1>1 DEF Inv, TypeOK
<1> QED BY <1>1, <1>2, <1>3, <1>4, <1>5, <1>6, Kinds, RequestStep

LEMMA GetJobStep == ASSUME Inv, NEW q \in Requests, GetJob(q) PROVE Inv'
<1>1. /\ requests[q].pc = "getJob" /\ UNCHANGED <<door, job, disturbed>>
      /\ IF job[requests[q].locker].state = "none" THEN Finish(q) ELSE Goto(q, "remove")
  BY DEF GetJob
<1>2. requests[q] # Idle /\ requests[q].locker \in Lockers
  BY <1>1, Working DEF Inv
<1>3. PICK l \in Lockers : requests[q].locker = l
  BY <1>2
<1>4. PICK r \in Request :
         /\ requests' = [requests EXCEPT ![q] = r] /\ (r = Idle \/ r.locker = l)
         /\ r = Idle => job[l].state = "none"
         /\ r.pc \in {"idle", "remove"}
  <2>1. CASE job[l].state = "none"
    BY <1>1, <1>3, <2>1, Kinds DEF Finish
  <2>2. CASE job[l].state # "none"
    BY <1>1, <1>2, <1>3, <2>2, GotoKind DEF Inv
  <2> QED BY <2>1, <2>2
<1>5. Handled(l) => /\ job[l] \in {NoJob, Delayed} /\ door[l] = "locked"
                    /\ r = Idle => Mirrors(l)'
  <2>1. Handled(l) => job[l] \in {NoJob, Delayed} /\ door[l] = "locked"
    BY <1>1, <1>2, <1>3 DEF Handled, On
  <2> QED BY <1>1, <1>4, <2>1, Kinds DEF Mirrors
<1>6. /\ door' = door /\ door \in [Lockers -> {"locked", "unlocked"}]
      /\ job' = job /\ job \in [Lockers -> Job]
      /\ disturbed' = disturbed /\ disturbed \in SUBSET Lockers
  BY <1>1 DEF Inv, TypeOK
<1> QED BY <1>2, <1>3, <1>4, <1>5, <1>6, RequestStep

\* The worker and a stall meet an active job only, and the locker of an active job is
\* disturbed since Take.
LEMMA WorkerStep ==
    ASSUME Inv, NEW l \in Lockers, Worker(l) \/ Stall(l)
    PROVE  Inv'
<1>1. /\ job' \in [Lockers -> Job] /\ door' = door /\ requests' = requests
      /\ disturbed \subseteq disturbed' /\ disturbed' \in SUBSET Lockers
      /\ \A k \in Lockers \ {l} : job'[k] = job[k]
  <2>1. CASE Take(l)
    BY <2>1 DEF Take, Disturb, Inv, TypeOK, Job
  <2>2. CASE Early(l)
    BY <2>2 DEF Early, Inv, TypeOK, Job
  <2>3. CASE Relock(l)
    BY <2>3, Kinds DEF Relock, Relocked, Inv, TypeOK
  <2>4. CASE Stall(l)
    BY <2>4, JobKinds DEF Stall, Inv, TypeOK
  <2> QED BY <2>1, <2>2, <2>3, <2>4 DEF Worker
<1>2. l \in disturbed'
  <2>1. CASE Take(l)
    BY <2>1 DEF Take, Disturb
  <2>2. CASE job[l].state = "active"
    BY <1>1, <2>2, Kinds DEF Inv, Handled
  <2> QED BY <2>1, <2>2 DEF Worker, Early, Relock, Stall
<1>3. TypeOK'
  BY <1>1 DEF Inv, TypeOK
<1>4. ASSUME NEW k \in Lockers \ disturbed' PROVE Handled(k)'
  <2>1. k # l /\ k \in Lockers \ disturbed /\ On(k)' = On(k)
    BY <1>1, <1>2, <1>4 DEF On
  <2> QED BY <1>1, <2>1, OthersHandled
<1> QED BY <1>3, <1>4 DEF Inv

LEMMA CrashStep == ASSUME Inv, Crash PROVE Inv'
<1>1. /\ requests' = [q \in Requests |-> Idle] /\ UNCHANGED <<door, job>>
      /\ disturbed' = disturbed \cup {l \in Lockers : On(l) # {}}
  BY DEF Crash
<1>2. TypeOK'
  BY <1>1, Kinds DEF Inv, TypeOK
<1>3. ASSUME NEW k \in Lockers \ disturbed' PROVE Handled(k)'
  <2>1. k \notin disturbed /\ On(k) = {} /\ On(k)' = {}
    BY <1>1, <1>3 DEF On
  <2> QED BY <1>1, <2>1, OthersHandled
<1> QED BY <1>2, <1>3 DEF Inv

LEMMA InvStep == Inv /\ [Next]_vars => Inv'
<1> SUFFICES ASSUME Inv, [Next]_vars PROVE Inv'
  OBVIOUS
<1>1. CASE UNCHANGED vars
  BY <1>1 DEF vars, Inv, TypeOK, Handled, Mirrors, On
<1> QED BY <1>1, BeginStep, CommandStep, ScheduleStep, GetJobStep, RemoveStep, WorkerStep,
           FailStep, CrashStep DEF Next, Handler, Failure

----------------------------------------------------------------------------
(* Theorems *)

\* TypeOK, of the doors, the queue and the requests of LockerAccessService.
THEOREM TypeCorrect == Spec => []TypeOK
<1>1. Inv => TypeOK
  BY DEF Inv
<1> QED BY <1>1, InitInv, InvStep, PTL DEF Spec

\* QueueMirrorsDoors: for any number of lockers and requests, schedule and cancel of
\* AutoRelockProducer keep one job for each open door and none for a closed one.
THEOREM QueueCorrect == Spec => []QueueMirrorsDoors
<1>1. Inv => QueueMirrorsDoors
  BY DEF Inv, Handled, Mirrors, Delayed, QueueMirrorsDoors
<1> QED BY <1>1, InitInv, InvStep, PTL DEF Spec

=============================================================================
