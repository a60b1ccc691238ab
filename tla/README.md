# RENTIQ: specifications and proofs

TLA+ specifications of the RENTIQ API (`src/apps/api`), a NestJS monolith for
renting equipment from smart lockers: PostgreSQL through Drizzle, Redis/BullMQ
for one queue, Home Assistant controllers at the stations. TLC model-checks
small instances of every module; TLAPS proves the safety properties of section 5
for all instances.

One fact about the code shapes every model. **No operation runs in a
transaction, and every aggregate is saved as a whole row.** A handler reads a
row into an object, awaits other things, and `save`s all columns of what it
read. So an await is a step, any other request may run between two steps, and a
save may carry columns that somebody else has changed meanwhile. Most of what
can go wrong here goes wrong there, and a unit test, which runs one handler at a
time on a fake repository, does not get there.

## 1. The system

| component | state | operations | talks to | hard |
|---|---|---|---|---|
| **Locker inventory** (`locations`: LockersService, InventoryKitService, RentalEventHandlers, the two repositories) | tables `lockers`, `inventory_kits` | create, PATCH locker, PATCH kit, retire kit, `reserveAtomic`, `release` | the Rentals module calls `reserveAtomic` and publishes RentalFinished/RentalCancelled; bookability reads it | whole-row saves racing reservations and releases; the un-awaited release loop; crashes |
| **Station health monitor** (StationHealthCheckerCron/Service, StationHealthEvaluator, StationsService, SmartLockGatewayFactoryImpl) | table `stations`; per process: `evaluatorState`, the gateway cache | tick every 30 s, probe, judge, save; admin PATCH | the controllers; locker access shares the cache | overlapping ticks, a tick racing a PATCH, a save that fails after the memory changed, restarts |
| **Locker access and auto-relock** (LockerAccessService, AutoRelockProducer/Worker, the gateways) | the locks; the BullMQ queue | open, close, schedule, cancel, relock | Home Assistant, Redis | a command and its job are two calls; job ids; stalled jobs; liveness |
| **Organizations and admin accounts** (OrganizationService, AdminAccountService) | tables `organizations`, `admin_accounts` | create with a first admin, change settings, suspend, create admin, disable admin | organizations calls accounts | check-then-act, whole-row saves, a creation in two saves |
| **Renters** (RenterService, RenterAnonymizer) | table `renters` | register, locale, re-consent, request deletion, disable, re-enable, anonymize | consent registry | whole-row saves against deletion, a read judged and another one changed |
| Consent statements (ConsentStatementRegistry) | a map in memory | publish, requires re-consent | renters | nothing calls publish |
| **Tariffs and quotes** (TariffService, PricingService, OvertimeCalculator) | table `tariffs` | create, update, soft delete, quote, overtime | bookability, later Rentals | update racing delete and re-creation; rounding to bands; a price list that changes under a rental |
| **Bookability** (BookableStationsService, BookabilityRule) | none | the renter's view of stations and of a station's lockers | reads all of `locations` and `pricing` | a view of several reads, with no transaction, while everything is written |
| **Authentication** (AuthService, JwtTokenService) | the used refresh tokens, in the memory of the process | login, refresh, Telegram exchange | reads accounts and renters | check, await, mark; restarts; accounts disabled under a session |
| Door events, reconciliation job | none | publish an event; write a log line | | |

What makes each correct: a locker belongs to the rental its row names and to no
other; a locker holds at most one kit; `is_active` is the admin's intent minus
the offline stations and the intent is the admin's alone; an open door is locked
again; slugs, emails and phones are unique, an organization keeps an admin, a
suspended one stays as it is, no change of settings is lost; a deletion request
is final and anonymization waits for the retention; a duration has one price, a
deleted tariff stays deleted, and overtime is charged as the price list says; a
locker that stays bookable is shown, and what is shown was bookable; a refresh
exchanges one token for one, and a disabled account's session ends.

The Rentals module is not in the repository yet; its side is taken from the
repository port and event payloads `locations` defines for it, and marked
external. What is left out, and why, is in section 6.

## 2. The modules

| module | models | role |
|---|---|---|
| `LockerOwnership` | what `lockers` promises Rentals: claim, yield, rewritten by a third party | abstract |
| `KitPlacement` | what the kits promise bookability: one kit at a time moves, only into an empty locker | abstract |
| `OrganizationRegistry` | what organizations and accounts promise, in whole operations: unique slugs and emails, only active organizations change, an admin remains | abstract |
| `RenterLifecycle` | what a renter goes through, in whole operations with nothing between a read and its save | abstract |
| `LockerInventory` | both tables and every handler that writes them; implements the two above | detailed |
| `RefreshChains` | what rotating refresh tokens promises: a chain of tokens for each login, one usable at a time | abstract |
| `StationHealth` | one station, monitor and admin | detailed |
| `AutoRelock` | doors, access requests, queue, worker | detailed |
| `Accounts` | organizations and admin accounts; implements `OrganizationRegistry` | detailed |
| `Renters` | renters of one organization; implements `RenterLifecycle` | detailed |
| `Tariffs` | the price list of one kind of kit and type of day, and a rental that pays a quote | detailed |
| `Overtime` | the overtime calculation, used by `Tariffs` | pure operators |
| `Bookability` | the renter's two views, read by read, over the tables stations, lockers, kits and tariffs; composes `KitPlacement` | detailed |
| `Sessions` | login, refresh and exchange, and the tokens they hand out; implements `RefreshChains` | detailed |
| `<module>_proofs`, one beside each detailed module | TLAPS proofs (section 5) | proofs |
| `MC...` | symmetry sets for TLC | checking |

**How code becomes actions.** A slot of `requests` (or `ticks`) is an HTTP
request (or a cron tick) in flight: its record holds the local variables of the
handler and `pc`, the await it stands at. `Begin...` is the code up to the first
read; each later action is the code between two awaits. The `select` in a
repository's `save` only chooses between update and insert, and ids are fresh,
so a save is one step. A throw, at any await, ends the request and leaves what
it saved: `RequestFails`, `SaveTickFails`, `CommandFails`, `QueueFails`. A
restart (`Crash`, `Restart`) drops requests and process memory and keeps the
database and Redis.

**LockerInventory.** `lockers` holds the columns `status` and
`current_rental_id`; `kits` holds `locker_id`. Which kit a locker has is not a
column of `lockers`: it is joined in, so `assignKit` and `unassignKit` store
nothing. A locker PATCH is `BeginLockerPatch`, then, when the body names a kit,
`FindCurrentKit`, `FindKit`, `ClearKit`, `PlaceKit`, then `SaveLocker`; a kit
PATCH shares `FindCurrentKit`, `ClearKit` and `PlaceKit`; `BeginRetire` is a kit
PATCH to no locker, which is what `retire` and `save` amount to. Of the six
values of `status`, three are ever written. `softDelete` is called by no service.
`releaseLockers` starts its loop without awaiting it: `toRelease` is what is left
of it, and a crash, or the unhandled rejection of a release that throws, drops
it (`leaked`).

**StationHealth.** `row` is the station, `memory` its `evaluatorState`,
`gateway` the cached controller. A tick lists the organizations and passes over the
suspended ones (`ListOrganizations`), reads the stations (`ReadStation`), takes the gateway
when its turn comes (`Probe`), judges the answer (`Answer`) and saves a
transition (`SaveTick`). `consecutiveFailures` is only compared with 2 and is
counted to 2. A controller that stops answering between probe and answer is
seen as it is at the answer. `ForStation` is the gateway cache: the monitor fills it
with the settings of a row it read some time ago, a request that opens or closes a
locker (`ResolveGateway`) with those of the present row, and nothing empties it but
a restart. A PATCH may set isActive, the settings, both or neither. `Suspension` changes
the status of the organization, back to ACTIVE too: `activate` has no caller, but a
settings change that read the organization before may do it (Accounts). The stations of
a suspended organization are not checked, so `OutageSeen` and `RecoverySeen` promise
nothing for them; a tick that listed the organization before still runs to its end.

**AutoRelock.** `door` is the lock as the controller drives it, `job` the one
job a locker can have in Redis. BullMQ (add, remove, stalled jobs) is external.
`Relocked` is the identity on `door`: the worker locks the mock gateway's record
for the locker's *id*, never the lock named by `haLockEntityId`.

**Accounts**, **Renters.** Of the columns that no rule reads a set `Columns` is
kept, each either set since the organization was created or not; the other tables
leave them out. SUPER_ADMIN accounts are counted by no rule and
left out. Anonymized phones are one value, `Anonymous`, as in the code. Each implements an
abstract module in which an operation is one step: `OrganizationRegistry`, `RenterLifecycle`.
The mappings hide the rows a save has crossed (`lost`), and nothing else.

**Tariffs.** A PATCH or DELETE is `BeginChange` (findById, which also finds deleted
rows, and the change in memory) and `SaveChange` (the whole row, `deletedAt`
included). `Create` reads nothing first. `Duplicate` is the partial unique index,
which refuses INSERTs and UPDATEs alike: `create` maps the error to a 422, `update`
lets it through (`ChangeFails`). `Pay` is the Rentals module's side of a quote and
external. `Overtime!RoundUpToBand` sorts and searches as the code does; the
properties say the same with sets and quantifiers. `told` is the row that the
successful changes add up to, column by column.

**Bookability.** `view` is the one request being answered; `pc` names the read it
makes next (`listAvailable`, `findKit`, `listTariffs`, or `count`), `row` and
`day` what it read at its beginning and judges every locker by. A row is reduced
to what the answer depends on: a station to the set of conditions it meets, a
locker to its status and whether it is rented, the price list to the pairs of kit
type and day that have a live tariff. The writers are one action for each table;
which request writes what is in the modules above. A kit moves by
`KitPlacement!Move`, the abstract specification that `LockerInventory` is proved to
implement, so what holds here holds for the detailed table of kits. The locker
rows read are one row per locker because a locker never holds two kits
(`OneKit`, section 5). Several views at a time need no modelling: a view writes nothing.

**Sessions.** A token is signed and stored nowhere; `refresh` and `access` are
what was signed, `used` is `usedRefreshTokens`. A refresh is looked up and
verified (`BeginRefresh`), the account read (`FindById`), and the token marked
used and the new pair signed in one go (`Renew`). Every access token expires one
lifetime after it was signed, so the latest of each subject stands for all. One
tick of the clock is as short as wished: any number of steps fit into one.

**Histories.** `overwritten`, `leaked`, `clean`, `asked`, `disturbed`, `told`,
`crossed`, `raced`, `bootstrapped`, `redisabled`, `contested`, `tainted`, `openUntil`,
`moved`,
and in a view `steady`, `snapshot` and `restated`, only record what happened; no
guard reads them. They name the exact race that breaks a promise, so that the
properties can say that *nothing else* breaks it.

## 3. The runs

| run | shows | bounds |
|---|---|---|
| `locker_booking` | StatusAgreesWithRental, RowNamesItsHolder, refinement of LockerOwnership | 2 lockers, 2 rentals, 2 requests |
| `kit_assignment` | TypeOK, OneKitPerLocker, refinement of KitPlacement | 2 lockers, 3 kits, 2 requests |
| `locker_exclusive` | **violated**: BR-05.5 | 1 locker, 2 rentals, 1 request |
| `station_health` | TypeOK, EffectiveActive, CleanStateAgrees, GatewayOfRow, OutageSeen, RecoverySeen | 2 ticks, 1 request, 2 controllers |
| `auto_relock` | TypeOK, QueueMirrorsDoors | 2 lockers, 2 requests |
| `relock_eventually` | **violated**: FR-013, BR-03.4 | 1 locker, 1 request, no failures |
| `accounts` | TypeOK, OneRowEach, AdminRemains, ChangesAddUp, SuspensionFreezes, refinement of OrganizationRegistry | 2 organizations, 2 admins, 2 slugs, 2 emails, 2 requests, 2 columns |
| `admin_lockout` | **violated**: DR-002 | 1 organization, 2 admins, 2 requests |
| `renters` | TypeOK, DeletionSticks, OneRenterPerPhone, AnonymizedWhenDue, refinement of RenterLifecycle | 2 rows, 1 phone, 2 requests, retention 2 of a clock 0..2 |
| `tariffs` | TypeOK, OnePricePerDuration, TariffAsTold, OvertimeTopsUp, LongerNeverCheaper | 3 rows, durations 1, 2 and 4, 2 prices, use up to 5, 2 requests, 1 rental |
| `sessions` | TypeOK, RotationAddsUp, RunsOut, ClosedForGood, refinement of RefreshChains | 1 admin, 1 renter, 3 refresh tokens, 2 requests, clock 0..3, lifetimes 1 and 2 |
| `bookability` | TypeOK, SteadyOffered, OffersOfOneMoment, SteadyCounted | 1 station, 2 lockers, 2 kits of 2 types, 2 types of day; visibility and the statuses AVAILABLE and RESERVED vary |

Why these bounds are enough to be interesting: every race in this code is
between two parties over one row, so two requests (or ticks, or rentals) and two
rows make each of them happen, with a third party in the kit run, where the
locker's old kit, its new kit and another request's kit are three. The clock and
the retention of `renters` are bounds of the model; the code's is three years. The
durations of `tariffs` leave a gap between two bands and `LongestUse` goes past
the last, so every case of the rounding occurs; with three
bands a middle one can be deleted, replaced or priced out of order.
Three refresh tokens are a login and two refreshes, or two logins and a refresh, so
a chain crosses a restart, a disable and the end of a lifetime; with lifetimes 1
and 2 the access token ends before the refresh token does, as with the code's 15
minutes and 7 days. That a chain stays its owner's takes two admins to go wrong, and
is the theorem's (`ImplementsChains`). A view needs two lockers, so that one can lack what
the other has, and two kits of two types, so that they can change places;
stations are only read one after the other. Of the three conditions
of a station one varies (`Varying`), and of the statuses two (`Statuses`): the
code asks for all conditions at once and for AVAILABLE alone.
No counter in the code is cut short in a way a property could see
(`failures` above). Slots of requests bound how many requests are in flight, not
how many come one after the other.

`CHECK_DEADLOCK` is left on in every run.

**Fairness.** `StationHealth!FairSpec`: the cron fires for ever, a probe answers
or times out (3 s), a save returns or throws, so each step of a tick is weakly
fair. Nothing is assumed of admins, controllers or restarts.
`AutoRelock!FairSpec`: the code of a request runs on, a live worker takes a due
job (weak) and runs it, although BullMQ may hand it back as early before
(`Relock` is strongly fair). `OutageSeen` and `RecoverySeen` speak of behaviours
that eventually have no restart, in which the admin leaves the station on, its
organization is not suspended from some time on, and no save fails or crosses
another's read: without the last condition the memory and the row may disagree
for good, which is itself a hazard (`CleanStateAgrees`).

## 4. What the violated runs show

1. **BR-05.5, exclusive reservation** (`locker_exclusive`). A PATCH reads a free
   locker; a rental reserves it; the PATCH saves the row it read, with no rental;
   a second rental reserves it. The conditional UPDATE of `reserveAtomic` cannot
   help, the PATCH undoes it. It is the only way: `ExclusiveIfRentalsWait` (section 5).
2. **FR-013/BR-03.4, relock** (`relock_eventually`). See AutoRelock above.
3. **DR-002, no admin lockout** (`admin_lockout`). Two disables count two admins
   each before either saves. One request at a time cannot do it (`SafeOneByOne`).

Also noticed while modelling, without a run of their own:

- a tick that read an active station before the admin switches it off saves its
  transition with the intent it read (FR-010); `CleanStateAgrees` excepts it, and
  `IntentIfChecksWait` shows that nothing else loses the admin's word;
- `disableByAdmin` overwrites the reason DELETION_REQUEST, and `reEnableByAdmin`
  checks the reason only (FR-029); `DeletionSticks` excepts it (`redisabled`);
- a price PATCH that crosses a DELETE brings the tariff back, which `TariffAsTold`
  excepts;
- the overtime surcharge subtracts today's price of the paid duration, 0 if it is
  not offered any more, and not what was paid, which `OvertimeTopsUp` excepts;
- a refresh token used by two requests at the same time, or again after a restart,
  is accepted twice (`tainted` in `RotationAddsUp`);
- an access token of a disabled account is served until it expires, and
  `RunsOut` is all that bounds it;
- a view judges its lockers by a station, a kit type, a day and tariffs of different
  moments (BR-03.2 says "simultaneously"); `OffersOfOneMoment` says which writes it
  takes to see the difference (`restated`);
- stations switched off are hidden from renters instead of shown as unavailable;
- the unique index on (organization, phone) is in no migration;
- the reconciliation job the contracts describe does nothing;
- consent to an old statement would be valid again after an editorial statement
  follows a material one (DR-005), if anything published statements;
- an organization whose first admin cannot be created stays, without an admin;
- the gateway cache outlives a change of the connection settings, until a restart
  (`moved` in `GatewayOfRow`), where spec 006 (lines 213-214) says that after a PATCH
  "the old token is no longer used";
- suspension is reversible in spec 005 (data-model.md:124); `activate` has no caller.

## 5. Proofs

Each detailed module has a proof module beside it, which proves its safety
properties for every number of rows, requests, ticks, tokens and so on. The
theorems, each of the form `Spec => []Inv` unless it is an action property, a
specification, or has a further hypothesis:

| module | theorem | states |
|---|---|---|
| `LockerInventory_proofs` | `TypeCorrect` | `TypeOK` |
| | `StatusAgrees` | `StatusAgreesWithRental` |
| | `HolderCorrect` | `RowNamesItsHolder` |
| | `OneKit` | `OneKitPerLocker` |
| | `ImplementsOwnership` | `Spec => OwnershipSpec` |
| | `ImplementsPlacement` | `Spec => PlacementSpec` |
| | `ExclusiveIfRentalsWait` | `ExclusiveReservation`, if no reservation or release falls inside a locker PATCH |
| `StationHealth_proofs` | `TypeCorrect` | `TypeOK` |
| | `ActiveIsEffective` | `EffectiveActive` |
| | `CleanAgrees` | `CleanStateAgrees` |
| | `GatewayIsOfRow` | `GatewayOfRow` |
| | `IntentIfChecksWait` | `row.intended = asked`, if no health check has a station it read while a PATCH is under way |
| `AutoRelock_proofs` | `TypeCorrect` | `TypeOK` |
| | `QueueCorrect` | `QueueMirrorsDoors` |
| `Accounts_proofs` | `TypeCorrect` | `TypeOK` |
| | `OneRow` | `OneRowEach` |
| | `AdminStays` | `AdminRemains` |
| | `AddsUp` | `ChangesAddUp` |
| | `Freezes` | `SuspensionFreezes` (action property) |
| | `ImplementsRegistry` | `Spec => RegistrySpec` |
| | `SafeOneByOne` | `NoLockout` and `orgs = told`, one request at a time |
| `Renters_proofs` | `TypeCorrect` | `TypeOK` |
| | `DeletionStays` | `DeletionSticks` |
| | `OnePhone` | `OneRenterPerPhone` |
| | `AnonymizedInTime` | `AnonymizedWhenDue` (action property) |
| | `ImplementsLifecycle` | `Spec => LifecycleSpec` |
| | `SafeOneByOne` | phones unique and deletions final, one request at a time |
| `Tariffs_proofs` | `TypeCorrect` | `TypeOK` |
| | `OnePrice` | `OnePricePerDuration` |
| | `AsTold` | `TariffAsTold` |
| | `ToppedUp` | `OvertimeTopsUp` |
| | `NotCheaper` | `LongerNeverCheaper` |
| | `SafeOneByOne` | `tariffs = told`, one change at a time |
| `Sessions_proofs` | `TypeCorrect` | `TypeOK` |
| | `RotationHolds` | `RotationAddsUp` |
| | `SessionsRunOut` | `RunsOut` |
| | `NoTokenWhenClosed` | `ClosedForGood` (action property) |
| | `ImplementsChains` | `Spec => ChainsSpec` |
| | `RotationSafe` | one unused token per login, if no token is presented twice at a time and nothing restarts |
| `Bookability_proofs` | `TypeCorrect` | `TypeOK` |
| | `OffersWhatIsSteady` | `SteadyOffered` |
| | `OneMoment` | `OffersOfOneMoment` |
| | `CountsWhatIsSteady` | `SteadyCounted` |

**Assumptions.** All are named in the modules that declare the constants, and TLC
evaluates them in every run. `NoneAssumption`, `RowsAssumption`,
`SlotsAssumption`, `SentinelsAssumption` and `IdsAssumption` say that the marker
for NULL is no id, row or slot, and that ids of different kinds differ;
`BoundsAssumption`, `TtlAssumption` and `TariffAssumption` that times,
lifetimes and prices are natural numbers; `InputsAssumption`, `MayFailAssumption`,
`ControllersAssumption` and `StationsAssumption` what the inputs and the fixed
columns are. `StationsAssumption` also makes the lockers finite, which counting
them needs.

**Why the invariants are strengthened.** Nearly every property fails to be
inductive for the same reason: a handler uses at one await what an earlier one put
in its record, and saves it over what is there by then. So every proof has an
invariant of three parts: what each `pc` may rely on (`RequestsOK`, `ChangesOK`,
`InFlightOK`, `ViewOK`), that a row in memory satisfies what the row in the table
does, and, where the property has an exception, that *without* the recorded race the
row in memory is still the row of the table but for the column being changed
(`ReadsCurrent`). The exceptions (`crossed`, `raced`, `clean`, `overwritten`, ...)
are then shown to be the only ones, and that is what the theorems say: of the many
ways these handlers interleave, only the named ones do harm.

*Locker inventory.* `TypesAndStatus` goes through all actions for `TypeOK` and
`StatusAgreesWithRental`: a PATCH brings back a row from memory, so the proof needs
that it agreed when it was read. `RowNamesItsHolder` relates a row to the rentals
that count on the locker; it needs `ReleaseOK`: a release loop and what a crash left
of it are disjoint parts of what the rental held, and only an ended rental has
them. One lemma per writing action says what it does to a locker's rental column
and to its holders (`CreateEffect` ... `SameEffect`). The heart is
`ReleaseEffect`: the UPDATE of `release` names no rental, and is right because the
rental still in its loop is the one the row names. The mapping to `LockerOwnership`
takes `owner` from the rental column, `claims` from `Holders`, `void` from
`overwritten`; the same lemmas show that a reservation is a Claim, a turn of
the release loop a Yield, a save over another rental a Rewrite, and everything else
a stutter. `KitStep` says that a kit row changes alone and never into a taken
locker; `OneKit` and `ImplementsPlacement` follow. For `ExclusiveIfRentalsWait` the
invariant is `Carried`: every PATCH of a locker in flight carries the rental its row
has, and a PATCH of a kit never saves a locker; two PATCHes of one locker may overlap.

*Station health.* `CopiesEffective` extends the derivation of `is_active` to every
row in flight. For `CleanStateAgrees` the monitor's memory is tied to the tick that
is alone in saving: it saves the status the memory already has. `SettingsCurrent`
ties the settings ticks carry to the row, since a tick fills the cache from its copy.
`WordKept`, for FR-010, says that every tick that has read the station read the admin's last word.

*Auto-relock.* `Handled`, for each undisturbed locker: one request at most, a job
that has not run, and door and job apart by exactly the step the request is at.

*Accounts.* `OthersRemain`: a disable that has counted leaves another active
admin, until a second one of the organization is saved inside its window; `Counted`
names that window and is what the proof of `SaveDisabledStep` turns on. The count
of at least two enters through `FS_Subset` and `FS_Singleton`. The mapping to
`OrganizationRegistry` places each operation at its save, where what it was judged by
has to hold still: `ReadsCurrent` gives that for a change, the unique constraints for a
creation, `OthersRemain` for a disable. `OrgsThere` adds that a request to add an admin names
an organization that is there.

*Renters.* `ReadsCurrent` says for each kind of change how its row differs from the
renter: a locale or re-consent keeps status and reason, a re-enabling read no deletion
request, an anonymization a disabled renter past the retention. `FirstOfPhone` says
that a registration about to be saved is the first, unless its phone is contested.
The mapping to `RenterLifecycle` also places an operation at its save. `ReadsCurrent`
only says which columns a change keeps; `WholeChanges` says that the row to be saved is
the whole change of the present row, and `DatesOK` that no consent is of the future.
A re-consent carries a date read before its save, so it may be older than the year of the
step; that it is not older than the renter's last consent is what `ReConsents` keeps.

*Tariffs.* The unique index is `Unique`; that an UPDATE which revives a deleted row
also meets it is what `OnePrice` needs. The overtime calculation sorts the bands with
`CHOOSE`, and everything rests on such a sort existing (`ByMinutes`): the bands are
finitely many (`FiniteStep`: only finitely many tariffs are ever created), their
durations differ, so a band's rank is a bijection onto 1..n. From there a search for the
first band that covers the use is a search for the least duration that does, and
`TopsUp` and `NeverCheaper` are arithmetic.

*Sessions.* The chain of each login has exactly one unused token; in flight,
`PresentsUnused` and `OneLeft` say that what a refresh presents is that token
unless two present the same one. `OpenOK` bounds when a request in flight can have
read the account. For `ImplementsChains`, `OwnTokens` adds that a refresh under way is of
its token's account; `StartIsLogin`, `ExchangeIsRefresh` and `TaintIsLose` say what each
step shows of a chain.

*Bookability.* `SteadyAhead` is the loop invariant of the view: a steady offer is
already in the answer, or still ahead in the loop with its kit type; `MomentRead`
says the same, with equality, of the offers of the one moment; `CountedOrAhead` is
the one of the list of stations.

**What only overlap can break.** A property with an exception says where the harm
comes from; the theorems with a hypothesis say the converse, that without the overlap
there is no exception left, not even when requests fail at any await or the process
crashes. `OneAtATime` is at most one request in flight, which is what a queue, a lock or a
serializable transaction around each handler would give. Where less is enough the
hypothesis is less: `RentalsWait` constrains only reservations and releases of a locker
that is being PATCHed, `ChecksWait` only checks during a PATCH, `TokensApart` only
refreshes of one token. Each hypothesis restricts interleavings that the code allows; the
histories in the conclusion of the unconditional theorem are shown to stay empty under it.

**Only model-checked.** Liveness (`OutageSeen`, `RecoverySeen`), which needs fairness and
ENABLED. The violated properties are, of course, not theorems as they stand.

## 6. What is not modelled, and what could follow

*Not modelled, and why.*

- **Consent statements**: `publish` has no caller, so the registry stays at v1, and
  neither `requiresReConsent` nor `Renter.canBook` is called: there is no behaviour.
- **Door events**: one read of a station, then a publication nobody subscribes to.
- **Reconciliation job**: writes a log line. What it should repair is `leaked`.
- **Controllers, DTOs, guards, tenant context, impersonation, hashing, encryption,
  i18n, health endpoints, migrations, seeding**: no state of their own that the components
  race on. That every query filters by organization is a property of each query and
  of no interleaving. The guards' one consequence in time, that they trust a token
  until it expires, is in `Sessions`.
- **Events** between modules: they are emitted in the process and nothing subscribes
  to them; the handlers of RentalFinished and RentalCancelled, which `locations`
  exports for the Rentals module, are in `LockerInventory`.
- **Admin panel and Telegram bot**: skeletons without logic.
- Within the modelled components: `softDelete` of lockers and kits, which nothing
  calls; SUPER_ADMIN accounts; the relock without Redis, where nothing is scheduled.

*What could follow.* The Rentals module, once it is written, replaces the external
side of `LockerInventory` and of `Pay`; then a booking can be followed from the view
to the reservation and to the overtime. If requests start to run in transactions,
or rows get version columns, the exceptions named by the histories are what should
disappear from the properties.
