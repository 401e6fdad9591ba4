# A TLA+ verification of the FRC scheduler server

The server (`src/app`, FastAPI on PostgreSQL) generates match schedules for
FIRST Robotics Competition events, assigns teams to them, and keeps the
schedules of an event through the weekend: edited, locked, activated, marked
official, forked, restored, frozen, imported from files, shown live. This
directory holds TLA+ modules of the server, the TLC configurations that check
them, and TLAPS proofs.

## 1. The system

| Component | State | Operations | What makes it correct |
|---|---|---|---|
| **Schedule lifecycle** (`main.py` 2067-3163, 1670-1894, 4627-4886; `db.py` 130-347) | `assigned_schedules`, `assigned_schedule_history`, `assigned_schedule_lock_events`, `abstract_schedules`, freeze columns of `events` | assign, PDF import (new / replace), patch, restore, duplicate, lock, unlock, activate, mark / unmark official, freeze, unfreeze, delete, delete abstract | one active and one official schedule; what was official never changes; overwritten content is recoverable; locks and freezes keep others out; the audit log agrees with the row |
| **Concurrent requests** (same code; `db.py` 711, `entrypoint.sh`, `openshift/04-deployment.yaml`) | transactions in flight, row locks | every read is an `await` at which other requests commit; READ COMMITTED, no `SELECT FOR UPDATE` | which of the properties above survive |
| **Long requests** (`main.py` 60-160, 996-1338, 1681-1894, 334-991) | process pool, generation semaphore, the rows they read and store | generate, create, assign; event and roster edits, event imports | the best answer is stored, on rows that still exist; every request ends |
| **Match generator** (`scheduler.py` 1-1480) | counters, flags, matches | round 1, open scheduling, sweeps, integrity check | surrogates where FRC 10.5.2 puts them, every seat filled |
| **Annealing and post passes** (`scheduler.py` 1489-2282, `post_passes/`) | a schedule and incremental tables | swaps, flips, reseatings, accept / undo, best snapshot | tables equal the recomputed ones; never worse than the input; higher criteria kept |
| **Quality** (`quality*.py`, `frc_compliance.py`) | none | floors, metrics, curves, composite | floors are bounds; a better schedule has no fewer points |
| **Day plans** (`day_config_v2.py`, `pdf_dayplan.py`, `schedule_derive.py`, `scripts/migrate_db_to_v2.py`) | `day_config` columns of three tables | V1 to V2, V2 to V1, validation, derivation, script | no window lost or moved; no match in a break or in the playoffs |
| **Live data** (`live.py`, `tba.py`, `frc_events.py`, `statbotics.py`) | `event_live_sync`, `match_results`, `team_rankings`, `queue_status` | lazy throttled refresh, simulation, Nexus push and pull | no result lost, every request ends, the state is fresh in the end |
| **Imports** (`main.py` 3822-4886, `pdf_*`, `xlsx_extract.py`, `csv_extract.py`, `llm_client.py`) | `pdf_imports`, the preview in the browser | upload, parse, ask a model, repair its reply, edit, commit | what is committed is what was confirmed |
| Public view (`main.py` 1979-2059, 3189-3668) | none | which schedule `/view` shows, slots to teams | shows the schedule that was stored |
| Auth and tokens (`auth.py`, `personal_access_tokens.py`, `main.py` 4910-5161) | `users`, access tokens | sign in, mint, verify, revoke | no use after revocation or expiry |
| Web client, rendering, scripts, deployment | | | not part of the server's logic |

How they interact: the long requests read the roster, run the generator, the
annealing and the post passes in a pool of processes, and insert the rows the
lifecycle then owns; the quality report grades what the searches return. An
import commits a schedule without the generator. Day plans are columns of the
schedules, written by the editor, by imports and by a migration script, and
read by the simulation of the live data. The public view and the live data
read "the" active schedule, so they rely on there being one. The lifecycle
asks the events component for one thing, the freeze, and auth for one thing,
the user and the admin flag of a request. All shared state is in the database;
handlers run in one event loop or in several processes (`WEB_WORKERS`, two
replicas).

What is hard: a handler decides on copies it loaded and commits later without
locking or rereading (stale checks, lost updates); permissions depend on long
histories (was it *ever* official, was it made *before this* freeze); deletes
cascade; workers, upstream services, the migration script and the language
model fail in the middle; searches keep incremental tables that nothing
recomputes. `PROJECT.json` lists each hazard at its line with the properties
that cover it, or says why none does.

## 2. Modules

| Module | Models |
|---|---|
| `LifecycleRules` | the rows, and the permission rules as pure predicates over loaded rows: `IsEventFrozen`, `ProtectedByFreeze` (`_schedule_protected_by_event_freeze`), `WasEverOfficial`, and one `May...` guard per endpoint |
| `ScheduleLifecycle` | the tables as variables and one action per endpoint, a whole handler from first read to commit; the properties of the core |
| `OfficialRecord` | abstract specification: at most one schedule is official; the content of one that ever was is sealed. `ScheduleLifecycle` implements it (`KeepsOfficialRecord`) |
| `LifecycleRaces` | the same handlers as processes: load the row, load the event, run the query and decide, (for bulk updates: start the UPDATE, get its row locks,) commit. With one request in flight it implements `ScheduleLifecycle` (`RefinesSerial`) |
| `ScheduleRequests` | the long requests: semaphore, process pool, trials, disconnects, worker deaths, restarts, against edits of the event and its roster |
| `LiveSync` | live data: requests that load, call TBA or Nexus, wait for row locks and write; the simulation that replaces them |
| `Construction` | the greedy construction of `generate_matches`, for every outcome of its random choices |
| `Annealer` | `_sa_optimize`, the two post passes and the CP-SAT polish on one schedule, with their tables |
| `Quality` | floors, metrics and composite over the schedules of `Annealer` |
| `DayPlans` | the two shapes of a day plan, validation and both conversions, as operators |
| `PlanSources` | plans from PDF blocks and from match times; the start times the simulation computes |
| `PlanStore` | the rows that hold plans, the endpoints that write them, the migration script and its crashes |
| `LlmReply` | a reply of the language model cut anywhere, and the repairs of `_parse_json_response` |
| `Imports` | uploads, the cache by content hash, previews, edits, commits; composes with `LlmReply` |
| `Records` | `Over`, a record over another: the defaults of a request |
| `MC...` | constants for TLC |
| `ScheduleLifecycleProofs` | proofs about `ScheduleLifecycle`: its types and the official record; guards, history, one of each, lineage and lock log |
| `RaceProofs` | proofs about `LifecycleRaces` |
| `PlanProofs` | proofs about `PlanStore`, and about the conversions and computations of `DayPlans` and `PlanSources` |
| `RequestProofs`, `LiveSyncProofs`, `ImportProofs`, `ConstructionProofs`, `AnnealerProofs` | proofs about `ScheduleRequests`, `LiveSync`, `Imports`, `Construction`, and `Annealer` with `Quality` |

**Lifecycle.** `rows[s]` is a row of `assigned_schedules`. The columns a
handler writes together are one field (`locked_at`, `locked_by_user_id`,
`locked_by_name` are `lockedBy`; the `official_*` columns are `officialBy`).
`content` is what a history row snapshots, in two parts: `day` (day
configuration and practice matches, which PATCH may replace) and `slots` (the
slot map, which it may not). A slot map is represented by the `Shapes` value of
the matches it was made for, because a permutation of slots has a meaning only
with those matches. A history row has no column for the matches, so a slot map that
comes back after an import may not fit them (`SlotsFitTheMatches`, section 3).
`hist[s]` is the set of history rows, `locklog[s]` the sequence of lock events,
`plans[p]` the matches of an abstract schedule. Time is counted in freezes:
`createdAt` is the number of freezes before the insert, so that
`createdAt < frozenAt` is the code's `created_at < locked_at`. `actor` is not
stored by the code: it is the user of the last request, for properties that say
who may do what. Requests the handler refuses or answers idempotently change
nothing and are stuttering steps.

`live` and `nextId`, `nextPlan` are the tables' primary keys. A deleted
schedule's id is not used again (a database sequence).

`LifecycleRaces` keeps for each request in flight the copies it loaded. Commits
write the columns the handler changed and no others, as the ORM does
(`CommitMark` writes no lock columns when the loaded row was locked). A bulk
`UPDATE ... SET is_active = false` works on the rows that are committed when it
starts, waits for the row locks of other bulk updates and holds its own until
the commit. A commit fails if its row or a foreign key target is gone
(`CommitFails`). These are PostgreSQL's and SQLAlchemy's parts and are marked
external in `map`. `UniqueIndex` says whether the partial unique index on the
official schedule exists: only the hand-run
`migrate_schedule_history_and_official.sql` creates it, `init_db` does not. The
runs have it; without it two requests make two schedules official.

**Long requests.** A request of `ScheduleRequests` is a record with its
program counter and what it has read. `asyncio.Semaphore` is the queue
`waiters`, served in order, and `Permits`; the pool is `up` or, once a process
died, `broken` until a restart, as `get_pool` caches it. A score is a rank: the
code compares lexicographic tuples and only their order matters. `assign` reads
the abstract schedule and the roster first and stores minutes later; foreign
keys are the only thing the store checks again.

**Generator.** In `Construction` a match is a set of teams and the subset
flagged as surrogates; who is sampled depends on scores and the seed, so any
sample is allowed, and the guards are the pools the code samples from.
`Annealer` takes a schedule as construction leaves it and keeps next to it the
tables the code keeps (`plays`, `par`, `opp`, `st`, `colour`, `sur`); a move updates them
by the contributions of the matches it touches, and an undone move repeats the
move. Any move may be proposed and any worse one accepted that the code's
filters let through, so iteration counts are the only bound (`Moves`). The
polish may return any answer the solver may: it gets no hint and no bound, and it
reseats both alliances of every match it changes, each by its own permutation.
`sur`, the surrogate count per team, drifts in the code when two teams of one
match are swapped and their flags stay where they are (`scheduler.py` 1819-1823);
the model updates it the same way, the tie-breaker it feeds is compared as the
code compares it, and no property says that it is the schedule's.
`Quality` counts in thousandths of a point; `BestKnown` is what the canonical
library gives as best-known floors, for any of the criteria.

**Day plans.** Times are minutes and 0 is "no time given". `PlanStore` follows
one row of each of the three tables; `wanted` is a ghost: what the row was last
given, with which the stored plan must agree in every window. Loops of the code
are recursive functions of a step number: the ranks of days, the slots of a day,
the walk of the simulation. `WellTimed` is what the model asks of plans stored
before V2, which nothing ever validated: days have hours and windows end after
they start. Of another plan the script makes a row that every later save
refuses. `Traffic` says whether the server accepts writes while the script runs; it does in
the run. The script writes back a copy of the whole table it read, so a plan saved
between its read and its commit of that table is lost: `wanted` then says that the
row was given by the script, and `SavesAreKept` that nothing else is lost and that
only the assigned row can be. (docs/DB_V2_MIGRATION.md:259 and 285 call the script
"safe with traffic", which holds if no plan is saved in that window.) The simulation
reads the keys of a V1 day and every write stores V2, so `Simulated` makes of a V2
plan days of the default hours without breaks. Derived times are written modulo a
day (`Clock`).

**Live data.** A match row is known by where its result came from (`absent`, `null`,
`real`, `sim`). Locks are derived from the program counters: a refresh holds its
match rows from the flush to the commit. A flush takes all its row locks in one step
where the code upserts row by row, which with the one match of the run is the same.
An INSERT of a key that was committed meanwhile fails the transaction (`Abort`).
PostgreSQL kills one of two transactions that wait for each other
(`DeadlockVictim`).

**Imports.** `LlmReply` writes a document as tokens and cuts it anywhere; what
`json.loads` accepts is what spells a document, so a repair is right exactly if
its output spells the document of the complete items. `Imports` keeps the cache
by file, one request per client, the preview that stays in the browser across a
restart of the server, and the reads of a commit that are not repeated.

## 3. Runs

`CHECK_DEADLOCK FALSE` is there because the bounds on ids, freezes, events or moves
stop the model; `long_requests` and `imports` check deadlock. `VIEW WithoutActor`
leaves out `actor`, which every step writes and none reads, so states that differ
only in it have the same future; TLC evaluates action properties on every step it
generates.

| Run | Instance | Shows |
|---|---|---|
| `lifecycle` | two users and an admin, 2 schedules, 2 abstract schedules of 2 shapes, 2 days, 2 freezes, 3 lock events | the safety of schedules in several hands: `OfficialIsLocked`, `EverOfficialKeepsContent`, `LockLogAgrees`, `OverwrittenContentKept`, `FreezeProtects`, `LockExcludesOthers`; what relates schedules: `AtMostOneOfEach` (active, official), `LineageEnds`, `ActivationKeepsHeldActive`; and the refinement of `OfficialRecord`, `KeepsOfficialRecord` |
| `racing_requests` | two users; one request in flight, every endpoint, from an event without schedules; or two requests that activate, lock, unlock, mark or delete among 2 schedules | the split handlers take the steps of `ScheduleLifecycle` (`SerialPartRefines`), no schedule points at a source or an abstract schedule that is gone (`ReferencesHold`), `AtMostOneOfEach` (active, and with the index official), `LockMatchesLastEvent` |
| `long_requests` | two requests, one permit, two trials, two teams, one abstract schedule; one requester may bypass the freeze | the stored schedule is the best answer and stands on rows that exist (`StoredIsSound`); `RequestsEnd` |
| `live_data` | two requests of every kind, one match, TBA and Nexus | `KeepsReported`, `FlushedRowsHold` (what a refresh has flushed is there until it commits), `RequestsEnd`, `EventuallyFresh` |
| `construction` | alliances of 2; 5 teams with quotas 1 to 5, 6 with 1 to 3, 7 with 2 | `FlagsAreRight`, `BuiltOrShort` |
| `annealing` | six teams, five matches, two surrogates; two swaps, one move of each post pass, one match flipped and one reseated on both sides by the polish; best-known values for two criteria | `SearchKeepsTheBooks`, `NeverWorse`, `HigherCriteriaStand`, `GradesStand` |
| `day_plans` | 5 typed plans, PDF blocks on up to 3 days, match times with gaps, past midnight and over several days; 2 saves, 2 runs of the script, with traffic | `SavesAreKept`, `V1ViewIsFaithful`, `QualsStopForPlayoffs`, `ClocksHoldTheMatches` |
| `imports` | two clients, a workbook, a match PDF, a day plan PDF, a long PDF; every cut of every reply | `CutRepliesAreNotMisread`, `SheetsComeBackWhole`, `CommitsTheConfirmedList` |

Each also checks its module's `TypeOK`, `racing_requests` apart, whose rows are
those of `ScheduleLifecycle`.

Bounds, and why they are enough to meet the cases. Two freezes let a schedule be
created in one and protected in the next; three lock events make a lock, an unlock
and the auto-lock of mark-official; two days an edit that changes something; two
shapes an import that changes the slot map, and the matches under it.
`MCScheduleLifecycle!Bounded` keeps these apart: the freezes and the lock events of
a schedule are three together; with a second shape nothing was frozen and there is
one lock event; with a second schedule moreover one user and the admin have acted,
and everything says the same. States beyond this are not left again, but every step
that leads to one is taken and checked. `MCLifecycleRaces!Bounded` caps what one
history of the first part spends (three schedules, abstract schedules and freezes
together, four with lock events), and the lock events and requests in flight of the
second. Two requests in flight show every window between one handler's check and
another's commit; what three do together is not checked. The second part leaves
inserts and edits out on purpose: a bulk demotion does not see a schedule inserted
meanwhile, and an edit can follow a mark (`patch_races_mark`). In `long_requests`
one permit makes one request wait for the other, and two trials let one raise or be
worse; `HasRoom` keeps an unused id for each generation in flight. The switch
between the surrogate models is a quota of 3, and the sizes of `construction` lie on
both sides of it with and without a remainder. Two swaps in `annealing` are a swap
that is accepted and one that is undone, in either order; the start is one where
every team plays its quota and its flagged appearances, the others are left to
`GradesHold`. Two saves and two script runs let a crash, a restore and a save fall
between two tables. `imports` cuts replies at every token. The theorems of section 4
remove the bounds for the components they are about.

Fairness. Only two runs assume any. `ScheduleRequests` has weak fairness of each
request's own steps: the event loop runs every ready coroutine, workers end, and
HTTP calls time out. Nothing makes a browser hang up, a worker die or the server
restart, and nothing keeps them from it. `LiveSync!FairSpec` has strong fairness
of each request's steps in the server (PostgreSQL grants row locks in the order
of the waiters; calls time out after 15 seconds), weak fairness of time passing,
and, for `EventuallyFresh`, what the property is about: the page polls, and TBA
answers in full again and again. Nobody has to push, start or stop.

Runs that expect a violation, each with its finding in `PROJECT.json`:

| Run | The comment | What the code does |
|---|---|---|
| `patch_races_mark` | once official, "frozen forever" | an edit that passed its check commits after the mark |
| `surrogate_leaves_third` | surrogates are placed on a team's third appearance | a swap of the annealing moves the team and its flag to any match |
| `restore_after_import` | the replaced matches stay "referenced by the history snapshot via abstract_schedule_id" | history has no such column: a restore lays the old slot map over the imported matches |
| `playoffs_over_quals` | the auto-cap "prevents the scheduler from placing quals into the playoff window" | playoffs are placed by a list of days that counts days whose qualification times were scrubbed, or on day 0, over the qualifications of another day |

`patch_races_mark` stands for a family: unlock, delete, lock and assign use the
same check-then-commit without a row lock, and the same window lets an unlock
or a deletion follow a mark, a second lock take over a first, a schedule be
inserted after a freeze or next to an activation, and two edits of one version
keep only the second one's history.

Other differences between comments and code met while modelling, which the models
follow the code in: imports and the activation of a copy do not ask for the freeze
(`main.py` 4843, 2592 against 2178, 2569); `_refresh_simulated` adds rankings again
without deleting them, so a second refresh after a completed match fails (`live.py`
352-438 against "Idempotent and throttled", 49: `SimulatedConflict`); a simulated
match may run into a break (505), and the plan simulated is one of default hours
without breaks, since every stored plan is V2 and only V1 keys are read (`live.py`
504-505: "honors day windows, breaks"); a plan derived from a list of several days
gets the window from its first match to its last, not "span from earliest to latest
match" (`schedule_derive.py` 235, 240-243), and times past midnight, accepted up to
47:59, are stored modulo a day (59, 66-71); the surrogate count per team is not
restored by repeating a swap within a match (`scheduler.py` 1819-1823 against
"Self-inverse", 1588-1589), and where the FIRST model runs out of teams under their
target some play over their quota without a flag (702-728); a day plan does not come
back identical from V1 when cycle changes count across days (`day_config_v2.py`
588).

Every property of a passing run has a mutant: the definition with a `_` suffix
before the one it replaces (a dropped guard, a swapped comparison, a missing
reset, an off-by-one) makes TLC find the property violated.

## 4. Proofs

Each theorem holds for every value of the constants that satisfies the named
assumptions of its module, which TLC evaluates on the runs. They say that sizes are
finite or natural where the code counts them, that a null value is not a value, and
that match and team numbers in a match list are integers: `ConstantsAssumption`
(admins are users, ids and bounds are naturals), `RaceAssumption` (as many abstract
schedules as schedules to begin with), `RequestsAssumption` (finitely many requests,
at least one permit and one trial), `LiveAssumption`, `ImportsAssumption` and
`NullsAssumption` (sheets are not PDFs; cached rows from before practice matches
have none; `NoRow` and `Absent` are neither rows nor lists), `ListsAssumption` (the
reply schema of `llm_client.py`, the sheet parsers and the preview hold numbers as
integers and flags as Booleans), `ShapeAssumption` (a finite roster with enough
teams for a match, a positive quota), `BoundsAssumption` and `StartsAssumption`
(finitely many teams and at least one; what construction hands over has distinct
teams in every match), `QuotaAssumption` and `MatchesAssumption` (two teams, integer
weights, best-known values are naturals; what construction hands over has as many
matches as its quota needs, as `BuiltOrShort` says of `Construction`),
`CyclesAssumption`, `PracticeAssumption` and `HoursAssumption` (default cycle times
are positive minutes, default hours are in order), `PlansAssumption` (plans, files
and times have the shapes their readers accept; plans from before V2 are
`WellTimed`). Nothing else is assumed of how many there are of anything.

| Theorem | States |
|---|---|
| `TypeCorrect` | `ScheduleLifecycle`: types, and a row exactly for the live schedules |
| `OneOfficial`, `OfficialLocked`, `EverOfficialFrozen` | the three facts about official schedules |
| `ImplementsOfficialRecord` | `KeepsOfficialRecord`: initial states and steps of the lifecycle map to those of `OfficialRecord` |
| `FrozenIsProtected`, `LocksExclude`, `OverwrittenIsKept`, `HeldActiveStays` | the four action properties |
| `ScheduleLifecycleProofs!OneOfEach` (with `OneActive`) | one active and one official schedule at most |
| `LineageIsFinite`, `LogAgreesWithLock` | the lineage pointer and the lock log |
| `ReferencesResolve`, `LocksMatchTheLog` | `LifecycleRaces`: `ReferencesHold` and `LockMatchesLastEvent`, for any number of requests in flight |
| `RaceProofs!OneOfEach` | `AtMostOneOfEach` under racing requests, with the unique index and without inserts |
| `SerialWhenAlone` | `RefinesSerial` (in the run, `SerialPartRefines`): with one request slot the split handlers take the steps of `ScheduleLifecycle` |
| `RequestTypes`, `StoredSound` | `ScheduleRequests`: permits and queue; `StoredIsSound` |
| `LiveTypes`, `ReportedIsKept`, `FlushedRowsStay` | `LiveSync`: `TypeOK`, `KeepsReported` (switches and every rebuild of simulated rows excepted), `FlushedRowsHold` |
| `ImportTypes`, `SheetsAreWhole`, `WritesTheConfirmedList` | `Imports`: `TypeOK`, `SheetsComeBackWhole`, `CommitsTheConfirmedList`, for lists of any length and any alliance size |
| `ConstructionTypes`, `SurrogatesAreRight`, `BuiltUnlessShort` | `Construction`: all three of its properties, for any roster, quota and number of seats in a match |
| `AnnealerTypes`, `BooksAreKept`, `SearchNeverWorse`, `CriteriaStand` | `Annealer`: all four of its properties (the books without the surrogate count per team), for any schedule, alliance size and number of moves |
| `GradesHold` | `Quality`: `GradesStand`, the floors and grades of every schedule of the searches, for any roster, quota, weights and best-known values; the floors of surrogates, colours and stations where the start plays its quota (`QuotaIsPlayed`) |
| `PlansAreWellShaped` | `PlanStore`: `TypeOK`, every stored plan is a V1 plan or a valid V2 plan |
| `V1ViewStands` | `PlanStore`: `V1ViewIsFaithful`, for plans of any number of days and blocks |
| `NoWindowIsLost` | `PlanStore`: `SavesAreKept`, for plans of any length; a save between the script's read and its commit of the assigned table is the one that is lost |
| `QualsLeaveRoomForPlayoffs` | `PlanStore`: `QualsStopForPlayoffs`: for any PDF no qualification window reaches into a playoff the PDF gives for that day; the plan's own playoffs for PDFs whose days agree |
| `MatchesFitTheirDays` | `PlanStore`: `ClocksHoldTheMatches`: derived plans for lists in order within one calendar day, simulations of any stored plan in the days as they are read |

The last five hold with the script under traffic too.

**Lifecycle.** Type correctness alone does not carry the rest: a fresh id must
not be that of an existing row, and rows without a schedule must be blank with
an empty history. `Stored` in `ScheduleLifecycleProofs` adds this (`IdsIssuedOnce`: every
live id is below `nextId`; `NoOrphans`: history and log of a dead id are
empty). `Sealed` adds what makes the official facts inductive: an official
schedule is locked and has its mark-official row, at most one is official, and
every mark-official row agrees with the row's content. They need each other:
content stays because PATCH, restore and replace look for the mark-official
row; the row is there because it is written in the step that sets the mark;
the lock stays because unlock asks for the mark. The refinement then needs only
that a step of the lifecycle that changes `OfficialNow` or `SealedContent` is a
mark, an unmark or a deletion.

The proofs about guards rest on two lemmas: `WhoTouches` (every change of content, lock,
mark or existence of a schedule comes from one of the guarded endpoints, the
import, or the drop of an abstract schedule) and `WhoPromotes` (a schedule that
becomes active was activated, or has just been inserted). `PlansIssuedOnce` is
there because the action properties tell an import by the fresh id of the abstract
schedule it brings. `LogAgrees` is `LockLogAgrees` together with the typing of
the log that its step on `Append` needs.

**Races.** `Inv` is `Typed` (the tables as `ScheduleLifecycle` stores them, and
for each stop of a handler what its request has read) and `Consistent`: what a
single transaction writes on both sides. A commit writes one of a few shapes
(`RowStep`, `InsertStep`, `RemoveStep`), each shown once to keep `Consistent`;
the copies a request holds are never trusted, only the foreign keys and the
row's existence at the commit. `RaceProofs!OneOfEach` has two hypotheses, and
both are the point. `UniqueIndex`: without the index two marks make two official
schedules. `NoInserts`: a bulk demotion works on the rows that were committed
when it started, so a schedule inserted as active meanwhile is not demoted.
Then `UpdatesSeeAll` holds (every bulk update in flight has seen every row that
will be there when it commits) and the last one to commit wins. The second
part of `racing_requests` satisfies both. `SerialWhenAlone` carries along that what the
lone request has read is current up to `forkedFrom`, which no guard reads: the
two handlers without a read can still overtake it.

**Long requests.** `Waiting` (nobody is in the queue twice, and who is in it
waits) is what makes permits come out even. `Fits` says of a request that has
read its abstract schedule and roster that the schedule is what it was or gone:
nothing edits an abstract schedule, deletion is checked by the foreign key, so
what is stored fits. `IsBest` follows the trials.

**Live data.** `RequestOK` says at each stop what the request has locked and
whether the rows it flushed are in the table: the row locks of a flush, and the
`Abort` of an INSERT that finds its key, exclude the others; so a result only
goes with a switch of the simulation or a rebuild of its rows (`Wipes`). That
excepts a rebuild which began before the switch and commits after it: it leaves
stale rows, and that they are repaired is `EventuallyFresh`, model-checked only.

**Imports.** A cached row of a sheet is what the parser returns, or an old row
without practice matches, which the next read completes (`Cachable`); a
request keeps one such row from its lookup to its preview. The language model is
asked for PDFs only, so what it answers never reaches a sheet. What a commit
writes is made of the list it has read, and the record that it passed
`validate_schedule` stays with it (`Confirmed`); the rest is about the numbering.
Match numbers that are distinct and have no gap are an interval, so after the
sort the match at place i has number least + i - 1, and the number of that match
in the abstract schedule. Team slots are the ranks of first seats in the sheet;
each of 1..n is taken, because ranks are distinct and as many as the teams, so
the slot map is defined where it is read and names the team that sits there. A
surrogate seat is one bit of one match, so the surrogate counts per slot and per
team agree by a bijection of seats.

**Construction.** The pools must never run dry, so the invariant counts them.
In round 1 the teams that have not played are the roster less the seats filled
(`InRoundOne`); the last match takes them all and has others enough to fill up,
since the roster fills at least one match. The FIRST model deals from a pool of
at least a match (`ThirdIsFlagged`). The legacy model splits by quota. With 1
round 1 is all. With 2 the teams at one match are the seats left less the
surplus, so only the last match can lack teams, takes every one of them, and the
rest of it are flagged extras (`TwoLeft`, then `TwoDone`). From 3 on it runs only
without a surplus, flags nobody, and may deal a match short; `ExactSeats`
compares the appearances owed with the seats left, which are equal as long as
every match is full and differ for good once one is not: that is why a malformed
construction leaves a team under its quota. The sweeps keep what `Closing` says:
sizes of matches, first matches, and appearances less flags of every team. They
move a surrogate only from the one match it is flagged in (`InSweep`), which is
why the extra goes over with its flag.

**Annealer.** The best snapshot must be kept like the schedule at work: both have
distinct teams and the loads of the start (`Books`). `Annealing` says that the
tables, and the first five criteria of the tracked objectives, are those of their
schedules; the sixth is read from a table that may drift from the flags (a swap
within a match), so of it the invariant says only that it is an integer, and of the
lexicographic order only what survives: total, transitive, and monotone under taking
the first five. The heart is `SwapKeepsLoads` (a valid swap, repeated, restores the
schedule, so that undoing is sound) with `SwapKeepsTables` and `SwapKeepsColours`,
and `FlipKeepsLean` and `ReseatKeepsStations` for the passes. The sums are folds
over sets: that they exist and are integers is an induction over data, which
`SumsExist` and `SumIsInt` do by a least counterexample, since well-foundedness of
`<` and of strict inclusion needs no operator parameter. A step lowers the first
criterion or leaves it because a lexicographic improvement cannot raise it and a
worse score is taken only when it does not differ there, so `PreservesCooldown` is a
filter, not a guarantee.

**Grades.** The invariant is the one of `Annealer`; the rest compares sums. A
sum over a subset (`Part`) takes the same element from the subset whatever is
summed, so inequalities, constants and linear combinations of sums follow
element by element (`SumMonotone`, `SumConstant`, `SumLinear`). Counting the
entries of a table by rows and by columns gives what every table of a schedule
adds up to (`EveryRow`: appearances, pairs of partners and of opponents, seats).
The pair floors hold because x squared is on or above the line through q and q+1
squared at every integer x (`EvenIsLeast`), with q the even share rounded down;
the surrogate floor is the surplus, which is what is flagged (`SurplusIsFlagged`);
and since the surplus is less than one match, somebody is no surrogate and plays
the quota exactly (`SomebodyPlaysTheQuota`): a team with an odd number of matches
leans to one colour, and one whose number is no multiple of the stations is
seated unevenly. `CurvesFall` and the weights, of which the one for cooldown is
never zero, do the rest.

The last three floors are about the quota, so they need `QuotaIsPlayed(start)`: each
team plays the quota and its flagged appearances. Construction does not always hand
that over. With a quota of 1, which a request may ask for (`main.py:355`), it flags
nobody; and the fallback of the FIRST model (`scheduler.py` 702-728) deals teams
again that reached their target, so that some play over the quota without a flag and
others under it. The surrogate floor, "Minimum surrogate slot-fills required" and
"Proven by arithmetic" (`quality_floors.py:139`), is then above what is counted.
The floors of cooldown, partners and opponents only count matches and need nothing.

**Day plans.** `Shaped` strengthens the types by what validation buys: a stored V2
plan is `Sound` (every window is given and ends after it starts), and so is what the
script has in hand. It needs no validation of the script's output because the old
plans are well timed (`MigratedIsSound`). `Kept` says of each row that the stored
plan has exactly the windows of what the row was last given, and of the script that
the copy it is about to rewrite is the row it will write over, unless a write came
in between (`late`), in which case the row is given what the copy says. Under it are
two lemmas about the conversions, for plans of any length: `MigrateIs` (V1 to V2
keeps the windows of every day, practice day and playoffs, under the type their name
gives them) and `DumpedIs` (so do the defaults a dump fills in). From a PDF
(`KeptStops`): the qualification windows of a plan day are those of the PDF day it
became, each capped at the playoffs the PDF gives for it; where the two lists of
days agree the plan's playoffs are those, and no window ends after one starts. From
match times (`KeptHoldsMatches`): a day of the derived plan starts and ends around
its matches, which within one day `Clock` leaves as they are, and a gap that becomes
a break lies between two of them. For the simulation (`ShapedKeepsToTheDay`): within
a day the cursor only moves on, out of each break it meets (`InDay`), and days are
walked in order, so matches are on days of the plan, apart from each other, and
start in no break; of a V2 plan it walks over the default days (`SimulatedIs`).
Every loop is a recursive function of a step number; that its values have a type is
an induction over that number (`RunExists`, `UpToByStep`), which needs no operator
parameter.

**The V1 view.** `Sound` is enough for it. The downgrade walks over the days and
carries the days, the practice day and the playoffs made so far (`DowngradeIs`).
For `GapsStayIdle`: a day once added stays (`DaysStay`), and the number of V1 days
made so far is that of the days shown (`DaysCounted`, by `ShownOneMore`), so the
V1 day a V2 day became is known by its number and has its `DayBreaks`; of two
match blocks next to each other in time the one sorted just before the later one
either has an Idle break after it or a break that spans the gap (`GapIsSpanned`).
The first practice-only day is shown as the practice slot, without days of its own.
For `RoundTripKeepsWindows` the walk is followed day by day
(`Follows`): after k days the view has all of them, the practice day apart and
the rest renumbered, and no playoff names a day that is still to come, so the
next day finds its own and nobody else's (`DaysBefore`). The view loses what V1
has no place for, and `Plain` says what that is: a second match block of a day,
a day without qualifications that is not the first, breaks within playoffs
(dropped), awards or ceremonies within practice and breaks whose name hides
their type (all come back as plain breaks), since V1 keeps names only.
Every migrated V1 plan is `Plain` (`MigratedIsPlain`), so for rows of that shape
the property has no hypothesis.

Only model-checked. Liveness under fairness (`RequestsEnd`, `EventuallyFresh`)
and deadlock, which the prover does not reach. `CutRepliesAreNotMisread`, which
is about a scan of every cut of every reply: for all replies it would need the
grammar of the documents as an assumption (which tokens a name may be), and an
induction over their text.

## 5. Not modelled

Names, descriptions and response bodies; validation errors of malformed
requests; several events (no handler modelled here touches two); users being
deleted; `match_rows`, which is derived from content and written with it. Time
stamps are ordered as the commits are, so clock differences between replicas are
not modelled. Seeds, running times and progress counts of the generator.
Statbotics and FRC Events lookups, which keep no state. The text layer and the
wording of headers in files: the import models start from the rows found. The
public view, tokens, PDF rendering, the web client, the evaluation scripts and
deployment files, for the reasons `PROJECT.json` gives.

## 6. Plan

Every part of the plan is modelled, checked and proved as far as section 4 says.
What would extend it: a grammar of the replies under which
`CutRepliesAreNotMisread` can be proved for all of them, and models for the
hazards `PROJECT.json` lists without a property.
