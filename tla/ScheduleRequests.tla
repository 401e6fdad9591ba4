-------------------------- MODULE ScheduleRequests --------------------------
(***************************************************************************)
(* The long requests of the server (app/main.py): abstract schedules are   *)
(* generated and rosters assigned by a pool of worker processes, behind a  *)
(* semaphore, while the event, its roster and the abstract schedule can be *)
(* edited, frozen or deleted, the browser can hang up, a worker can raise  *)
(* or die, and the server can restart.  One event; the schedule shown is   *)
(* its active one (who may change it later is ScheduleLifecycle's matter). *)
(***************************************************************************)
EXTENDS Integers, FiniteSets, Sequences, SequencesExt, Records

CONSTANTS
  Slots,       \* requests that can be in flight together
  Privileged,  \* those made by the freezer or an admin
  Teams,       \* teams that can be on the roster
  Abstracts,   \* ids of abstract schedules
  Sizes,       \* num_teams a request may ask for
  Scores,      \* lexicographic score tuples, ranked; smaller is better
  Trials,      \* workers one assignment is given to
  Permits,     \* generations allowed at a time
  None, Raised, Unused, Deleted    \* no value; a worker's error; row states

Shapes  == [size : Sizes]

ASSUME RequestsAssumption ==
  /\ IsFiniteSet(Slots) /\ Privileged \subseteq Slots
  /\ Trials \in Nat \ {0} /\ Permits \in Nat \ {0}
  /\ Scores \subseteq Nat /\ Sizes \subseteq Nat
  /\ None \notin {"generate", "create", "assign"} /\ None \notin Scores
  /\ {Unused, Deleted} \cap Shapes = {} /\ Unused # Deleted

Idle    == [pc |-> "idle", kind |-> None, target |-> None, shape |-> None,
            teams |-> {}, left |-> 0, done |-> {}, best |-> None]

VARIABLES
  event,      \* the events row: absent, live, frozen, deleted
  roster,     \* event_teams
  abstracts,  \* abstract_schedules: unused, deleted or the shape of the row
  active,     \* the event's active assigned schedule, and the trials it was best of
  pool,       \* ProcessPoolExecutor: up, broken
  waiters,    \* who waits for the semaphore, in order
  reqs        \* the requests in flight

vars == <<event, roster, abstracts, active, pool, waiters, reqs>>

Live       == event \in {"live", "frozen"}
Stored(a)  == abstracts[a] \in Shapes
InPool(s)  == reqs[s].pc = "work"
Refused(s) == event = "frozen" /\ s \notin Privileged   \* 423, _is_event_frozen

TypeOK ==
  /\ event \in {"absent", "live", "frozen", "deleted"}
  /\ roster \subseteq Teams /\ (roster # {} => Live)
  /\ abstracts \in [Abstracts -> Shapes \cup {Unused, Deleted}]
  /\ active # None => active.teams \subseteq Teams /\ active.target \in Abstracts
  /\ pool \in {"up", "broken"}
  /\ \A s \in Slots :
       /\ reqs[s].pc \in {"idle", "queued", "work", "store", "commit", "fetch", "edit"}
       /\ reqs[s].left \in 0..Trials
       /\ (reqs[s].pc = "queued") = (s \in ToSet(waiters))
  /\ Cardinality({s \in Slots : reqs[s].pc = "work" /\ reqs[s].kind # "create"}) <= Permits

Init ==
  /\ event = "absent"
  /\ roster = {}
  /\ abstracts = [a \in Abstracts |-> Unused]
  /\ active = None
  /\ pool = "up"
  /\ waiters = <<>>
  /\ reqs = [s \in Slots |-> Idle]

tables == <<event, roster, abstracts, active>>
Ends(s)       == reqs' = [reqs EXCEPT ![s] = Idle]
Goto(s, pc)   == reqs' = [reqs EXCEPT ![s].pc = pc]
Starts(s, r)  == reqs[s].pc = "idle" /\ reqs' = [reqs EXCEPT ![s] = Over(r, Idle)]

-----------------------------------------------------------------------------
\* The semaphore and the pool. asyncio.Semaphore serves its waiters in order.

Holders == {s \in Slots : InPool(s) /\ reqs[s].kind # "create"}

Queue(s, r) ==
  /\ Starts(s, Over([pc |-> "queued"], r))
  /\ waiters' = Append(waiters, s)
  /\ UNCHANGED <<tables, pool>>

\* The permit is held by "async with": it comes back on every way out.
\* Submitting to a pool that lost a process raises BrokenProcessPool.
Acquire(s) ==
  /\ waiters # <<>> /\ Head(waiters) = s
  /\ Cardinality(Holders) < Permits
  /\ waiters' = Tail(waiters)
  /\ IF pool = "up"
     THEN reqs' = [reqs EXCEPT ![s].pc = "work",
                   ![s].left = IF reqs[s].kind = "assign" THEN Trials ELSE 1]
     ELSE Ends(s)
  /\ UNCHANGED <<tables, pool>>

Better_Last(best, score) == score                     \* the last answer wins

\* The best of the trials so far: the smallest tuple; a tie keeps the first.
Better(best, score) == IF best = None \/ score < best THEN score ELSE best

\* A worker of request s answers or raises. An assignment logs what a worker
\* raised and goes on with the others; a generation ends with an error.
TrialEnds(s) == \E r \in Scores \cup {Raised} :
  LET q    == reqs[s]
      best == IF r = Raised THEN q.best ELSE Better(q.best, r)
  IN /\ InPool(s) /\ q.left > 0
     /\ pool = "up"
     /\ reqs' = [reqs EXCEPT ![s].left = @ - 1, ![s].best = best,
                             ![s].done = IF r = Raised THEN @ ELSE @ \cup {r}]
     /\ UNCHANGED <<tables, pool, waiters>>

TrialsOver_NoneAnswered(s) ==                     \* keeps waiting for a best trial
  /\ InPool(s) /\ reqs[s].left = 0 /\ reqs[s].best # None
  /\ Goto(s, "store")
  /\ UNCHANGED <<tables, pool, waiters>>

\* Every worker has answered: store the best, or report that none did.
TrialsOver(s) ==
  /\ InPool(s) /\ reqs[s].left = 0
  /\ IF reqs[s].best = None THEN Ends(s) ELSE Goto(s, "store")
  /\ UNCHANGED <<tables, pool, waiters>>

\* A worker process dies: every future of the pool raises, and get_pool keeps
\* handing out the broken pool.
WorkerDies ==
  /\ pool = "up" /\ \E s \in Slots : InPool(s) /\ reqs[s].left > 0
  /\ pool' = "broken"
  /\ reqs' = [s \in Slots |-> IF InPool(s) THEN [reqs[s] EXCEPT !.left = 0] ELSE reqs[s]]
  /\ UNCHANGED <<tables, waiters>>

Disconnect_Queued(s) ==                               \* a dead waiter keeps its place
  /\ reqs[s].kind \in {"generate", "assign"}
  /\ Ends(s)
  /\ UNCHANGED <<tables, pool, waiters>>

\* The browser hangs up on a streamed answer: the generator is cancelled, and
\* leaves the queue if it waits there.
Disconnect(s) ==
  /\ reqs[s].kind \in {"generate", "assign"}
  /\ Ends(s)
  /\ \/ s \notin ToSet(waiters) /\ UNCHANGED waiters
     \/ \E i \in DOMAIN waiters : waiters[i] = s /\ waiters' = RemoveAt(waiters, i)
  /\ UNCHANGED <<tables, pool>>

Restart ==
  /\ reqs' = [s \in Slots |-> Idle]
  /\ waiters' = <<>>
  /\ pool' = "up"
  /\ UNCHANGED tables

-----------------------------------------------------------------------------
\* Stage 1: generate_abstract, and create_schedule, which needs no permit.

Generators == {s \in Slots : reqs[s].kind \in {"generate", "create"}}
HasRoom    == \* enough unused ids for the generations in flight (a bound)
  Cardinality({a \in Abstracts : abstracts[a] = Unused}) > Cardinality(Generators)

GenerateAbstract(s) == \E shape \in Shapes :
  /\ HasRoom
  /\ Queue(s, [kind |-> "generate", shape |-> shape])

\* Imported matches and canonical ones are stored as they are; an "auto"
\* request without a canonical entry is generated.
CreateSchedule(s) == \E shape \in Shapes, known \in BOOLEAN :
  /\ HasRoom
  /\ \/ known /\ Starts(s, [kind |-> "create", shape |-> shape, pc |-> "store"])
     \/ ~known /\ pool = "up"
        /\ Starts(s, [kind |-> "create", shape |-> shape, pc |-> "work", left |-> 1])
  /\ UNCHANGED <<tables, pool, waiters>>

\* The event named by the request must still exist (foreign key).
StoreAbstract(s) ==
  /\ reqs[s].pc = "store" /\ reqs[s].kind # "assign"
  /\ \/ ~Live /\ UNCHANGED abstracts
     \/ Live /\ \E a \in Abstracts :
          /\ abstracts[a] = Unused
          /\ abstracts' = [abstracts EXCEPT ![a] = reqs[s].shape]
  /\ Ends(s)
  /\ UNCHANGED <<event, roster, active, pool, waiters>>

\* Its assigned schedules go with it (ON DELETE CASCADE).
DeleteAbstract(a) ==
  /\ Stored(a)
  /\ abstracts' = [abstracts EXCEPT ![a] = Deleted]
  /\ active' = IF active # None /\ active.target = a THEN None ELSE active
  /\ UNCHANGED <<event, roster, pool, waiters, reqs>>

-----------------------------------------------------------------------------
\* Stage 2: assign_teams_endpoint. The abstract schedule and the roster are
\* read first; nothing read then is read again.

AssignTeams(s) == \E a \in Abstracts :
  /\ Stored(a)
  /\ roster # {} /\ Cardinality(roster) = abstracts[a].size
  /\ Queue(s, [kind |-> "assign", target |-> a, shape |-> abstracts[a],
               teams |-> roster])

\* The freeze check asks for no user: it stops the freezer as well.
CheckFreeze(s) ==
  /\ reqs[s].pc = "store" /\ reqs[s].kind = "assign"
  /\ IF event = "frozen" THEN Ends(s) ELSE Goto(s, "commit")
  /\ UNCHANGED <<tables, pool, waiters>>

KeysHold(s) == Live /\ Stored(reqs[s].target)    \* foreign keys of the new row

\* The new schedule becomes the active one; the others are demoted.
StoreAssigned(s) ==
  /\ reqs[s].pc = "commit"
  /\ active' = IF KeysHold(s)
               THEN [target |-> reqs[s].target, teams |-> reqs[s].teams,
                     score |-> reqs[s].best, trials |-> reqs[s].done]
               ELSE active
  /\ Ends(s)
  /\ UNCHANGED <<event, roster, abstracts, pool, waiters>>

-----------------------------------------------------------------------------
\* The event and its roster. Each handler reads the event (and its freeze)
\* first and writes in a later step of the same transaction.

CreateEvent ==
  /\ event = "absent" /\ event' = "live"
  /\ UNCHANGED <<roster, abstracts, active, pool, waiters, reqs>>

ToggleFreeze ==
  /\ Live
  /\ event' = IF event = "live" THEN "frozen" ELSE "live"
  /\ UNCHANGED <<roster, abstracts, active, pool, waiters, reqs>>

BeginEdit(s) == \E kind \in {"add", "remove", "drop"}, T \in SUBSET Teams :
  /\ Live /\ ~Refused(s)
  /\ (kind = "drop") = (T = {}) /\ Cardinality(T) <= 1
  /\ Starts(s, [kind |-> kind, teams |-> T, pc |-> "edit"])
  /\ UNCHANGED <<tables, pool, waiters>>

\* tba_import_event, frc_import_event: the event and its teams are fetched
\* before the database is read.
BeginImport(s) ==
  /\ event # "deleted"          \* a new row would be another event (a bound)
  /\ Starts(s, [kind |-> "import", pc |-> "fetch"])
  /\ UNCHANGED <<tables, pool, waiters>>

Fetched(s) ==
  /\ reqs[s].pc = "fetch"
  /\ \/ Ends(s)                                    \* 502, 503, 504, 404
     \/ Refused(s) /\ Ends(s)
     \/ ~Refused(s) /\ event # "deleted"
        /\ \E T \in SUBSET Teams :
             reqs' = [reqs EXCEPT ![s].pc = "edit", ![s].teams = T,
                      ![s].target = event]
  /\ UNCHANGED <<tables, pool, waiters>>

\* Two imports that both found no event insert it twice; the key is unique.
LateImport(s) == reqs[s].target = "absent" /\ event # "absent"

CommitEdit(s) ==
  LET q == reqs[s] IN
  /\ q.pc = "edit"
  /\ Ends(s)
  /\ UNCHANGED <<pool, waiters>>
  /\ \/ /\ q.kind = "add" /\ Live
        /\ roster' = roster \cup q.teams
        /\ UNCHANGED <<event, abstracts, active>>
     \/ /\ q.kind = "remove" /\ Live
        /\ roster' = roster \ q.teams
        /\ UNCHANGED <<event, abstracts, active>>
     \/ /\ q.kind = "import" /\ event # "deleted" /\ ~LateImport(s)
        /\ event' = IF event = "absent" THEN "live" ELSE event
        /\ roster' = roster \cup q.teams
        /\ UNCHANGED <<abstracts, active>>
     \/ /\ q.kind = "drop"
        /\ event' = "deleted" /\ roster' = {} /\ active' = None
        /\ abstracts' = [a \in Abstracts |->
                           IF Stored(a) THEN Deleted ELSE abstracts[a]]
     \/ /\ IF q.kind = "import" THEN event = "deleted" \/ LateImport(s)
           ELSE q.kind # "drop" /\ ~Live
        /\ UNCHANGED tables

-----------------------------------------------------------------------------
Begin(s) == GenerateAbstract(s) \/ CreateSchedule(s) \/ AssignTeams(s)
              \/ BeginEdit(s) \/ BeginImport(s)

Step(s) == \/ Acquire(s) \/ TrialEnds(s) \/ TrialsOver(s)
           \/ StoreAbstract(s) \/ CheckFreeze(s) \/ StoreAssigned(s)
           \/ Fetched(s) \/ CommitEdit(s)

Next ==
  \/ \E s \in Slots : Begin(s) \/ Step(s) \/ Disconnect(s)
  \/ \E a \in Abstracts : DeleteAbstract(a)
  \/ CreateEvent \/ ToggleFreeze \/ WorkerDies \/ Restart

\* Handlers are scheduled by the event loop, workers by the system; calls to
\* TBA time out.
Fairness == \A s \in Slots : WF_vars(Step(s))

Spec == Init /\ [][Next]_vars /\ Fairness

-----------------------------------------------------------------------------
(* The schedule stored is the best of all the trials that answered,        *)
(* whatever the order of their answers and however many workers raised     *)
(* (best-of-N in assign_teams_endpoint), and it stands on rows that exist: *)
(* its event is live and its abstract schedule is there, with exactly as   *)
(* many slots as teams were mapped, although both were read minutes before. *)
StoredIsBest ==
  /\ active.score \in active.trials
  /\ \A r \in active.trials : active.score <= r
StoredStands ==
  /\ Live /\ Stored(active.target)
  /\ Cardinality(active.teams) = abstracts[active.target].size
StoredIsSound == active # None => StoredIsBest /\ StoredStands

(* Every request ends: no failure of a worker, of the pool, of a foreign   *)
(* key or of another request that holds a permit leaves one waiting.       *)
RequestsEnd == \A s \in Slots : (reqs[s].pc # "idle") ~> (reqs[s].pc = "idle")
=============================================================================
