------------------------------ MODULE LiveSync ------------------------------
(***************************************************************************)
(* Live data of one event (app/live.py): viewers refresh it lazily from    *)
(* The Blue Alliance, Nexus pushes (and is pulled for) match statuses, and *)
(* a simulation can stand in for both.  Several requests run at a time;    *)
(* each is a READ COMMITTED transaction that loads rows, waits for other   *)
(* servers over HTTP, and writes what it decided on the rows it loaded.    *)
(*                                                                         *)
(* A row of match_results is known by where its result (times and scores)  *)
(* came from.                                                              *)
(***************************************************************************)
EXTENDS Integers, FiniteSets, Records

CONSTANTS
  Slots,      \* requests that can be in flight together
  Ops,        \* requests this instance makes: view, start, stop, nexus
  Matches,    \* matches of the event
  PullMode    \* NEXUS_API_KEY is set: a refresh also pulls from Nexus

ASSUME LiveAssumption ==
  /\ Ops \subseteq {"view", "start", "stop", "nexus"}
  /\ PullMode \in BOOLEAN

Results    == {"absent", "null", "real", "sim"}  \* no row, no result yet, ...
Reported   == {"real", "sim"}
Stamps     == {"recent", "old"}  \* less than 30 seconds ago; longer, or never
Kept       == "kept"             \* the rankings stay as they are
NoRankings == [source |-> "none", played |-> {}]
Idle       == [pc |-> "idle", ins |-> FALSE]

VARIABLES
  world,     \* the real matches: unpublished, scheduled, played
  sync,      \* event_live_sync
  results,   \* match_results
  rankings,  \* team_rankings: their source, and the matches they count
  queue,     \* queue_status: the matches with a row; no handler reads more
  reqs       \* the requests in flight

tables == <<sync, results, rankings, queue>>
vars   == <<world, tables, reqs>>

NoSync == [row |-> FALSE, fetched |-> "old", sim |-> FALSE]

\* The types; and the flags of the sync row are set only where there is a row.
TypeOK ==
  /\ world \in [Matches -> {"unpublished", "scheduled", "played"}]
  /\ sync \in [row : BOOLEAN, fetched : Stamps, sim : BOOLEAN]
  /\ sync.row \/ sync = NoSync
  /\ results \in [Matches -> Results]
  /\ rankings \in [source : {"none", "tba", "sim"}, played : SUBSET Matches]
  /\ queue \subseteq Matches
  /\ \A s \in Slots :
       reqs[s].pc \in {"idle", "insert", "matches", "flush", "failed", "rankings",
                       "commit", "pull", "store", "rebuild", "wipe"}

Init ==
  /\ world = [m \in Matches |-> "unpublished"]
  /\ sync = NoSync
  /\ results = [m \in Matches |-> "absent"]
  /\ rankings = NoRankings
  /\ queue = {}
  /\ reqs = [s \in Slots |-> Idle]

Present == {m \in Matches : results[m] # "absent"}

-----------------------------------------------------------------------------
\* Locks. A refresh holds its match rows while it waits for the rankings; a
\* request that switches the simulation holds the sync row.

\* Faulty: the rows are sent with the commit, not before the rankings.
HoldsMatches_NotFlushed(s) == IF reqs[s].pc = "commit"
                              THEN DOMAIN reqs[s].payload ELSE {}

HoldsMatches(s) == IF reqs[s].pc \in {"rankings", "commit"}
                   THEN DOMAIN reqs[s].payload ELSE {}
HoldsSync(s)    == reqs[s].pc = "wipe" /\ reqs[s].row
Inserting(s)    == reqs[s].ins     \* holds the key of a sync row it added

MatchesFree(s, M) == \A t \in Slots \ {s} : HoldsMatches(t) \cap M = {}
SyncFree(s)       == \A t \in Slots \ {s} : ~HoldsSync(t)

\* An INSERT whose key was committed meanwhile, an UPDATE whose row is gone.
Conflict(loaded, now, M) == \E m \in M : (m \in loaded) # (m \in now)

Goto(s, pc) == reqs' = [reqs EXCEPT ![s].pc = pc]
Done(s)     == reqs' = [reqs EXCEPT ![s] = Idle]

\* A database error loses the transaction; the commit in the handler's own
\* except branch fails as well (PendingRollbackError) and the answer is a 500.
Abort(s) == Done(s) /\ UNCHANGED <<world, tables>>

\* Faulty: waits on the sync row are not seen.
WaitsFor_NotSync(s, t) ==
  /\ reqs[s].pc = "wipe"
  /\ reqs[s].seen \cap HoldsMatches(t) # {}

WaitsFor(s, t) ==
  \/ /\ reqs[s].pc = "wipe"
     /\ reqs[s].seen \cap HoldsMatches(t) # {}
  \/ /\ reqs[s].pc = "commit"
     /\ HoldsSync(t)

\* PostgreSQL aborts one of two transactions that wait for each other.
DeadlockVictim(s) ==
  /\ \E t \in Slots \ {s} : WaitsFor(s, t) /\ WaitsFor(t, s)
  /\ Abort(s)

-----------------------------------------------------------------------------
\* A request begins: it loads the sync row, or adds one and flushes it.

Begin(s, first) ==
  /\ reqs[s] = Idle
  /\ reqs' = [reqs EXCEPT ![s] =
                IF sync.row THEN Over(first, Idle)
                ELSE [pc |-> "insert", ins |-> FALSE, then |-> first]]
  /\ UNCHANGED <<world, tables>>

\* INSERT of the sync row: waits for another insert of the same key, and fails
\* when that one was committed.
InsertSync(s) ==
  /\ reqs[s].pc = "insert"
  /\ ~\E t \in Slots \ {s} : Inserting(t)
  /\ IF sync.row THEN Abort(s)
     ELSE /\ reqs' = [reqs EXCEPT ![s] = Over([ins |-> TRUE], @.then)]
          /\ UNCHANGED <<world, tables>>

\* Faulty: the comparison of the age is turned round.
Throttled_Old == sync.fetched = "old"

\* age < TBA_MIN_INTERVAL_SECONDS: the answer is the stored data (no step).
Throttled     == sync.fetched = "recent"

View(s, force) ==
  /\ "view" \in Ops
  /\ sync.sim \/ force \/ ~Throttled
  /\ Begin(s, IF sync.sim THEN [pc |-> "rebuild", seen |-> Present]
              ELSE [pc |-> "matches"])

\* The switch writes the sync row before its deletes, and those start with
\* match_results.  stop adds no row, and then has none to write.
Switch(s, op) ==
  LET wipe(row) == [pc |-> "wipe", op |-> op, row |-> row, seen |-> Present]
  IN /\ op \in Ops \cap {"start", "stop"}
     /\ sync.row => SyncFree(s)
     /\ IF op = "start" \/ sync.row THEN Begin(s, wipe(TRUE))
        ELSE /\ reqs[s] = Idle
             /\ reqs' = [reqs EXCEPT ![s] = Over(wipe(FALSE), Idle)]
             /\ UNCHANGED <<world, tables>>

-----------------------------------------------------------------------------
\* refresh_event against TBA.

Published == {m \in Matches : world[m] # "unpublished"}
Played    == {m \in Matches : world[m] = "played"}

\* The matches of the answer that come with a result: TBA may leave it out.
FullAnswer == [m \in Published |-> m \in Played]
Answers    == {a \in [Published -> BOOLEAN] :
                 \A m \in Published : a[m] => m \in Played}

\* The rows are selected as soon as the answer is there.
MatchesAnswer(s, answer) ==
  /\ reqs[s].pc = "matches"
  /\ reqs' = [reqs EXCEPT ![s] =
                Over([pc |-> "flush", payload |-> answer, seen |-> Present], @)]
  /\ UNCHANGED <<world, tables>>

\* A timeout or an HTTP error; the handler goes on to commit what it has.
MatchesFail(s) ==
  /\ reqs[s].pc = "matches"
  /\ Goto(s, "failed")
  /\ UNCHANGED <<world, tables>>

\* INSERT and UPDATE of every match of the answer: waits for their row locks.
FlushMatches(s) ==
  /\ reqs[s].pc = "flush"
  /\ LET M == DOMAIN reqs[s].payload
     IN /\ MatchesFree(s, M)
        /\ IF Conflict(reqs[s].seen, Present, M) THEN Abort(s)
           ELSE Goto(s, "rankings") /\ UNCHANGED <<world, tables>>

\* The rankings are replaced; a failed call leaves them and is not an error.
RankingsAnswer(s) ==
  /\ reqs[s].pc = "rankings"
  /\ reqs' = [reqs EXCEPT ![s] =
       Over([pc |-> "commit",
             ranks |-> IF Played = {} THEN NoRankings
                       ELSE [source |-> "tba", played |-> Played]], @)]
  /\ UNCHANGED <<world, tables>>

RankingsFail(s) ==
  /\ reqs[s].pc = "rankings"
  /\ reqs' = [reqs EXCEPT ![s] =
                Over([pc |-> "commit", ranks |-> [source |-> Kept]], @)]
  /\ UNCHANGED <<world, tables>>

\* Faulty: what TBA leaves out is cleared.
Merged_Nulls(row, reported) == IF reported THEN "real" ELSE "null"

\* _upsert_matches: what TBA leaves out stays.
Merged(row, reported) == IF reported THEN "real"
                         ELSE IF row = "absent" THEN "null" ELSE row

\* The next thing after the TBA part: pull from Nexus, unless the sync row, as
\* this request loaded it, heard from Nexus within 30 seconds.  That stamp is
\* not modelled: either may happen.
AfterRefresh(s) ==
  \/ Done(s)
  \/ PullMode /\ reqs' = [reqs EXCEPT ![s] = [Idle EXCEPT !.pc = "pull"]]

CommitRefresh(s) ==
  /\ reqs[s].pc = "commit"
  /\ SyncFree(s)
  /\ results' = [m \in Matches |->
                   IF m \in DOMAIN reqs[s].payload
                   THEN Merged(results[m], reqs[s].payload[m]) ELSE results[m]]
  /\ rankings' = IF reqs[s].ranks.source = Kept THEN rankings ELSE reqs[s].ranks
  /\ sync' = [sync EXCEPT !.row = TRUE, !.fetched = "recent"]
  /\ AfterRefresh(s)
  /\ UNCHANGED <<world, queue>>

\* Only the error text, and the sync row if this request added it.
CommitFailed(s) ==
  /\ reqs[s].pc = "failed"
  /\ SyncFree(s)
  /\ sync' = [sync EXCEPT !.row = TRUE]
  /\ AfterRefresh(s)
  /\ UNCHANGED <<world, results, rankings, queue>>

-----------------------------------------------------------------------------
\* Nexus: a push of one match or of all, or the answer to a pull. Pushes can
\* be late and out of order; nothing compares their dataAsOfTime.  A report
\* says of each match whether it is over.

Reports == UNION {[M -> BOOLEAN] : M \in {{m} : m \in Published} \cup {Published}}

\* The rows are loaded; times are made up where the loaded row has none.
Ingest(report) ==
  [pc |-> "store", seen |-> Present, queued |-> queue,
   made |-> [m \in DOMAIN report |-> report[m] /\ results[m] \notin Reported]]

Push(s, report) ==
  /\ "nexus" \in Ops
  /\ \A m \in DOMAIN report : report[m] => m \in Played
  /\ Begin(s, Ingest(report))

PullAnswer(s) ==
  /\ reqs[s].pc = "pull"
  /\ reqs' = [reqs EXCEPT ![s] = Over(Ingest(FullAnswer), Idle)]
  /\ UNCHANGED <<world, tables>>

PullFail(s) == reqs[s].pc = "pull" /\ Abort(s)

\* The UPDATE writes the columns that were decided on the loaded rows.
Store(s) ==
  /\ reqs[s].pc = "store"
  /\ LET made == reqs[s].made
         M    == {m \in DOMAIN made : made[m]}
     IN /\ MatchesFree(s, M)
        /\ SyncFree(s)
        /\ IF \/ Conflict(reqs[s].seen, Present, M)
              \/ Conflict(reqs[s].queued, queue, DOMAIN made)
           THEN Abort(s)
           ELSE /\ results' = [m \in Matches |->
                                 IF m \in M THEN "real" ELSE results[m]]
                /\ queue' = queue \cup DOMAIN made
                /\ sync' = [sync EXCEPT !.row = TRUE]
                /\ Done(s)
                /\ UNCHANGED <<world, rankings>>

-----------------------------------------------------------------------------
\* The simulation. Which matches its clock has completed is left open.

\* _refresh_simulated deletes no rankings: adding a team's row again fails.
SimulatedConflict(s, over) ==
  \/ Present \ reqs[s].seen # {}
  \/ over # {} /\ rankings # NoRankings

FailSimulated(s, over) ==
  /\ reqs[s].pc = "rebuild"
  /\ MatchesFree(s, Matches)
  /\ SyncFree(s)
  /\ SimulatedConflict(s, over)
  /\ Abort(s)

\* Results and queue are deleted and made again, rankings only added.
CommitSimulated(s, over) ==
  /\ reqs[s].pc = "rebuild"
  /\ MatchesFree(s, Matches)
  /\ SyncFree(s)
  /\ ~SimulatedConflict(s, over)
  /\ results' = [m \in Matches |-> IF m \in over THEN "sim" ELSE "null"]
  /\ \E M \in SUBSET (Matches \ over) : queue' = M
  /\ rankings' = IF over = {} THEN rankings ELSE [source |-> "sim", played |-> over]
  /\ sync' = [sync EXCEPT !.fetched = "recent"]
  /\ Done(s)
  /\ UNCHANGED world

Switched_NotAdded(req) ==              \* the sync row is made, but not added
  CASE req.op = "start" -> [sync EXCEPT !.sim = TRUE]
    [] req.op # "start" /\ req.row -> [sync EXCEPT !.sim = FALSE, !.fetched = "old"]
    [] OTHER -> sync

\* start_simulation and stop_simulation delete the rows their DELETE saw when
\* it began; rows inserted since survive it.
Switched(req) ==
  CASE req.op = "start" -> [sync EXCEPT !.row = TRUE, !.sim = TRUE]
    [] req.op # "start" /\ req.row -> [sync EXCEPT !.sim = FALSE, !.fetched = "old"]
    [] OTHER -> sync

CommitSwitch(s) ==
  /\ reqs[s].pc = "wipe"
  /\ MatchesFree(s, reqs[s].seen)
  /\ results' = [m \in Matches |->
                   IF m \in reqs[s].seen THEN "absent" ELSE results[m]]
  /\ rankings' = NoRankings
  /\ queue' = {}
  /\ sync' = Switched(reqs[s])
  /\ Done(s)
  /\ UNCHANGED world

-----------------------------------------------------------------------------
AgeFetched == /\ sync.fetched = "recent"
              /\ sync' = [sync EXCEPT !.fetched = "old"]
              /\ UNCHANGED <<world, results, rankings, queue, reqs>>

Publish == /\ Published = {}
           /\ world' = [m \in Matches |-> "scheduled"]
           /\ UNCHANGED <<tables, reqs>>

Play(m) == /\ world[m] = "scheduled"
           /\ world' = [world EXCEPT ![m] = "played"]
           /\ UNCHANGED <<tables, reqs>>

TbaSteps(s) ==
  \/ \E answer \in Answers : MatchesAnswer(s, answer)
  \/ MatchesFail(s) \/ FlushMatches(s) \/ RankingsAnswer(s) \/ RankingsFail(s)
  \/ CommitRefresh(s) \/ CommitFailed(s)
NexusSteps(s) == PullAnswer(s) \/ PullFail(s) \/ Store(s)
SimSteps(s)   ==
  \/ CommitSwitch(s)
  \/ \E over \in SUBSET Matches : FailSimulated(s, over) \/ CommitSimulated(s, over)
ServerStep(s) == InsertSync(s) \/ TbaSteps(s) \/ NexusSteps(s) \/ SimSteps(s)
                 \/ DeadlockVictim(s)

ClientStep(s) == \/ \E force \in BOOLEAN : View(s, force)
                 \/ \E report \in Reports : Push(s, report)
                 \/ \E op \in {"start", "stop"} : Switch(s, op)
WorldStep     == AgeFetched \/ Publish \/ \E m \in Matches : Play(m)

Next == WorldStep \/ \E s \in Slots : ServerStep(s) \/ ClientStep(s)

\* HTTP calls time out after 15 seconds, the database grants locks in turn,
\* time passes, a page that shows the event polls it (unforced), and TBA
\* answers in full again and again.  Nobody has to push, start or stop.
Fairness ==
  /\ \A s \in Slots : SF_vars(ServerStep(s))
  /\ WF_vars(AgeFetched)
  /\ SF_vars(\E s \in Slots : View(s, FALSE))
  /\ SF_vars(\E s \in Slots : MatchesAnswer(s, FullAnswer))
  /\ SF_vars(\E s \in Slots : RankingsAnswer(s))

Spec     == Init /\ [][Next]_vars
FairSpec == Spec /\ Fairness

-----------------------------------------------------------------------------
\* Nothing TBA, Nexus or the simulation reported about a match is lost again
\* but by the switch of the simulation and the rebuild of the simulated rows:
\* no refresh, push or pull, whatever it raced with or TBA left out, clears a
\* result or drops a row (_upsert_matches, "Once a value is set, we keep it").
KeepsReported ==
  [][(~\E s \in Slots :
         CommitSwitch(s) \/ \E over \in SUBSET Matches : CommitSimulated(s, over)) =>
       /\ Present \subseteq Present'
       /\ \A m \in Matches : results[m] \in Reported => results'[m] \in Reported]_vars

\* Until it commits, a refresh finds the rows it flushed as it selected them:
\* no switch, rebuild, push or other refresh takes one away, or adds one it
\* takes for missing, and nobody else holds one.
FlushedRowsHold ==
  \A s \in Slots : \A m \in HoldsMatches(s) :
    /\ (m \in reqs[s].seen) = (m \in Present)
    /\ \A t \in Slots \ {s} : m \notin HoldsMatches(t)

\* Every request is answered, although requests wait for each other's locks,
\* in a circle too, and for servers that fail.
RequestsEnd == \A s \in Slots : reqs[s] # Idle ~> reqs[s] = Idle

Fresh ==
  /\ \A m \in Played : results[m] \in Reported
  /\ rankings = IF Played = {} THEN NoRankings
                ELSE [source |-> "tba", played |-> Played]

\* Once nobody uses the simulation, throttled viewers get the state of the
\* event in the end, and keep it: results and rankings of every match played.
EventuallyFresh ==
  <>[](~sync.sim /\ \A s \in Slots : reqs[s].pc \notin {"wipe", "rebuild"})
    => <>[]Fresh
=============================================================================
