--------------------------- MODULE LifecycleRaces ---------------------------
(***************************************************************************)
(* The lifecycle handlers as they run on the server: several requests at a *)
(* time, in one event loop or in several worker processes, each a READ     *)
(* COMMITTED transaction.  A handler loads the schedule, then the event,   *)
(* then asks its query (was it ever official, who is active, who is        *)
(* official), decides on the copies it holds, and commits the columns it   *)
(* changed; every read is an await at which the others may commit.  No     *)
(* handler locks the rows it reads (there is no SELECT FOR UPDATE).        *)
(***************************************************************************)
EXTENDS LifecycleRules, Records

CONSTANTS
  Slots,       \* requests that can be in flight together
  Ops,         \* endpoints that are called in this instance
  StartSchedules, \* schedules InitAssigned starts with
  UniqueIndex  \* idx_one_official_per_event exists: only the hand-run
               \* migration creates it, init_db does not

VARIABLES
  rows, live, hist, locklog, plans, event, nextId, nextPlan, freezes, actor,
  reqs         \* the handlers in flight

tables == <<rows, live, hist, locklog, plans, event, nextId, nextPlan, freezes,
            actor>>
vars   == <<tables, reqs>>

\* The same tables, written by handlers that run one at a time.
Serial == INSTANCE ScheduleLifecycle

ASSUME RaceAssumption ==
  /\ UniqueIndex \in BOOLEAN
  /\ StartSchedules \in 1 .. MaxSchedules
  /\ StartSchedules <= MaxPlans

Idle == [pc |-> "idle"]

RowOps   == {"patch", "restore", "replace", "lock", "unlock", "activate",
             "mark", "unmark", "delete", "duplicate"}
EventOps == {"freeze", "unfreeze"}
BulkOps  == {"activate", "assign", "import"}  \* demote the whole event first

Init == Serial!Init /\ reqs = [r \in Slots |-> Idle]

\* An event after its first schedule was assigned and forked a few times.
InitAssigned ==
  /\ \E u \in Users, content \in Contents :
       LET row(s) == [plan |-> s, active |-> s = 1, content |-> content,
                      owner |-> u, lockedBy |-> NoUser, officialBy |-> NoUser,
                      forkedFrom |-> IF s = 1 THEN NoSchedule ELSE 1,
                      createdAt |-> 0]
       IN /\ rows = [s \in ScheduleIds |->
                       IF s <= StartSchedules THEN row(s) ELSE Serial!BlankRow]
          /\ hist = [s \in ScheduleIds |->
                       IF s <= StartSchedules THEN {Snapshot("create", row(s))}
                       ELSE {}]
          /\ plans = [p \in PlanIds |->
                       IF p <= StartSchedules THEN content.slots ELSE NoShape]
          /\ actor = u
  /\ live = 1 .. StartSchedules
  /\ locklog = [s \in ScheduleIds |-> <<>>]
  /\ event = Serial!Unfrozen
  /\ nextId = StartSchedules + 1
  /\ nextPlan = StartSchedules + 1
  /\ freezes = 0
  /\ reqs = [r \in Slots |-> Idle]

-----------------------------------------------------------------------------
\* Row locks: a bulk UPDATE holds every row it touched until its commit.
Held(r) == IF reqs[r].pc = "commit" /\ reqs[r].op \in BulkOps
           THEN reqs[r].seen ELSE {}

LockedRows(r) == UNION {Held(other) : other \in Slots \ {r}}

Reply(r)      == reqs' = [reqs EXCEPT ![r] = Idle]
MoveTo(r, pc) == reqs' = [reqs EXCEPT ![r].pc = pc]

-----------------------------------------------------------------------------
\* The reads.

\* assigned = await db.get(AssignedSchedule, id); a 404 changes nothing.
LoadRow(r, u, op, s) ==
  /\ reqs[r] = Idle
  /\ op \in Ops \cap RowOps
  /\ s \in live
  /\ reqs' = [reqs EXCEPT ![r] =
                [pc |-> "event", op |-> op, user |-> u, s |-> s,
                 row |-> rows[s]]]
  /\ UNCHANGED tables

\* assign reads the abstract schedule in a transaction of its own, long before
\* the one that stores the result; the import brings its own matches.
LoadPlan(r, u, p) ==
  /\ reqs[r] = Idle
  /\ "assign" \in Ops
  /\ p \in Serial!LivePlans
  /\ reqs' = [reqs EXCEPT ![r] =
                [pc |-> "event", op |-> "assign", user |-> u, plan |-> p,
                 shape |-> plans[p]]]
  /\ UNCHANGED tables

\* The import's and the freeze's first read is the event itself.
LoadEventFirst(r, u, op) ==
  /\ reqs[r] = Idle
  /\ op \in Ops \cap (EventOps \cup {"import"})
  /\ reqs' = [reqs EXCEPT ![r] =
                [pc |-> "query", op |-> op, user |-> u, ev |-> event]]
  /\ UNCHANGED tables

\* event = await db.get(Event, assigned.event_id)
LoadEvent(r) ==
  /\ reqs[r].pc = "event"
  /\ reqs' = [reqs EXCEPT ![r] = Over([pc |-> "query", ev |-> event], @)]
  /\ UNCHANGED tables

-----------------------------------------------------------------------------
\* The decision, on the loaded copies and on the handler's own query.

ActiveNow   == {t \in live : rows[t].active}
OfficialNow == {t \in live : IsOfficial(rows[t])}

Allowed(q) ==
  CASE q.op \in {"patch", "restore"} -> MayEdit(q.ev, q.row, hist[q.s], q.user)
    [] q.op = "replace"   -> MayReplace(q.row, hist[q.s], q.user)
    [] q.op = "lock"      -> MayLock(q.ev, q.row, q.user)
    [] q.op = "unlock"    -> MayUnlock(q.ev, q.row, q.user)
    [] q.op = "activate"  ->          \* scalar_one_or_none: an error on two rows
         /\ Cardinality(ActiveNow) < 2
         /\ MayActivate(q.ev, q.row,
                        {rows[t] : t \in ActiveNow \ {q.s}}, q.user)
    [] q.op = "mark"      ->
         /\ Cardinality(OfficialNow) < 2
         /\ MayMark(q.ev, q.row, OfficialNow \ {q.s} # {}, q.user)
    [] q.op = "unmark"    -> MayUnmark(q.ev, q.row, q.user)
    [] q.op = "delete"    -> MayDelete(q.ev, q.row, q.user)
    [] q.op = "duplicate" -> TRUE
    [] q.op = "assign"    -> ~IsEventFrozen(q.ev)
    [] q.op = "import"    -> TRUE
    [] q.op = "freeze"    -> ~IsFrozen(q.ev)
    [] q.op = "unfreeze"  -> IsFrozen(q.ev) /\ (q.ev.freezer = q.user \/ IsAdmin(q.user))

Refuse(r) ==
  /\ reqs[r].pc = "query"
  /\ ~Allowed(reqs[r])
  /\ Reply(r)
  /\ UNCHANGED tables

Admit(r) ==
  /\ reqs[r].pc = "query"
  /\ Allowed(reqs[r])
  /\ reqs[r].op \notin {"restore", "duplicate"}
  /\ MoveTo(r, IF reqs[r].op \in BulkOps THEN "update" ELSE "commit")
  /\ UNCHANGED tables

\* restore also loads the history row it copies back ...
AdmitRestore(r) ==
  /\ reqs[r].pc = "query"
  /\ reqs[r].op = "restore"
  /\ Allowed(reqs[r])
  /\ \E h \in hist[reqs[r].s] :
       reqs' = [reqs EXCEPT ![r] = Over([pc |-> "commit", content |-> h.content], @)]
  /\ UNCHANGED tables

\* ... and duplicate the abstract schedule of the row it copies.
AdmitDuplicate(r) ==
  /\ reqs[r].pc = "query"
  /\ reqs[r].op = "duplicate"
  /\ LET shape == plans[reqs[r].row.plan] IN
       /\ shape # NoShape
       /\ reqs' = [reqs EXCEPT ![r] = Over([pc |-> "commit", shape |-> shape], @)]
  /\ UNCHANGED tables

\* What was to be copied vanished after the schedule was loaded.
SourceGone(r) ==
  /\ reqs[r].pc = "query"
  /\ \/ reqs[r].op = "duplicate" /\ plans[reqs[r].row.plan] = NoShape
     \/ reqs[r].op = "restore" /\ Allowed(reqs[r]) /\ hist[reqs[r].s] = {}
  /\ Reply(r)
  /\ UNCHANGED tables

-----------------------------------------------------------------------------
\* UPDATE assigned_schedules SET is_active = false WHERE event_id = ...
\* The statement works on the rows committed when it starts, waits for the row
\* locks of others, and keeps its own until the commit.

StartUpdate_ActiveOnly(r) ==      \* faulty: ... AND is_active
  /\ reqs[r].pc = "update"
  /\ reqs' = [reqs EXCEPT ![r] = Over([pc |-> "locking", seen |-> ActiveNow], @)]
  /\ UNCHANGED tables

StartUpdate(r) ==
  /\ reqs[r].pc = "update"
  /\ reqs' = [reqs EXCEPT ![r] = Over([pc |-> "locking", seen |-> live], @)]
  /\ UNCHANGED tables

FinishUpdate(r) ==
  /\ reqs[r].pc = "locking"
  /\ reqs[r].seen \cap LockedRows(r) = {}
  /\ reqs' = [reqs EXCEPT ![r] =
                Over([pc |-> "commit", seen |-> reqs[r].seen \cap live], @)]
  /\ UNCHANGED tables

Demoted(r) ==
  [t \in ScheduleIds |->
     IF t \in reqs[r].seen THEN [rows[t] EXCEPT !.active = FALSE] ELSE rows[t]]

-----------------------------------------------------------------------------
\* The commits.  A row that is gone by then fails the request (StaleDataError,
\* a foreign key), and nothing of it is stored.

Commits(r, op) ==
  /\ reqs[r].pc = "commit"
  /\ reqs[r].op = op
  /\ Reply(r)
  /\ actor' = reqs[r].user

\* A commit that updates the row the request loaded.
CommitsRow(r, op) ==
  /\ Commits(r, op)
  /\ reqs[r].s \in live
  /\ reqs[r].s \notin LockedRows(r)

SaveHistory_AsPatch(q, action) ==      \* faulty: one action for all
  hist' = [hist EXCEPT ![q.s] = @ \cup {Snapshot("patch", q.row)}]

\* The snapshot is taken from the copy the request loaded.
SaveHistory(q, action) ==
  hist' = [hist EXCEPT ![q.s] = @ \cup {Snapshot(action, q.row)}]

CommitPatch(r) ==
  /\ CommitsRow(r, "patch")
  /\ \E day \in Days : rows' = [rows EXCEPT ![reqs[r].s].content.day = day]
  /\ SaveHistory(reqs[r], "patch")
  /\ UNCHANGED <<live, locklog, plans, event, nextId, nextPlan, freezes>>

CommitRestore(r) ==
  /\ CommitsRow(r, "restore")
  /\ rows' = [rows EXCEPT ![reqs[r].s].content = reqs[r].content]
  /\ SaveHistory(reqs[r], "restore")
  /\ UNCHANGED <<live, locklog, plans, event, nextId, nextPlan, freezes>>

CommitReplace(r) ==
  /\ CommitsRow(r, "replace")
  /\ \E content \in Contents :
       /\ Serial!AddPlan(content.slots)
       /\ rows' = [rows EXCEPT ![reqs[r].s].plan = nextPlan,
                               ![reqs[r].s].content = content]
  /\ SaveHistory(reqs[r], "patch")
  /\ UNCHANGED <<live, locklog, event, nextId, freezes>>

CommitLock(r) ==
  /\ CommitsRow(r, "lock")
  /\ rows' = [rows EXCEPT ![reqs[r].s].lockedBy = reqs[r].user]
  /\ Serial!RecordLockEvent(reqs[r].s, "lock", reqs[r].user)
  /\ UNCHANGED <<live, hist, plans, event, nextId, nextPlan, freezes>>

CommitUnlock(r) ==
  /\ CommitsRow(r, "unlock")
  /\ rows' = [rows EXCEPT ![reqs[r].s].lockedBy = NoUser]
  /\ Serial!RecordLockEvent(reqs[r].s, "unlock", reqs[r].user)
  /\ UNCHANGED <<live, hist, plans, event, nextId, nextPlan, freezes>>

CommitActivate(r) ==
  /\ CommitsRow(r, "activate")
  /\ rows' = [Demoted(r) EXCEPT ![reqs[r].s].active = TRUE]
  /\ UNCHANGED <<live, hist, locklog, plans, event, nextId, nextPlan, freezes>>

\* The partial unique index on the event's official schedule.
IndexAdmits(q) == UniqueIndex => OfficialNow \subseteq {q.s}

\* Faulty: the lock event is written whether or not the schedule is locked.
AutoLockEvent_Always(q) == Serial!RecordLockEvent(q.s, "lock", q.user)

AutoLockEvent(q) ==
  \/ ~IsLocked(q.row) /\ Serial!RecordLockEvent(q.s, "lock", q.user)
  \/ IsLocked(q.row) /\ UNCHANGED locklog

\* Only changed columns are written: the lock of a row that was loaded locked
\* is not written again.
CommitMark(r) ==
  LET q == reqs[r] IN
  /\ CommitsRow(r, "mark")
  /\ IndexAdmits(q)
  /\ rows' = [rows EXCEPT ![q.s].officialBy = q.user,
                          ![q.s].lockedBy = IF IsLocked(q.row) THEN @ ELSE q.user]
  /\ AutoLockEvent(q)
  /\ SaveHistory(q, "mark-official")
  /\ UNCHANGED <<live, plans, event, nextId, nextPlan, freezes>>

CommitUnmark(r) ==
  /\ CommitsRow(r, "unmark")
  /\ rows' = [rows EXCEPT ![reqs[r].s].officialBy = NoUser]
  /\ UNCHANGED <<live, hist, locklog, plans, event, nextId, nextPlan, freezes>>

CommitDelete(r) ==
  /\ CommitsRow(r, "delete")
  /\ Serial!Remove({reqs[r].s})
  /\ UNCHANGED <<plans, event, nextId, nextPlan, freezes>>

\* forked_from_id is a foreign key.
ParentStored(q) == q.s \in live

CommitDuplicate(r) ==
  LET q == reqs[r] IN
  /\ Commits(r, "duplicate")
  /\ ParentStored(q)
  /\ Serial!AddPlan(q.shape)
  /\ Serial!Insert(rows, Serial!NewRow(nextPlan, q.row.content, q.user, FALSE, q.s))

PlanStored_Unchecked(q) == TRUE        \* faulty: no foreign key

\* abstract_schedule_id is one as well: the abstract schedule may have been
\* deleted while the slot map was computed.
PlanStored(q) == q.plan \in Serial!LivePlans

CommitAssign(r) ==
  LET q == reqs[r] IN
  /\ Commits(r, "assign")
  /\ PlanStored(q)
  /\ \E day \in Days :
       Serial!Insert(Demoted(r),
                     Serial!NewRow(q.plan, [day |-> day, slots |-> q.shape],
                                   q.user, TRUE, NoSchedule))
  /\ UNCHANGED <<plans, nextPlan>>

CommitImport(r) ==
  /\ Commits(r, "import")
  /\ \E content \in Contents :
       /\ Serial!AddPlan(content.slots)
       /\ Serial!Insert(Demoted(r),
                        Serial!NewRow(nextPlan, content, reqs[r].user, TRUE,
                                      NoSchedule))

CommitFreeze(r) ==
  /\ Commits(r, "freeze")
  /\ freezes < MaxFreezes
  /\ freezes' = freezes + 1
  /\ event' = [freezer |-> reqs[r].user, frozenAt |-> freezes + 1]
  /\ UNCHANGED <<rows, live, hist, locklog, plans, nextId, nextPlan>>

CommitUnfreeze(r) ==
  /\ Commits(r, "unfreeze")
  /\ event' = Serial!Unfrozen
  /\ UNCHANGED <<rows, live, hist, locklog, plans, nextId, nextPlan, freezes>>

CommitFails(r) ==
  LET q == reqs[r] IN
  /\ q.pc = "commit"
  /\ \/ q.op \in RowOps /\ q.s \notin live
     \/ q.op = "assign" /\ ~PlanStored(q)
     \/ q.op = "mark" /\ ~IndexAdmits(q)
  /\ Reply(r)
  /\ UNCHANGED tables

\* Handlers with one statement, or none before their write.
GenerateAbstract(u, shape) ==
  /\ "generate" \in Ops
  /\ Serial!GenerateAbstract(u, shape)
  /\ actor' = u
  /\ UNCHANGED reqs

DeleteAbstract(p) ==
  /\ "drop" \in Ops
  /\ \A r \in Slots : \A s \in Held(r) : rows[s].plan # p
  /\ Serial!DeleteAbstract(p)
  /\ actor' = NoUser
  /\ UNCHANGED reqs

-----------------------------------------------------------------------------
Commit(r) ==
  \/ CommitPatch(r)
  \/ CommitRestore(r)
  \/ CommitReplace(r)
  \/ CommitLock(r)
  \/ CommitUnlock(r)
  \/ CommitActivate(r)
  \/ CommitMark(r)
  \/ CommitUnmark(r)
  \/ CommitDelete(r)
  \/ CommitDuplicate(r)
  \/ CommitAssign(r)
  \/ CommitImport(r)
  \/ CommitFreeze(r)
  \/ CommitUnfreeze(r)
  \/ CommitFails(r)

Advance(r) ==
  \/ LoadEvent(r)
  \/ Refuse(r)
  \/ Admit(r)
  \/ AdmitRestore(r)
  \/ AdmitDuplicate(r)
  \/ SourceGone(r)
  \/ StartUpdate(r)
  \/ FinishUpdate(r)
  \/ Commit(r)

Arrive(r, u) ==
  \/ \E op \in RowOps, s \in ScheduleIds : LoadRow(r, u, op, s)
  \/ \E p \in PlanIds : LoadPlan(r, u, p)
  \/ \E op \in EventOps \cup {"import"} : LoadEventFirst(r, u, op)

Next ==
  \/ \E r \in Slots : Advance(r)
  \/ \E r \in Slots, u \in Users : Arrive(r, u)
  \/ \E u \in Users, shape \in Shapes : GenerateAbstract(u, shape)
  \/ \E p \in PlanIds : DeleteAbstract(p)

Spec         == Init /\ [][Next]_vars
AssignedSpec == InitAssigned /\ [][Next]_vars

-----------------------------------------------------------------------------
\* Requests answered one at a time are the steps of ScheduleLifecycle.
RefinesSerial == Serial!Spec

\* What survives the interleaving, because one transaction writes both sides
\* of it or because the database serialises the writers.

\* Activations of different schedules, marks, locks and deletions in flight
\* together leave one active and one official schedule: each bulk UPDATE waits
\* for the row locks of the other and demotes what it promoted, and with the
\* partial unique index the loser of two mark-official requests fails.  An
\* insert in flight (an assignment, an import, a fork) breaks the first: the
\* UPDATE does not see the new row.
AtMostOneOfEach ==
  \A s, t \in live :
    \/ rows[s].active /\ rows[t].active
    \/ IsOfficial(rows[s]) /\ IsOfficial(rows[t])
    => s = t

\* The lock columns are those the last lock event describes, although two
\* lock or unlock requests may both have gone through.
LockMatchesLastEvent ==
  \A s \in live : LET log == locklog[s] IN
    rows[s].lockedBy =
      IF log # <<>> /\ log[Len(log)].action = "lock"
      THEN log[Len(log)].user ELSE NoUser

\* Forks never point at a row that is gone, whichever of fork and deletion of
\* the source commits first.
ForkPointsAtLiveRow ==
  \A s \in live : rows[s].forkedFrom # NoSchedule => rows[s].forkedFrom \in live

\* No schedule outlives its abstract schedule: deleting that one takes the
\* schedules assigned from it along, and an assignment that was computing
\* meanwhile does not bring one back.
ScheduleHasItsPlan == \A s \in live : plans[rows[s].plan] # NoShape

\* Whatever is deleted while a request decides, no schedule is left pointing at
\* a source or an abstract schedule that is gone.
ReferencesHold == ForkPointsAtLiveRow /\ ScheduleHasItsPlan

-----------------------------------------------------------------------------
\* What a comment of the code claims and the interleaving breaks.

\* _was_ever_official: the structural fields of a schedule that was marked
\* official "are frozen forever".
EverOfficialKeepsContent ==
  \A s \in live : \A h \in hist[s] :
    h.action = "mark-official" => h.content = rows[s].content
=============================================================================
