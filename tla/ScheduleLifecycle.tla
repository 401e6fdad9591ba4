------------------------- MODULE ScheduleLifecycle -------------------------
(***************************************************************************)
(* The life of the schedules of one event: generated, assigned or          *)
(* imported, edited, locked, activated, marked official, restored, forked, *)
(* deleted, and frozen together with their event.  Every action is one     *)
(* request handler of app/main.py run from its first read to its commit    *)
(* with no other handler in between; LifecycleRaces drops that assumption. *)
(* Requests the handler answers without writing (a refusal, an idempotent  *)
(* repeat) leave the state alone and are the stuttering steps.             *)
(***************************************************************************)
EXTENDS LifecycleRules

VARIABLES
  rows,      \* assigned_schedules, a blank row where there is none
  live,      \* ids of assigned_schedules with a row
  hist,      \* assigned_schedule_history rows of each schedule
  locklog,   \* assigned_schedule_lock_events of each schedule, oldest first
  plans,     \* matches of each abstract schedule, NoShape where there is none
  event,     \* freeze columns of the event
  nextId,    \* next assigned_schedules id
  nextPlan,  \* next abstract_schedules id
  freezes,   \* number of freezes so far: the clock
  actor      \* the user whose request ran last: not stored by the code

tables == <<rows, live, hist, locklog>>
vars   == <<rows, live, hist, locklog, plans, event, nextId, nextPlan, freezes,
            actor>>

BlankRow ==
  [plan |-> NoPlan, active |-> FALSE, content |-> NoShape, owner |-> NoUser,
   lockedBy |-> NoUser, officialBy |-> NoUser, forkedFrom |-> NoSchedule,
   createdAt |-> 0]

Unfrozen == [freezer |-> NoUser, frozenAt |-> 0]

Init ==
  /\ rows = [s \in ScheduleIds |-> BlankRow]
  /\ live = {}
  /\ hist = [s \in ScheduleIds |-> {}]
  /\ locklog = [s \in ScheduleIds |-> <<>>]
  /\ plans = [p \in PlanIds |-> NoShape]
  /\ event = Unfrozen
  /\ nextId = 1
  /\ nextPlan = 1
  /\ freezes = 0
  /\ actor = NoUser

-----------------------------------------------------------------------------
\* Writes shared by several handlers.

LivePlans == {p \in PlanIds : plans[p] # NoShape}

AllInactive_Skipped == rows      \* faulty: nothing is demoted

\* UPDATE assigned_schedules SET is_active = false WHERE event_id = ...
AllInactive == [s \in ScheduleIds |-> [rows[s] EXCEPT !.active = FALSE]]

NewRow(p, c, u, on, parent) ==
  [plan |-> p, active |-> on, content |-> c, owner |-> u, lockedBy |-> NoUser,
   officialBy |-> NoUser, forkedFrom |-> parent, createdAt |-> freezes]

\* Insert a schedule into the table "base" with its first history row.
Insert(base, row) ==
  /\ nextId \in ScheduleIds
  /\ rows' = [base EXCEPT ![nextId] = row]
  /\ live' = live \cup {nextId}
  /\ hist' = [hist EXCEPT ![nextId] = {Snapshot("create", row)}]
  /\ nextId' = nextId + 1
  /\ UNCHANGED <<locklog, event, freezes>>

AddPlan(shape) ==
  /\ nextPlan \in PlanIds
  /\ plans' = [plans EXCEPT ![nextPlan] = shape]
  /\ nextPlan' = nextPlan + 1

\* Faulty: a restore leaves no history row.
Overwrite_UnlessRestore(s, action, row) ==
  /\ hist' = IF action = "restore" THEN hist
             ELSE [hist EXCEPT ![s] = @ \cup {Snapshot(action, rows[s])}]
  /\ rows' = [rows EXCEPT ![s] = row]
  /\ UNCHANGED <<live, locklog, event, nextId, freezes>>

\* Save the row's content under "action", then replace the row.
Overwrite(s, action, row) ==
  /\ hist' = [hist EXCEPT ![s] = @ \cup {Snapshot(action, rows[s])}]
  /\ rows' = [rows EXCEPT ![s] = row]
  /\ UNCHANGED <<live, locklog, event, nextId, freezes>>

RecordLockEvent(s, action, u) ==
  /\ Len(locklog[s]) < MaxLockEvents
  /\ locklog' = [locklog EXCEPT ![s] = Append(@, LockEvent(action, u))]

\* Faulty: forks keep pointing at the deleted schedule.
Remove_KeepsPointers(D) ==
  /\ live' = live \ D
  /\ rows' = [s \in ScheduleIds |-> IF s \in D THEN BlankRow ELSE rows[s]]
  /\ hist' = [s \in ScheduleIds |-> IF s \in D THEN {} ELSE hist[s]]
  /\ locklog' = [s \in ScheduleIds |-> IF s \in D THEN <<>> ELSE locklog[s]]

\* Faulty: the row itself is left behind.
Remove_KeepsRow(D) ==
  /\ live' = live \ D
  /\ UNCHANGED rows
  /\ hist' = [s \in ScheduleIds |-> IF s \in D THEN {} ELSE hist[s]]
  /\ locklog' = [s \in ScheduleIds |-> IF s \in D THEN <<>> ELSE locklog[s]]

\* DELETE of the schedules in D: history and lock events go with them and
\* forked_from_id of their forks becomes NULL.
Remove(D) ==
  /\ live' = live \ D
  /\ rows' = [s \in ScheduleIds |->
               IF s \in D THEN BlankRow
               ELSE [rows[s] EXCEPT !.forkedFrom =
                       IF @ \in D THEN NoSchedule ELSE @]]
  /\ hist' = [s \in ScheduleIds |-> IF s \in D THEN {} ELSE hist[s]]
  /\ locklog' = [s \in ScheduleIds |-> IF s \in D THEN <<>> ELSE locklog[s]]

-----------------------------------------------------------------------------
\* Creating schedules.

GenerateAbstract(u, shape) ==
  /\ AddPlan(shape)
  /\ UNCHANGED <<rows, live, hist, locklog, event, nextId, freezes>>

\* The freeze is asked without the user: it stops the freezer as well.
Assign(u, p, day) ==
  /\ p \in LivePlans
  /\ ~IsEventFrozen(event)
  /\ Insert(AllInactive,
            NewRow(p, [day |-> day, slots |-> plans[p]], u, TRUE, NoSchedule))
  /\ UNCHANGED <<plans, nextPlan>>

\* PDF import as a new schedule: the event's freeze is not asked.
ImportNew(u, shape, day) ==
  /\ AddPlan(shape)
  /\ Insert(AllInactive,
            NewRow(nextPlan, [day |-> day, slots |-> shape], u, TRUE, NoSchedule))

\* PDF import over an existing schedule.
ImportReplace(u, s, shape, day) ==
  /\ s \in live
  /\ MayReplace(rows[s], hist[s], u)
  /\ AddPlan(shape)
  /\ Overwrite(s, "patch", [rows[s] EXCEPT !.plan = nextPlan,
                              !.content = [day |-> day, slots |-> shape]])

\* A copy gets a copy of the abstract schedule and bypasses the freeze.
Duplicate(u, s) ==
  /\ s \in live
  /\ AddPlan(plans[rows[s].plan])
  /\ Insert(rows, NewRow(nextPlan, rows[s].content, u, FALSE, s))

-----------------------------------------------------------------------------
\* Editing a schedule's content.

Patch(u, s, day) ==
  /\ s \in live
  /\ MayEdit(event, rows[s], hist[s], u)
  /\ Overwrite(s, "patch", [rows[s] EXCEPT !.content.day = day])
  /\ UNCHANGED <<plans, nextPlan>>

Restore(u, s, h) ==
  /\ s \in live
  /\ MayEdit(event, rows[s], hist[s], u)
  /\ h \in hist[s]
  /\ Overwrite(s, "restore", [rows[s] EXCEPT !.content = h.content])
  /\ UNCHANGED <<plans, nextPlan>>

-----------------------------------------------------------------------------
\* Locks, the active flag, the official mark.

Lock(u, s) ==
  /\ s \in live
  /\ MayLock(event, rows[s], u)
  /\ rows' = [rows EXCEPT ![s].lockedBy = u]
  /\ RecordLockEvent(s, "lock", u)
  /\ UNCHANGED <<live, hist, plans, event, nextId, nextPlan, freezes>>

Unlock(u, s) ==
  /\ s \in live
  /\ MayUnlock(event, rows[s], u)
  /\ rows' = [rows EXCEPT ![s].lockedBy = NoUser]
  /\ RecordLockEvent(s, "unlock", u)
  /\ UNCHANGED <<live, hist, plans, event, nextId, nextPlan, freezes>>

Activate(u, s) ==
  /\ s \in live
  /\ MayActivate(event, rows[s],
                 {rows[t] : t \in {t \in live \ {s} : rows[t].active}}, u)
  /\ rows' = [AllInactive EXCEPT ![s].active = TRUE]
  /\ UNCHANGED <<live, hist, locklog, plans, event, nextId, nextPlan, freezes>>

\* Marking locks an unlocked schedule and leaves a lock that is there alone,
\* whoever holds it.
MarkOfficial(u, s) ==
  /\ s \in live
  /\ MayMark(event, rows[s], \E t \in live \ {s} : IsOfficial(rows[t]), u)
  /\ \/ /\ ~IsLocked(rows[s])
        /\ rows' = [rows EXCEPT ![s].officialBy = u, ![s].lockedBy = u]
        /\ RecordLockEvent(s, "lock", u)
     \/ /\ IsLocked(rows[s])
        /\ rows' = [rows EXCEPT ![s].officialBy = u]
        /\ UNCHANGED locklog
  /\ hist' = [hist EXCEPT ![s] = @ \cup {Snapshot("mark-official", rows[s])}]
  /\ UNCHANGED <<live, plans, event, nextId, nextPlan, freezes>>

UnmarkOfficial(u, s) ==
  /\ s \in live
  /\ MayUnmark(event, rows[s], u)
  /\ rows' = [rows EXCEPT ![s].officialBy = NoUser]
  /\ UNCHANGED <<live, hist, locklog, plans, event, nextId, nextPlan, freezes>>

-----------------------------------------------------------------------------
\* The event's freeze.

Freeze(u) ==
  /\ ~IsFrozen(event)
  /\ freezes < MaxFreezes
  /\ freezes' = freezes + 1
  /\ event' = [freezer |-> u, frozenAt |-> freezes + 1]
  /\ UNCHANGED <<tables, plans, nextId, nextPlan>>

Unfreeze(u) ==
  /\ IsFrozen(event)
  /\ event.freezer = u \/ IsAdmin(u)
  /\ event' = Unfrozen
  /\ UNCHANGED <<tables, plans, nextId, nextPlan, freezes>>

-----------------------------------------------------------------------------
\* Deleting.

Delete(u, s) ==
  /\ s \in live
  /\ MayDelete(event, rows[s], u)
  /\ Remove({s})
  /\ UNCHANGED <<plans, event, nextId, nextPlan, freezes>>

\* No sign-in and no guard: the abstract schedule goes and the cascade takes
\* every schedule assigned from it.
DeleteAbstract(p) ==
  /\ p \in LivePlans
  /\ plans' = [plans EXCEPT ![p] = NoShape]
  /\ Remove({s \in live : rows[s].plan = p})
  /\ UNCHANGED <<event, nextId, nextPlan, freezes>>

-----------------------------------------------------------------------------
ScheduleStep(u) ==
  \E s \in ScheduleIds :
    \/ \E day \in Days : Patch(u, s, day)
    \/ \E day \in Days, shape \in Shapes : ImportReplace(u, s, shape, day)
    \/ \E h \in hist[s] : Restore(u, s, h)
    \/ Lock(u, s)
    \/ Unlock(u, s)
    \/ Activate(u, s)
    \/ MarkOfficial(u, s)
    \/ UnmarkOfficial(u, s)
    \/ Duplicate(u, s)
    \/ Delete(u, s)

EventStep(u) ==
  \/ \E shape \in Shapes : GenerateAbstract(u, shape)
  \/ \E p \in PlanIds, day \in Days : Assign(u, p, day)
  \/ \E shape \in Shapes, day \in Days : ImportNew(u, shape, day)
  \/ Freeze(u)
  \/ Unfreeze(u)

Next ==
  \/ \E u \in Users : (ScheduleStep(u) \/ EventStep(u)) /\ actor' = u
  \/ \E p \in PlanIds : DeleteAbstract(p) /\ actor' = NoUser

Spec == Init /\ [][Next]_vars

-----------------------------------------------------------------------------
\* Types of the tables and of the counters.
TypeOK ==
  /\ live \subseteq ScheduleIds
  /\ rows \in [ScheduleIds -> Rows \cup {BlankRow}]
  /\ \A s \in ScheduleIds : s \in live <=> rows[s] # BlankRow
  /\ hist \in [ScheduleIds -> SUBSET HistoryRows]
  /\ locklog \in [ScheduleIds -> Seq(LockEvents)]
  /\ plans \in [PlanIds -> Shapes \cup {NoShape}]
  /\ event \in EventRows
  /\ nextId \in 1 .. MaxSchedules + 1
  /\ nextPlan \in 1 .. MaxPlans + 1
  /\ freezes \in 0 .. MaxFreezes
  /\ actor \in Actors

\* /view shows "the" active schedule: assigning, importing and activating each
\* demote every other schedule of the event.
AtMostOneActive ==
  \A s, t \in live : rows[s].active /\ rows[t].active => s = t

\* "At most one schedule per event_id can be official": mark-official refuses
\* while another one is.
AtMostOneOfficial ==
  \A s, t \in live : IsOfficial(rows[s]) /\ IsOfficial(rows[t]) => s = t

\* The public view and the live data take the one active and the one official
\* schedule of the event: there are never two to choose from.
AtMostOneOfEach == AtMostOneActive /\ AtMostOneOfficial

\* An official schedule is locked (the auto-lock cannot be released while the
\* mark is on) and carries the mark-official row _was_ever_official looks for.
OfficialIsLocked ==
  \A s \in live : IsOfficial(rows[s]) =>
    /\ IsLocked(rows[s])
    /\ \E h \in hist[s] : h.action = "mark-official"

\* Structural immutability is permanent: what a schedule says is what it said
\* every time it was marked, also after it was unmarked and unlocked.
EverOfficialKeepsContent ==
  \A s \in live : \A h \in hist[s] :
    h.action = "mark-official" => h.content = rows[s].content

\* The audit log alternates lock and unlock, only the holder unlocks, and its
\* last entry agrees with the lock columns: the diagnostic question "who locked
\* or unlocked it" has the answer the live row shows.
LockLogAgrees ==
  \A s \in ScheduleIds :
    LET log == locklog[s] IN
    /\ \A i \in 1 .. Len(log) :
         log[i].action = (IF i % 2 = 1 THEN "lock" ELSE "unlock")
    /\ \A i \in 2 .. Len(log) :
         log[i].action = "unlock" => log[i].user = log[i - 1].user
    /\ rows[s].lockedBy =
         IF Len(log) % 2 = 1 THEN log[Len(log)].user ELSE NoUser

\* Walking forked_from_id backward ends: it names an existing, older schedule
\* or NULL, whatever was deleted on the way.
LineageEnds ==
  \A s \in live : LET parent == rows[s].forkedFrom IN
    parent # NoSchedule => parent \in live /\ parent < s

-----------------------------------------------------------------------------
\* Copy-on-write recovery: whatever overwrites the day plan or the slot map of a
\* schedule leaves them behind in the history, so that they can be restored.
\* The matches are not in a history row: SlotsFitTheMatches below.
OverwrittenContentKept ==
  [][\A s \in live \cap live' :
       rows'[s].content # rows[s].content =>
         \E h \in hist'[s] : h.content = rows[s].content]_vars

Touched(s) ==
  \/ s \notin live'
  \/ rows'[s].content # rows[s].content
  \/ rows'[s].lockedBy # rows[s].lockedBy
  \/ rows'[s].officialBy # rows[s].officialBy

\* The two writers that ask for no freeze and no ownership of the row: the PDF
\* import over a schedule and the deletion of its abstract schedule.
MovedToNewPlan(s) == s \in live' /\ rows'[s].plan # rows[s].plan
PlanDropped(s)    == plans'[rows[s].plan] = NoShape

\* While the event is frozen, a schedule that existed at the freeze changes
\* content, lock or mark, or disappears, only at the hand of the freezer or an
\* admin (the two writers above aside).
FreezeProtects ==
  [][\A s \in live :
       /\ IsFrozen(event) /\ rows[s].createdAt < event.frozenAt
       /\ Touched(s)
       /\ ~MovedToNewPlan(s) /\ ~PlanDropped(s)
       => CanBypassFreeze(event, actor')]_vars

\* While a schedule is locked nobody but the holder changes its content,
\* releases or takes over the lock, or deletes it (a drop of its abstract
\* schedule aside); admins included.
LockExcludesOthers ==
  [][\A s \in live :
       /\ IsLocked(rows[s])
       /\ \/ s \notin live'
          \/ rows'[s].content # rows[s].content
          \/ rows'[s].lockedBy # rows[s].lockedBy
       /\ ~PlanDropped(s)
       => actor' = rows[s].lockedBy]_vars

\* Activating an existing schedule never takes the active flag from a schedule
\* another user holds locked, unless an admin does it.
ActivationKeepsHeldActive ==
  [][\A s, t \in live :
       /\ rows[s].active /\ s \in live' /\ ~rows'[s].active
       /\ t \in live' /\ rows'[t].active
       /\ LockedByOther(rows[s], actor')
       => IsAdmin(actor')]_vars

\* The lifecycle keeps the promise of OfficialRecord.
OfficialNow ==
  IF \E s \in live : IsOfficial(rows[s])
  THEN CHOOSE s \in live : IsOfficial(rows[s])
  ELSE NoSchedule

SealedContent ==
  [s \in ScheduleIds |->
     IF \E h \in hist[s] : h.action = "mark-official"
     THEN rows[s].content ELSE NoShape]

Record == INSTANCE OfficialRecord
            WITH Ids <- ScheduleIds, NoContent <- NoShape,
                 official <- OfficialNow, sealed <- SealedContent

KeepsOfficialRecord == Record!Spec

\* Claim at app/main.py:4806-4808, of an import over a schedule: the abstract
\* schedule it replaces is "referenced by the history snapshot via
\* abstract_schedule_id".  A history row has no such column; if it had, every
\* slot map a schedule is given back would come with the matches it is for.
SlotsFitTheMatches == \A s \in live : rows[s].content.slots = plans[rows[s].plan]
=============================================================================
