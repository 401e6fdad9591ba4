--------------------------- MODULE LifecycleRules ---------------------------
(***************************************************************************)
(* Rows of the schedule database and the permission rules every lifecycle  *)
(* endpoint of app/main.py asks before it writes.  The rules are pure: they *)
(* speak of the rows a handler has loaded, so the same rules serve the     *)
(* handlers taken one at a time (ScheduleLifecycle) and the handlers that  *)
(* interleave between their reads and their commit (LifecycleRaces).       *)
(***************************************************************************)
EXTENDS Integers, Sequences, FiniteSets

CONSTANTS
  Users,         \* users.id of the signed-in users
  Admins,        \* those whose token carries is_admin
  NoUser,        \* NULL in a *_by_user_id column, or an anonymous request
  Days,          \* day_config and practice_matches: what PATCH may replace
  Shapes,        \* matches of an abstract schedule, up to renaming of slots
  NoShape,       \* an abstract schedule id with no row
  MaxSchedules,  \* bound: assigned_schedules ids ever issued
  MaxPlans,      \* bound: abstract_schedules ids ever issued
  MaxFreezes,    \* bound: times the event is frozen
  MaxLockEvents  \* bound: lock/unlock events per schedule

ASSUME ConstantsAssumption ==
  /\ Admins \subseteq Users
  /\ NoUser \notin Users
  /\ NoShape \notin Shapes
  /\ MaxSchedules \in Nat
  /\ MaxPlans \in Nat
  /\ MaxFreezes \in Nat
  /\ MaxLockEvents \in Nat

ScheduleIds == 1 .. MaxSchedules
PlanIds     == 1 .. MaxPlans
NoSchedule  == 0                      \* NULL in forked_from_id
NoPlan      == 0
Actors      == Users \cup {NoUser}

\* The content a history row snapshots.  A slot map is represented by the
\* shape it was computed for: a permutation of slots means something only
\* together with the matches it permutes.
Contents == [day : Days, slots : Shapes]

\* One row of assigned_schedules.  A lock (locked_at, locked_by_user_id) and an
\* official mark (is_official, official_*) are written and cleared as a whole,
\* so the user id stands for the group and NoUser for "not set".
Rows == [plan : PlanIds, active : BOOLEAN, content : Contents, owner : Users,
         lockedBy : Actors, officialBy : Actors,
         forkedFrom : ScheduleIds \cup {NoSchedule}, createdAt : Nat]

HistoryActions == {"create", "patch", "restore", "mark-official"}
HistoryRows    == [action : HistoryActions, content : Contents]
LockEvents     == [action : {"lock", "unlock"}, user : Users]

\* The lifecycle columns of the event's row.  Time is counted in freezes: a
\* schedule is stamped with the number of freezes before it was inserted and a
\* freeze with its own number, which orders created_at and events.locked_at.
EventRows == [freezer : Actors, frozenAt : Nat]

-----------------------------------------------------------------------------
Snapshot(action, row) == [action |-> action, content |-> row.content]
LockEvent(action, u)  == [action |-> action, user |-> u]

IsLocked(row)   == row.lockedBy # NoUser
IsOfficial(row) == row.officialBy # NoUser
IsFrozen(ev)    == ev.freezer # NoUser

IsAdmin(u) == u \in Admins

CanBypassFreeze(ev, u) == ~IsFrozen(ev) \/ IsAdmin(u) \/ ev.freezer = u

\* _is_event_frozen with and without the optional user argument.
IsEventFrozenFor(ev, u) == IsFrozen(ev) /\ ~CanBypassFreeze(ev, u)
IsEventFrozen(ev)       == IsFrozen(ev)

\* Faulty: the comparison that tells sandbox copies apart, turned round.
ProtectedByFreeze_Swapped(ev, row, u) ==
  /\ IsFrozen(ev)
  /\ row.createdAt >= ev.frozenAt
  /\ ~CanBypassFreeze(ev, u)

\* A row inserted at or after the freeze is a sandbox copy: exempt.
ProtectedByFreeze(ev, row, u) ==
  /\ IsFrozen(ev)
  /\ row.createdAt < ev.frozenAt
  /\ ~CanBypassFreeze(ev, u)

\* Faulty: unmarking makes the schedule editable again.
WasEverOfficial_OnlyNow(row, hist) == IsOfficial(row)

WasEverOfficial(row, hist) ==
  \/ IsOfficial(row)
  \/ \E h \in hist : h.action = "mark-official"

LockedByOther(row, u) == IsLocked(row) /\ row.lockedBy # u

-----------------------------------------------------------------------------
\* The guards of the endpoints, in the order the handlers ask them.
MayEdit_IgnoringLock(ev, row, hist, u) ==          \* faulty
  /\ ~ProtectedByFreeze(ev, row, u)
  /\ ~WasEverOfficial(row, hist)

MayEdit(ev, row, hist, u) ==                        \* PATCH and restore
  /\ ~ProtectedByFreeze(ev, row, u)
  /\ ~WasEverOfficial(row, hist)
  /\ ~LockedByOther(row, u)

MayReplace(row, hist, u) ==                         \* PDF import over a row
  /\ ~WasEverOfficial(row, hist)
  /\ ~LockedByOther(row, u)

MayLock(ev, row, u) == ~ProtectedByFreeze(ev, row, u) /\ ~IsLocked(row)

\* Faulty: the auto-lock of an official schedule can be released.
MayUnlock_WhileOfficial(ev, row, u) ==
  /\ ~ProtectedByFreeze(ev, row, u)
  /\ row.lockedBy = u

\* Faulty: anybody releases a lock.
MayUnlock_ByAnyone(ev, row, u) ==
  /\ ~ProtectedByFreeze(ev, row, u)
  /\ ~IsOfficial(row)
  /\ IsLocked(row)

MayUnlock(ev, row, u) ==
  /\ ~ProtectedByFreeze(ev, row, u)
  /\ ~IsOfficial(row)
  /\ row.lockedBy = u

\* Faulty: nobody asks who holds the schedule that is demoted.
MayActivate_IgnoringHolder(ev, row, others, u) ==
  /\ ~ProtectedByFreeze(ev, row, u)
  /\ LockedByOther(row, u) => IsAdmin(u)

\* "others" are the rows of the event the handler saw active.
MayActivate(ev, row, others, u) ==
  /\ ~ProtectedByFreeze(ev, row, u)
  /\ LockedByOther(row, u) => IsAdmin(u)
  /\ \A r \in others : LockedByOther(r, u) => IsAdmin(u)

MayMark_IgnoringOther(ev, row, otherOfficial, u) ==  \* faulty
  /\ ~IsEventFrozenFor(ev, u)
  /\ ~IsOfficial(row)

MayMark(ev, row, otherOfficial, u) ==
  /\ ~IsEventFrozenFor(ev, u)
  /\ ~IsOfficial(row)
  /\ ~otherOfficial

MayUnmark(ev, row, u) ==
  /\ ~IsEventFrozenFor(ev, u)
  /\ IsOfficial(row)
  /\ row.officialBy = u \/ IsAdmin(u)

MayDelete(ev, row, u) ==
  /\ ~ProtectedByFreeze(ev, row, u)
  /\ ~IsOfficial(row)
  /\ ~LockedByOther(row, u)
  /\ row.owner = u
=============================================================================
