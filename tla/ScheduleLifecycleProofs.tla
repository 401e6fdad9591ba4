---------------------- MODULE ScheduleLifecycleProofs ----------------------
(***************************************************************************)
(* What ScheduleLifecycle keeps for any number of users, schedules and     *)
(* freezes.  Its types; the official record of an event: at most one       *)
(* schedule is official, it is locked, and what was ever official is never *)
(* rewritten, so that ScheduleLifecycle implements OfficialRecord.  Who    *)
(* may touch a schedule: freezes and locks keep what they promise, the     *)
(* history keeps what was overwritten, one schedule at most is active.     *)
(* And what the audit trail shows agrees with the schedules: lineage ends, *)
(* and the lock log tells who holds a lock.                                *)
(***************************************************************************)
EXTENDS ScheduleLifecycle, TLAPS

-----------------------------------------------------------------------------
\* Rows.

\* A schedule with a row has a row of the right type.
LEMMA LiveRow ==
  ASSUME TypeOK, NEW s \in live
  PROVE  s \in ScheduleIds /\ rows[s] \in Rows
BY DEF TypeOK

\* Every row of the right type has an owner, so it is not blank.
LEMMA RowNotBlank ==
  ASSUME NEW row \in Rows
  PROVE  row # BlankRow
BY ConstantsAssumption DEF Rows, BlankRow

\* What the handlers write into the columns of a row leaves a row.
LEMMA ColumnTypes ==
  ASSUME NEW row \in Rows
  PROVE  /\ \A b \in BOOLEAN : [row EXCEPT !.active = b] \in Rows
         /\ \A u \in Actors : [row EXCEPT !.lockedBy = u] \in Rows
         /\ \A u \in Actors : [row EXCEPT !.officialBy = u] \in Rows
         /\ \A c \in Contents : [row EXCEPT !.content = c] \in Rows
         /\ \A day \in Days : [row EXCEPT !.content.day = day] \in Rows
         /\ \A p \in PlanIds, c \in Contents :
              [row EXCEPT !.plan = p, !.content = c] \in Rows
         /\ \A u, v \in Actors :
              [row EXCEPT !.officialBy = u, !.lockedBy = v] \in Rows
         /\ \A s \in ScheduleIds \cup {NoSchedule} :
              [row EXCEPT !.forkedFrom = s] \in Rows
BY DEF Rows, Contents

\* Clearing a column of a blank row leaves it blank.
LEMMA BlankCleared ==
  /\ [BlankRow EXCEPT !.active = FALSE] = BlankRow
  /\ [BlankRow EXCEPT !.forkedFrom = NoSchedule] = BlankRow
<1>1. BlankRow.active = FALSE /\ BlankRow.forkedFrom = NoSchedule
  BY DEF BlankRow
<1>2. BlankRow = [f \in DOMAIN BlankRow |-> BlankRow[f]]
  BY DEF BlankRow
<1> QED
  BY <1>1, <1>2

\* A handler that replaces the row of a live schedule keeps the types of rows.
LEMMA UpdateRow ==
  ASSUME TypeOK, NEW s \in live, NEW row \in Rows,
         rows' = [rows EXCEPT ![s] = row], live' = live
  PROVE  /\ rows' \in [ScheduleIds -> Rows \cup {BlankRow}]
         /\ \A t \in ScheduleIds : t \in live' <=> rows'[t] # BlankRow
BY RowNotBlank DEF TypeOK

\* So does the UPDATE that demotes every schedule.
LEMMA AllInactiveType ==
  ASSUME TypeOK
  PROVE  /\ AllInactive \in [ScheduleIds -> Rows \cup {BlankRow}]
         /\ \A t \in ScheduleIds : t \in live <=> AllInactive[t] # BlankRow
<1>1. ASSUME NEW t \in ScheduleIds, rows[t] = BlankRow
      PROVE  AllInactive[t] = BlankRow
  <2>1. AllInactive[t] = [rows[t] EXCEPT !.active = FALSE]
    BY DEF AllInactive
  <2> QED
    BY <1>1, <2>1, BlankCleared
<1>2. ASSUME NEW t \in ScheduleIds, rows[t] \in Rows
      PROVE  AllInactive[t] \in Rows
  BY <1>2, ColumnTypes DEF AllInactive
<1> QED
  BY <1>1, <1>2, RowNotBlank DEF TypeOK, AllInactive

\* Inserting a schedule keeps the types of every table.
LEMMA InsertType ==
  ASSUME TypeOK,
         NEW base \in [ScheduleIds -> Rows \cup {BlankRow}],
         \A t \in ScheduleIds : t \in live <=> base[t] # BlankRow,
         NEW row \in Rows, Insert(base, row)
  PROVE  /\ live' \subseteq ScheduleIds
         /\ rows' \in [ScheduleIds -> Rows \cup {BlankRow}]
         /\ \A s \in ScheduleIds : s \in live' <=> rows'[s] # BlankRow
         /\ hist' \in [ScheduleIds -> SUBSET HistoryRows]
         /\ locklog' \in [ScheduleIds -> Seq(LockEvents)]
         /\ event' \in EventRows
         /\ nextId' \in 1 .. MaxSchedules + 1
         /\ freezes' \in 0 .. MaxFreezes
<1>1. Snapshot("create", row) \in HistoryRows
  BY DEF Snapshot, HistoryRows, HistoryActions, Rows
<1>2. nextId' \in 1 .. MaxSchedules + 1
  BY ConstantsAssumption DEF TypeOK, Insert, ScheduleIds
<1> QED
  BY <1>1, <1>2, RowNotBlank DEF TypeOK, Insert

\* A new row has the right type.
LEMMA NewRowType ==
  ASSUME TypeOK, NEW p \in PlanIds, NEW c \in Contents, NEW u \in Users,
         NEW on \in BOOLEAN, NEW parent \in ScheduleIds \cup {NoSchedule}
  PROVE  NewRow(p, c, u, on, parent) \in Rows
BY ConstantsAssumption DEF TypeOK, NewRow, Rows, Actors

\* Adding an abstract schedule keeps the types of the plans.
LEMMA AddPlanType ==
  ASSUME TypeOK, NEW shape \in Shapes \cup {NoShape}, AddPlan(shape)
  PROVE  /\ plans' \in [PlanIds -> Shapes \cup {NoShape}]
         /\ nextPlan \in PlanIds
         /\ nextPlan' \in 1 .. MaxPlans + 1
BY ConstantsAssumption DEF TypeOK, AddPlan, PlanIds

\* Overwriting a schedule keeps the types of every table.
LEMMA OverwriteType ==
  ASSUME TypeOK, NEW s \in live, NEW action \in HistoryActions,
         NEW row \in Rows, Overwrite(s, action, row)
  PROVE  /\ live' \subseteq ScheduleIds
         /\ rows' \in [ScheduleIds -> Rows \cup {BlankRow}]
         /\ \A t \in ScheduleIds : t \in live' <=> rows'[t] # BlankRow
         /\ hist' \in [ScheduleIds -> SUBSET HistoryRows]
         /\ locklog' \in [ScheduleIds -> Seq(LockEvents)]
         /\ event' \in EventRows
         /\ nextId' \in 1 .. MaxSchedules + 1
         /\ freezes' \in 0 .. MaxFreezes
<1>1. Snapshot(action, rows[s]) \in HistoryRows
  BY LiveRow DEF Snapshot, HistoryRows, Rows
<1>2. hist' \in [ScheduleIds -> SUBSET HistoryRows]
  BY <1>1 DEF TypeOK, Overwrite
<1> QED
  BY <1>2, UpdateRow DEF TypeOK, Overwrite

\* So do a lock event ...
LEMMA RecordLockEventType ==
  ASSUME TypeOK, NEW s \in ScheduleIds, NEW action \in {"lock", "unlock"},
         NEW u \in Users, RecordLockEvent(s, action, u)
  PROVE  locklog' \in [ScheduleIds -> Seq(LockEvents)]
<1>1. LockEvent(action, u) \in LockEvents
  BY DEF LockEvent, LockEvents
<1>2. Append(locklog[s], LockEvent(action, u)) \in Seq(LockEvents)
  BY <1>1 DEF TypeOK
<1> QED
  BY <1>2 DEF TypeOK, RecordLockEvent

\* ... and a deletion.
LEMMA RemoveType ==
  ASSUME TypeOK, NEW D, D \subseteq ScheduleIds, Remove(D)
  PROVE  /\ live' \subseteq ScheduleIds
         /\ rows' \in [ScheduleIds -> Rows \cup {BlankRow}]
         /\ \A t \in ScheduleIds : t \in live' <=> rows'[t] # BlankRow
         /\ hist' \in [ScheduleIds -> SUBSET HistoryRows]
         /\ locklog' \in [ScheduleIds -> Seq(LockEvents)]
<1>1. ASSUME NEW t \in ScheduleIds, t \notin D, rows[t] = BlankRow
      PROVE  rows'[t] = BlankRow
  <2>1. rows'[t] = [BlankRow EXCEPT !.forkedFrom =
                      IF @ \in D THEN NoSchedule ELSE @]
    BY <1>1 DEF Remove
  <2> QED
    BY <2>1 DEF BlankRow
<1>2. ASSUME NEW t \in ScheduleIds, t \notin D, rows[t] \in Rows
      PROVE  rows'[t] \in Rows
  <2>1. rows'[t] = [rows[t] EXCEPT !.forkedFrom =
                      IF @ \in D THEN NoSchedule ELSE @]
    BY <1>2 DEF Remove
  <2> QED
    BY <1>2, <2>1 DEF Rows
<1>3. ASSUME NEW t \in D
      PROVE  rows'[t] = BlankRow
  BY <1>3 DEF Remove
<1>4. rows' \in [ScheduleIds -> Rows \cup {BlankRow}]
  BY <1>1, <1>2, <1>3 DEF TypeOK, Remove
<1>5. \A t \in ScheduleIds : t \in live' <=> rows'[t] # BlankRow
  BY <1>1, <1>2, <1>3, RowNotBlank DEF TypeOK, Remove
<1>6. <<>> \in Seq(LockEvents)
  OBVIOUS
<1> QED
  BY <1>4, <1>5, <1>6 DEF TypeOK, Remove

-----------------------------------------------------------------------------
\* Type correctness.

LEMMA TypeInit == Init => TypeOK
<1> SUFFICES ASSUME Init PROVE TypeOK
  OBVIOUS
<1>1. <<>> \in Seq(LockEvents)
  OBVIOUS
<1> QED
  BY <1>1, ConstantsAssumption
  DEF Init, TypeOK, Unfrozen, EventRows, ScheduleIds, PlanIds, Actors

\* No handler breaks a type, whoever calls it.
LEMMA TypeStep == TypeOK /\ [Next]_vars => TypeOK'
<1> SUFFICES ASSUME TypeOK, [Next]_vars PROVE TypeOK'
  OBVIOUS
<1> USE DEF Actors
<1>1. ASSUME NEW u \in Users, actor' = u, NEW s \in ScheduleIds,
             NEW day \in Days, Patch(u, s, day)
      PROVE  TypeOK'
  <2>1. [rows[s] EXCEPT !.content.day = day] \in Rows
    BY <1>1, LiveRow, ColumnTypes DEF Patch
  <2> QED
    BY <1>1, <2>1, OverwriteType DEF Patch, TypeOK, HistoryActions
<1>2. ASSUME NEW u \in Users, actor' = u, NEW s \in ScheduleIds,
             NEW day \in Days, NEW shape \in Shapes,
             ImportReplace(u, s, shape, day)
      PROVE  TypeOK'
  <2>1. /\ plans' \in [PlanIds -> Shapes \cup {NoShape}]
        /\ nextPlan \in PlanIds
        /\ nextPlan' \in 1 .. MaxPlans + 1
    BY <1>2, AddPlanType DEF ImportReplace
  <2>2. [day |-> day, slots |-> shape] \in Contents
    BY DEF Contents
  <2>3. [rows[s] EXCEPT !.plan = nextPlan,
                        !.content = [day |-> day, slots |-> shape]] \in Rows
    BY <1>2, <2>1, <2>2, LiveRow, ColumnTypes DEF ImportReplace
  <2> QED
    BY <1>2, <2>1, <2>3, OverwriteType DEF ImportReplace, TypeOK, HistoryActions
<1>3. ASSUME NEW u \in Users, actor' = u, NEW s \in ScheduleIds,
             NEW h \in hist[s], Restore(u, s, h)
      PROVE  TypeOK'
  <2>1. h.content \in Contents
    BY <1>3 DEF TypeOK, HistoryRows
  <2>2. [rows[s] EXCEPT !.content = h.content] \in Rows
    BY <1>3, <2>1, LiveRow, ColumnTypes DEF Restore
  <2> QED
    BY <1>3, <2>2, OverwriteType DEF Restore, TypeOK, HistoryActions
<1>4. ASSUME NEW u \in Users, actor' = u, NEW s \in ScheduleIds, Lock(u, s)
      PROVE  TypeOK'
  <2>1. [rows[s] EXCEPT !.lockedBy = u] \in Rows
    BY <1>4, LiveRow, ColumnTypes DEF Lock
  <2>2. rows' = [rows EXCEPT ![s] = [rows[s] EXCEPT !.lockedBy = u]]
    BY <1>4 DEF Lock
  <2> QED
    BY <1>4, <2>1, <2>2, UpdateRow, RecordLockEventType DEF Lock, TypeOK
<1>5. ASSUME NEW u \in Users, actor' = u, NEW s \in ScheduleIds, Unlock(u, s)
      PROVE  TypeOK'
  <2>1. [rows[s] EXCEPT !.lockedBy = NoUser] \in Rows
    BY <1>5, LiveRow, ColumnTypes DEF Unlock
  <2>2. rows' = [rows EXCEPT ![s] = [rows[s] EXCEPT !.lockedBy = NoUser]]
    BY <1>5 DEF Unlock
  <2> QED
    BY <1>5, <2>1, <2>2, UpdateRow, RecordLockEventType DEF Unlock, TypeOK
<1>6. ASSUME NEW u \in Users, actor' = u, NEW s \in ScheduleIds, Activate(u, s)
      PROVE  TypeOK'
  <2>1. AllInactive[s] \in Rows
    BY <1>6, AllInactiveType DEF Activate
  <2>2. rows'[s] \in Rows
    BY <1>6, <2>1, AllInactiveType, ColumnTypes DEF Activate
  <2>3. rows' = [AllInactive EXCEPT ![s] = rows'[s]]
    BY <1>6, AllInactiveType DEF Activate
  <2> QED
    BY <1>6, <2>2, <2>3, AllInactiveType, RowNotBlank DEF Activate, TypeOK
<1>7. ASSUME NEW u \in Users, actor' = u, NEW s \in ScheduleIds,
             MarkOfficial(u, s)
      PROVE  TypeOK'
  <2>1. Snapshot("mark-official", rows[s]) \in HistoryRows
    BY <1>7, LiveRow DEF MarkOfficial, Snapshot, HistoryRows, HistoryActions, Rows
  <2>2. hist' \in [ScheduleIds -> SUBSET HistoryRows]
    BY <1>7, <2>1 DEF MarkOfficial, TypeOK
  <2>3. rows'[s] \in Rows
    <3>1. /\ [rows[s] EXCEPT !.officialBy = u, !.lockedBy = u] \in Rows
          /\ [rows[s] EXCEPT !.officialBy = u] \in Rows
      BY <1>7, LiveRow, ColumnTypes DEF MarkOfficial
    <3> QED
      BY <1>7, <3>1 DEF MarkOfficial, TypeOK
  <2>4. locklog' \in [ScheduleIds -> Seq(LockEvents)]
    BY <1>7, RecordLockEventType DEF MarkOfficial, TypeOK
  <2>5. rows' = [rows EXCEPT ![s] = rows'[s]]
    BY <1>7 DEF MarkOfficial, TypeOK
  <2> QED
    BY <1>7, <2>2, <2>3, <2>4, <2>5, UpdateRow DEF MarkOfficial, TypeOK
<1>8. ASSUME NEW u \in Users, actor' = u, NEW s \in ScheduleIds,
             UnmarkOfficial(u, s)
      PROVE  TypeOK'
  <2>1. [rows[s] EXCEPT !.officialBy = NoUser] \in Rows
    BY <1>8, LiveRow, ColumnTypes DEF UnmarkOfficial
  <2>2. rows' = [rows EXCEPT ![s] = [rows[s] EXCEPT !.officialBy = NoUser]]
    BY <1>8 DEF UnmarkOfficial
  <2> QED
    BY <1>8, <2>1, <2>2, UpdateRow DEF UnmarkOfficial, TypeOK
<1>9. ASSUME NEW u \in Users, actor' = u, NEW s \in ScheduleIds, Duplicate(u, s)
      PROVE  TypeOK'
  <2>1. rows[s] \in Rows /\ rows[s].content \in Contents
    BY <1>9, LiveRow DEF Duplicate, Rows
  <2>2. plans[rows[s].plan] \in Shapes \cup {NoShape}
    BY <2>1 DEF TypeOK, Rows
  <2>3. /\ plans' \in [PlanIds -> Shapes \cup {NoShape}]
        /\ nextPlan \in PlanIds
        /\ nextPlan' \in 1 .. MaxPlans + 1
    BY <1>9, <2>2, AddPlanType DEF Duplicate
  <2>4. NewRow(nextPlan, rows[s].content, u, FALSE, s) \in Rows
    BY <2>1, <2>3, NewRowType
  <2> QED
    BY <1>9, <2>3, <2>4, InsertType DEF Duplicate, TypeOK
<1>10. ASSUME NEW u \in Users, actor' = u, NEW s \in ScheduleIds, Delete(u, s)
       PROVE  TypeOK'
  BY <1>10, RemoveType DEF Delete, TypeOK
<1>11. ASSUME NEW u \in Users, actor' = u, NEW shape \in Shapes,
              GenerateAbstract(u, shape)
       PROVE  TypeOK'
  BY <1>11, AddPlanType DEF GenerateAbstract, TypeOK
<1>12. ASSUME NEW u \in Users, actor' = u, NEW p \in PlanIds, NEW day \in Days,
              Assign(u, p, day)
       PROVE  TypeOK'
  <2>1. [day |-> day, slots |-> plans[p]] \in Contents
    BY <1>12 DEF Assign, LivePlans, Contents, TypeOK
  <2>2. NewRow(p, [day |-> day, slots |-> plans[p]], u, TRUE, NoSchedule) \in Rows
    BY <2>1, NewRowType
  <2> QED
    BY <1>12, <2>2, AllInactiveType, InsertType DEF Assign, TypeOK
<1>13. ASSUME NEW u \in Users, actor' = u, NEW shape \in Shapes, NEW day \in Days,
              ImportNew(u, shape, day)
       PROVE  TypeOK'
  <2>1. /\ plans' \in [PlanIds -> Shapes \cup {NoShape}]
        /\ nextPlan \in PlanIds
        /\ nextPlan' \in 1 .. MaxPlans + 1
    BY <1>13, AddPlanType DEF ImportNew
  <2>2. [day |-> day, slots |-> shape] \in Contents
    BY DEF Contents
  <2>3. NewRow(nextPlan, [day |-> day, slots |-> shape], u, TRUE, NoSchedule) \in Rows
    BY <2>1, <2>2, NewRowType
  <2> QED
    BY <1>13, <2>1, <2>3, AllInactiveType, InsertType DEF ImportNew, TypeOK
<1>14. ASSUME NEW u \in Users, actor' = u, Freeze(u)
       PROVE  TypeOK'
  BY <1>14, ConstantsAssumption DEF Freeze, TypeOK, EventRows, tables
<1>15. ASSUME NEW u \in Users, actor' = u, Unfreeze(u)
       PROVE  TypeOK'
  BY <1>15 DEF Unfreeze, Unfrozen, TypeOK, EventRows, tables
<1>16. ASSUME NEW p \in PlanIds, actor' = NoUser, DeleteAbstract(p)
       PROVE  TypeOK'
  <2>1. plans' \in [PlanIds -> Shapes \cup {NoShape}]
    BY <1>16 DEF DeleteAbstract, TypeOK
  <2>2. {s \in live : rows[s].plan = p} \subseteq ScheduleIds
    BY DEF TypeOK
  <2> QED
    BY <1>16, <2>1, <2>2, RemoveType DEF DeleteAbstract, TypeOK
<1>17. CASE UNCHANGED vars
  BY <1>17 DEF TypeOK, vars
<1> QED
  BY <1>1, <1>2, <1>3, <1>4, <1>5, <1>6, <1>7, <1>8, <1>9, <1>10, <1>11, <1>12,
     <1>13, <1>14, <1>15, <1>16, <1>17
  DEF Next, ScheduleStep, EventStep

\* The tables and counters keep their types, for every number of users,
\* schedules, abstract schedules and freezes.
THEOREM TypeCorrect == Spec => []TypeOK
BY TypeInit, TypeStep, PTL DEF Spec

-----------------------------------------------------------------------------
\* The strengthening: ids are issued once, and a schedule that has no row has
\* no history and no lock events either.
IdsIssuedOnce == \A s \in live : s < nextId

NoOrphans == \A s \in ScheduleIds \ live : hist[s] = {} /\ locklog[s] = <<>>

Stored == TypeOK /\ IdsIssuedOnce /\ NoOrphans

LEMMA StoredInit == Init => Stored
BY TypeInit DEF Init, Stored, IdsIssuedOnce, NoOrphans

\* Inserting a schedule takes an id that no row has.
LEMMA InsertStored ==
  ASSUME Stored, NEW base, NEW row, Insert(base, row)
  PROVE  nextId \notin live /\ IdsIssuedOnce' /\ NoOrphans'
BY DEF Stored, TypeOK, Insert, IdsIssuedOnce, NoOrphans, ScheduleIds

LEMMA RemoveStored ==
  ASSUME Stored, NEW D, D \subseteq ScheduleIds, Remove(D), nextId' = nextId
  PROVE  IdsIssuedOnce' /\ NoOrphans'
BY DEF Stored, TypeOK, Remove, IdsIssuedOnce, NoOrphans

LEMMA StoredStep == Stored /\ [Next]_vars => Stored'
<1> SUFFICES ASSUME Stored, [Next]_vars PROVE Stored'
  OBVIOUS
<1> USE DEF Stored
<1>0. TypeOK'
  BY TypeStep
<1>1. ASSUME NEW u \in Users, NEW s \in ScheduleIds, NEW day \in Days,
             Patch(u, s, day)
      PROVE  IdsIssuedOnce' /\ NoOrphans'
  BY <1>1 DEF TypeOK, Patch, Overwrite, IdsIssuedOnce, NoOrphans
<1>2. ASSUME NEW u \in Users, NEW s \in ScheduleIds, NEW day \in Days,
             NEW shape \in Shapes, ImportReplace(u, s, shape, day)
      PROVE  IdsIssuedOnce' /\ NoOrphans'
  BY <1>2 DEF TypeOK, ImportReplace, Overwrite, IdsIssuedOnce, NoOrphans
<1>3. ASSUME NEW u \in Users, NEW s \in ScheduleIds, NEW h \in hist[s],
             Restore(u, s, h)
      PROVE  IdsIssuedOnce' /\ NoOrphans'
  BY <1>3 DEF TypeOK, Restore, Overwrite, IdsIssuedOnce, NoOrphans
<1>4. ASSUME NEW u \in Users, NEW s \in ScheduleIds, Lock(u, s)
      PROVE  IdsIssuedOnce' /\ NoOrphans'
  BY <1>4 DEF TypeOK, Lock, RecordLockEvent, IdsIssuedOnce, NoOrphans
<1>5. ASSUME NEW u \in Users, NEW s \in ScheduleIds, Unlock(u, s)
      PROVE  IdsIssuedOnce' /\ NoOrphans'
  BY <1>5 DEF TypeOK, Unlock, RecordLockEvent, IdsIssuedOnce, NoOrphans
<1>6. ASSUME NEW u \in Users, NEW s \in ScheduleIds, Activate(u, s)
      PROVE  IdsIssuedOnce' /\ NoOrphans'
  BY <1>6 DEF TypeOK, Activate, IdsIssuedOnce, NoOrphans
<1>7. ASSUME NEW u \in Users, NEW s \in ScheduleIds, MarkOfficial(u, s)
      PROVE  IdsIssuedOnce' /\ NoOrphans'
  BY <1>7 DEF TypeOK, MarkOfficial, RecordLockEvent, IdsIssuedOnce, NoOrphans
<1>8. ASSUME NEW u \in Users, NEW s \in ScheduleIds, UnmarkOfficial(u, s)
      PROVE  IdsIssuedOnce' /\ NoOrphans'
  BY <1>8 DEF TypeOK, UnmarkOfficial, IdsIssuedOnce, NoOrphans
<1>9. ASSUME NEW u \in Users, NEW s \in ScheduleIds, Duplicate(u, s)
      PROVE  IdsIssuedOnce' /\ NoOrphans'
  BY <1>9, InsertStored DEF Duplicate
<1>10. ASSUME NEW u \in Users, NEW s \in ScheduleIds, Delete(u, s)
       PROVE  IdsIssuedOnce' /\ NoOrphans'
  BY <1>10, RemoveStored DEF Delete
<1>11. ASSUME NEW u \in Users, NEW shape \in Shapes, GenerateAbstract(u, shape)
       PROVE  IdsIssuedOnce' /\ NoOrphans'
  BY <1>11 DEF GenerateAbstract, IdsIssuedOnce, NoOrphans
<1>12. ASSUME NEW u \in Users, NEW p \in PlanIds, NEW day \in Days,
              Assign(u, p, day)
       PROVE  IdsIssuedOnce' /\ NoOrphans'
  BY <1>12, InsertStored DEF Assign
<1>13. ASSUME NEW u \in Users, NEW shape \in Shapes, NEW day \in Days,
              ImportNew(u, shape, day)
       PROVE  IdsIssuedOnce' /\ NoOrphans'
  BY <1>13, InsertStored DEF ImportNew
<1>14. ASSUME NEW u \in Users, Freeze(u) \/ Unfreeze(u)
       PROVE  IdsIssuedOnce' /\ NoOrphans'
  BY <1>14 DEF Freeze, Unfreeze, tables, IdsIssuedOnce, NoOrphans
<1>15. ASSUME NEW p \in PlanIds, DeleteAbstract(p)
       PROVE  IdsIssuedOnce' /\ NoOrphans'
  <2>1. {s \in live : rows[s].plan = p} \subseteq ScheduleIds
    BY DEF TypeOK
  <2> QED
    BY <1>15, <2>1, RemoveStored DEF DeleteAbstract
<1>16. CASE UNCHANGED vars
  BY <1>0, <1>16 DEF IdsIssuedOnce, NoOrphans, vars
<1>17. ASSUME NEW u \in Users, ScheduleStep(u)
       PROVE  IdsIssuedOnce' /\ NoOrphans'
  BY <1>1, <1>2, <1>3, <1>4, <1>5, <1>6, <1>7, <1>8, <1>9, <1>10, <1>17
  DEF ScheduleStep
<1>18. ASSUME NEW u \in Users, EventStep(u)
       PROVE  IdsIssuedOnce' /\ NoOrphans'
  BY <1>11, <1>12, <1>13, <1>14, <1>18 DEF EventStep
<1> QED
  BY <1>0, <1>15, <1>16, <1>17, <1>18 DEF Next

-----------------------------------------------------------------------------
\* The official record.

Sealed == AtMostOneOfficial /\ OfficialIsLocked /\ EverOfficialKeepsContent

LEMMA SealedInit == Init => Sealed
BY DEF Init, Sealed, AtMostOneOfficial, OfficialIsLocked, EverOfficialKeepsContent

\* A new schedule was never official, and the others stay as they were.
LEMMA InsertSealed ==
  ASSUME Stored, Sealed, NEW base \in {rows, AllInactive},
         NEW p, NEW c, NEW u, NEW on, NEW parent,
         Insert(base, NewRow(p, c, u, on, parent))
  PROVE  Sealed'
<1>1. nextId \notin live /\ nextId \in ScheduleIds
  BY InsertStored DEF Insert
<1>2. /\ live' = live \cup {nextId}
      /\ rows'[nextId].officialBy = NoUser
      /\ \A h \in hist'[nextId] : h.action # "mark-official"
  BY <1>1, AllInactiveType
  DEF Insert, Stored, TypeOK, NewRow, Snapshot
<1>3. ASSUME NEW s \in live
      PROVE  /\ rows'[s].officialBy = rows[s].officialBy
             /\ rows'[s].lockedBy = rows[s].lockedBy
             /\ rows'[s].content = rows[s].content
             /\ hist'[s] = hist[s]
  <2>1. s \in ScheduleIds /\ rows[s] \in Rows /\ s # nextId
    BY <1>1, LiveRow DEF Stored
  <2>2. rows'[s] = base[s] /\ hist'[s] = hist[s]
    BY <2>1, AllInactiveType DEF Insert, Stored, TypeOK
  <2>3. base[s] \in {rows[s], [rows[s] EXCEPT !.active = FALSE]}
    BY <2>1 DEF AllInactive
  <2> QED
    BY <2>1, <2>2, <2>3 DEF Rows
<1>4. AtMostOneOfficial'
  BY <1>2, <1>3 DEF Sealed, AtMostOneOfficial, IsOfficial
<1>5. OfficialIsLocked'
  BY <1>2, <1>3 DEF Sealed, OfficialIsLocked, IsOfficial, IsLocked
<1>6. EverOfficialKeepsContent'
  BY <1>2, <1>3 DEF Sealed, EverOfficialKeepsContent
<1> QED
  BY <1>4, <1>5, <1>6 DEF Sealed

\* Overwriting a schedule that was never official, its marks aside.
LEMMA OverwriteSealed ==
  ASSUME Stored, Sealed, NEW s \in live, NEW action \in {"patch", "restore"},
         NEW row, Overwrite(s, action, row),
         ~WasEverOfficial(rows[s], hist[s]), row.officialBy = rows[s].officialBy
  PROVE  Sealed'
<1>1. /\ rows'[s].officialBy = NoUser
      /\ \A h \in hist'[s] : h.action # "mark-official"
  BY DEF Stored, TypeOK, Overwrite, WasEverOfficial, IsOfficial, Snapshot
<1>2. \A t \in live \ {s} : rows'[t] = rows[t] /\ hist'[t] = hist[t]
  BY DEF Stored, TypeOK, Overwrite
<1>3. live' = live
  BY DEF Overwrite
<1> QED
  BY <1>1, <1>2, <1>3
  DEF Sealed, AtMostOneOfficial, OfficialIsLocked, EverOfficialKeepsContent,
      IsOfficial, IsLocked

LEMMA RemoveSealed ==
  ASSUME Stored, Sealed, NEW D, D \subseteq ScheduleIds, Remove(D)
  PROVE  Sealed'
<1>1. ASSUME NEW s \in live'
      PROVE  /\ s \in live
             /\ rows'[s].officialBy = rows[s].officialBy
             /\ rows'[s].lockedBy = rows[s].lockedBy
             /\ rows'[s].content = rows[s].content
             /\ hist'[s] = hist[s]
  <2>1. s \in live /\ s \in ScheduleIds /\ s \notin D /\ rows[s] \in Rows
    BY LiveRow DEF Remove, Stored
  <2>2. /\ hist'[s] = hist[s]
        /\ rows'[s] = [rows[s] EXCEPT !.forkedFrom =
                          IF @ \in D THEN NoSchedule ELSE @]
    BY <2>1 DEF Remove
  <2> QED
    BY <2>1, <2>2 DEF Rows
<1> QED
  BY <1>1
  DEF Sealed, AtMostOneOfficial, OfficialIsLocked, EverOfficialKeepsContent,
      IsOfficial, IsLocked

LEMMA SealedStep == Stored /\ Sealed /\ [Next]_vars => Sealed'
<1> SUFFICES ASSUME Stored, Sealed, [Next]_vars PROVE Sealed'
  OBVIOUS
<1> USE DEF Sealed, AtMostOneOfficial, OfficialIsLocked, EverOfficialKeepsContent,
            IsOfficial, IsLocked
<1>1. ASSUME NEW u \in Users, NEW s \in ScheduleIds, NEW day \in Days,
             Patch(u, s, day)
      PROVE  Sealed'
  <2>1. s \in live /\ rows[s] \in Rows
    BY <1>1, LiveRow DEF Patch, Stored
  <2> QED
    BY <1>1, <2>1, OverwriteSealed DEF Patch, MayEdit, Rows
<1>2. ASSUME NEW u \in Users, NEW s \in ScheduleIds, NEW day \in Days,
             NEW shape \in Shapes, ImportReplace(u, s, shape, day)
      PROVE  Sealed'
  <2>1. s \in live /\ rows[s] \in Rows
    BY <1>2, LiveRow DEF ImportReplace, Stored
  <2> QED
    BY <1>2, <2>1, OverwriteSealed DEF ImportReplace, MayReplace, Rows
<1>3. ASSUME NEW u \in Users, NEW s \in ScheduleIds, NEW h \in hist[s],
             Restore(u, s, h)
      PROVE  Sealed'
  <2>1. s \in live /\ rows[s] \in Rows
    BY <1>3, LiveRow DEF Restore, Stored
  <2> QED
    BY <1>3, <2>1, OverwriteSealed DEF Restore, MayEdit, Rows
<1>4. ASSUME NEW u \in Users, NEW s \in ScheduleIds, Lock(u, s)
      PROVE  Sealed'
  BY <1>4, LiveRow, ConstantsAssumption DEF Lock, Stored, TypeOK, Rows
<1>5. ASSUME NEW u \in Users, NEW s \in ScheduleIds, Unlock(u, s)
      PROVE  Sealed'
  BY <1>5, LiveRow DEF Unlock, MayUnlock, Stored, TypeOK, Rows
<1>6. ASSUME NEW u \in Users, NEW s \in ScheduleIds, Activate(u, s)
      PROVE  Sealed'
  BY <1>6, LiveRow DEF Activate, AllInactive, Stored, TypeOK, Rows
<1>7. ASSUME NEW u \in Users, NEW s \in ScheduleIds, MarkOfficial(u, s)
      PROVE  Sealed'
  <2>1. s \in live /\ rows[s] \in Rows /\ u # NoUser /\ live' = live
    BY <1>7, LiveRow, ConstantsAssumption DEF MarkOfficial, Stored
  <2>2. \A t \in live : ~IsOfficial(rows[t])
    BY <1>7 DEF MarkOfficial, MayMark
  <2>3. \A t \in live \ {s} : rows'[t] = rows[t] /\ hist'[t] = hist[t]
    BY <1>7 DEF MarkOfficial, Stored, TypeOK
  <2>4. /\ rows'[s].content = rows[s].content
        /\ rows'[s].officialBy = u
        /\ rows'[s].lockedBy # NoUser
    BY <1>7, <2>1 DEF MarkOfficial, Stored, TypeOK, Rows
  <2>5. hist'[s] = hist[s] \cup {Snapshot("mark-official", rows[s])}
    BY <1>7 DEF MarkOfficial, Stored, TypeOK
  <2>6. Snapshot("mark-official", rows[s]) =
          [action |-> "mark-official", content |-> rows[s].content]
    BY DEF Snapshot
  <2> QED
    BY <2>1, <2>2, <2>3, <2>4, <2>5, <2>6
<1>8. ASSUME NEW u \in Users, NEW s \in ScheduleIds, UnmarkOfficial(u, s)
      PROVE  Sealed'
  BY <1>8, LiveRow DEF UnmarkOfficial, Stored, TypeOK, Rows
<1>9. ASSUME NEW u \in Users, NEW s \in ScheduleIds, Duplicate(u, s)
      PROVE  Sealed'
  BY <1>9, InsertSealed DEF Duplicate
<1>10. ASSUME NEW u \in Users, NEW s \in ScheduleIds, Delete(u, s)
       PROVE  Sealed'
  BY <1>10, RemoveSealed DEF Delete
<1>11. ASSUME NEW u \in Users, NEW shape \in Shapes, GenerateAbstract(u, shape)
       PROVE  Sealed'
  BY <1>11 DEF GenerateAbstract
<1>12. ASSUME NEW u \in Users, NEW p \in PlanIds, NEW day \in Days,
              Assign(u, p, day)
       PROVE  Sealed'
  BY <1>12, InsertSealed DEF Assign
<1>13. ASSUME NEW u \in Users, NEW shape \in Shapes, NEW day \in Days,
              ImportNew(u, shape, day)
       PROVE  Sealed'
  BY <1>13, InsertSealed DEF ImportNew
<1>14. ASSUME NEW u \in Users, Freeze(u) \/ Unfreeze(u)
       PROVE  Sealed'
  BY <1>14 DEF Freeze, Unfreeze, tables
<1>15. ASSUME NEW p \in PlanIds, DeleteAbstract(p)
       PROVE  Sealed'
  <2>1. {s \in live : rows[s].plan = p} \subseteq ScheduleIds
    BY DEF Stored, TypeOK
  <2> QED
    BY <1>15, <2>1, RemoveSealed DEF DeleteAbstract
<1>16. CASE UNCHANGED vars
  BY <1>16 DEF vars
<1>17. ASSUME NEW u \in Users, ScheduleStep(u)
       PROVE  Sealed'
  BY <1>1, <1>2, <1>3, <1>4, <1>5, <1>6, <1>7, <1>8, <1>9, <1>10, <1>17
  DEF ScheduleStep
<1>18. ASSUME NEW u \in Users, EventStep(u)
       PROVE  Sealed'
  BY <1>11, <1>12, <1>13, <1>14, <1>18 DEF EventStep
<1> QED
  BY <1>15, <1>16, <1>17, <1>18 DEF Next

LEMMA StoredAndSealed == Spec => [](Stored /\ Sealed)
BY StoredInit, StoredStep, SealedInit, SealedStep, PTL DEF Spec

\* At most one schedule of the event is official.
THEOREM OneOfficial == Spec => []AtMostOneOfficial
BY StoredAndSealed, PTL DEF Sealed

\* An official schedule is locked and carries its fingerprint.
THEOREM OfficialLocked == Spec => []OfficialIsLocked
BY StoredAndSealed, PTL DEF Sealed

\* What a schedule says is what it said each time it was marked official,
\* whatever requests came since.
THEOREM EverOfficialFrozen == Spec => []EverOfficialKeepsContent
BY StoredAndSealed, PTL DEF Sealed

-----------------------------------------------------------------------------
\* ScheduleLifecycle implements OfficialRecord.

\* The official schedule is determined by the rows.
LEMMA OfficialNowIs ==
  /\ AtMostOneOfficial => \A s \in live : IsOfficial(rows[s]) => OfficialNow = s
  /\ (\A s \in live : ~IsOfficial(rows[s])) => OfficialNow = NoSchedule
BY DEF AtMostOneOfficial, OfficialNow

LEMMA OfficialNextIs ==
  /\ AtMostOneOfficial' =>
       \A s \in live' : IsOfficial(rows'[s]) => OfficialNow' = s
  /\ (\A s \in live' : ~IsOfficial(rows'[s])) => OfficialNow' = NoSchedule
BY DEF AtMostOneOfficial, OfficialNow

\* A schedule carries the fingerprint of a mark.
Marked(s) == \E h \in hist[s] : h.action = "mark-official"

LEMMA RecordInit == Init => Record!Init
BY DEF Init, Record!Init, OfficialNow, SealedContent

\* A step that touches neither marks nor the content of marked schedules is not
\* seen by the record.
LEMMA RecordUnchanged ==
  ASSUME Stored, Sealed, Sealed', live \subseteq live',
         \A s \in live : IsOfficial(rows'[s]) <=> IsOfficial(rows[s]),
         \A s \in live' \ live : ~IsOfficial(rows'[s]),
         \A s \in ScheduleIds : Marked(s)' <=> Marked(s),
         \A s \in ScheduleIds : Marked(s) => rows'[s].content = rows[s].content
  PROVE  UNCHANGED <<OfficialNow, SealedContent>>
<1>1. SealedContent' = SealedContent
  BY DEF SealedContent, Marked
<1>2. OfficialNow' = OfficialNow
  <2>1. CASE \E s \in live : IsOfficial(rows[s])
    BY <2>1, OfficialNowIs, OfficialNextIs DEF Sealed
  <2>2. CASE \A s \in live : ~IsOfficial(rows[s])
    BY <2>2, OfficialNowIs, OfficialNextIs
  <2> QED
    BY <2>1, <2>2
<1> QED
  BY <1>1, <1>2

LEMMA InsertRecord ==
  ASSUME Stored, Sealed, Sealed', NEW base \in {rows, AllInactive},
         NEW p, NEW c, NEW u, NEW on, NEW parent,
         Insert(base, NewRow(p, c, u, on, parent))
  PROVE  UNCHANGED <<OfficialNow, SealedContent>>
<1>0. PICK n \in ScheduleIds : n = nextId
  BY DEF Insert
<1>1. n \notin live /\ live' = live \cup {n}
  BY <1>0, InsertStored DEF Insert
<1>2. rows'[n].officialBy = NoUser
  BY <1>0, AllInactiveType DEF Insert, Stored, TypeOK, NewRow
<1>3. ~Marked(n) /\ ~Marked(n)'
  BY <1>0, <1>1 DEF Insert, Stored, TypeOK, NoOrphans, Marked, Snapshot
<1>4. ASSUME NEW s \in ScheduleIds, s # n
      PROVE  /\ hist'[s] = hist[s]
             /\ s \in live => /\ rows'[s].officialBy = rows[s].officialBy
                              /\ rows'[s].content = rows[s].content
  <2>1. rows'[s] = base[s] /\ hist'[s] = hist[s]
    BY <1>0, <1>4, AllInactiveType DEF Insert, Stored, TypeOK
  <2>2. base[s] \in {rows[s], [rows[s] EXCEPT !.active = FALSE]}
    BY DEF AllInactive
  <2> QED
    BY <2>1, <2>2, LiveRow DEF Stored, Rows
<1>5. \A s \in ScheduleIds : Marked(s) => s \in live
  BY DEF Stored, NoOrphans, Marked
<1>6. live \subseteq ScheduleIds
  BY DEF Stored, TypeOK
<1> QED
  BY <1>1, <1>2, <1>3, <1>4, <1>5, <1>6, RecordUnchanged DEF IsOfficial, Marked

LEMMA OverwriteRecord ==
  ASSUME Stored, Sealed, Sealed', NEW s \in live,
         NEW action \in {"patch", "restore"}, NEW row, Overwrite(s, action, row),
         ~WasEverOfficial(rows[s], hist[s]), row.officialBy = rows[s].officialBy
  PROVE  UNCHANGED <<OfficialNow, SealedContent>>
<1>1. /\ rows'[s].officialBy = rows[s].officialBy
      /\ ~Marked(s) /\ ~Marked(s)'
  BY DEF Stored, TypeOK, Overwrite, WasEverOfficial, Marked, Snapshot
<1>2. \A t \in ScheduleIds \ {s} : rows'[t] = rows[t] /\ hist'[t] = hist[t]
  BY DEF Stored, TypeOK, Overwrite
<1>3. live' = live /\ live \subseteq ScheduleIds
  BY DEF Overwrite, Stored, TypeOK
<1> QED
  BY <1>1, <1>2, <1>3, RecordUnchanged DEF IsOfficial, Marked

LEMMA RemoveRecord ==
  ASSUME Stored, Sealed, Sealed', NEW D \in SUBSET ScheduleIds, Remove(D)
  PROVE  Record!Discard(D)
<1>1. ASSUME NEW s \in ScheduleIds \ D
      PROVE  /\ hist'[s] = hist[s]
             /\ s \in live' <=> s \in live
             /\ s \in live => /\ rows'[s].officialBy = rows[s].officialBy
                              /\ rows'[s].content = rows[s].content
  BY LiveRow DEF Remove, Stored, Rows
<1>2. \A s \in D : s \notin live' /\ hist'[s] = {}
  BY DEF Remove
<1>3. SealedContent' = [s \in ScheduleIds |->
                          IF s \in D THEN NoShape ELSE SealedContent[s]]
  <2>1. ASSUME NEW s \in ScheduleIds
        PROVE  SealedContent'[s] = IF s \in D THEN NoShape ELSE SealedContent[s]
    <3>1. CASE s \in D
      BY <3>1, <1>2 DEF SealedContent
    <3>2. CASE s \notin D /\ s \in live
      BY <3>2, <1>1 DEF SealedContent
    <3>3. CASE s \notin D /\ s \notin live
      BY <3>3, <1>1 DEF SealedContent, Stored, NoOrphans
    <3> QED
      BY <3>1, <3>2, <3>3
  <2> QED
    BY <2>1 DEF SealedContent
<1>4. OfficialNow' = IF OfficialNow \in D THEN NoSchedule ELSE OfficialNow
  <2>1. live \subseteq ScheduleIds /\ live' \subseteq live /\ NoSchedule \notin D
    BY ConstantsAssumption
    DEF Remove, Stored, TypeOK, ScheduleIds, NoSchedule
  <2>2. CASE \E s \in live : IsOfficial(rows[s]) /\ s \notin D
    BY <2>1, <2>2, <1>1, OfficialNowIs, OfficialNextIs DEF Sealed, IsOfficial
  <2>3. CASE \E s \in live : IsOfficial(rows[s]) /\ s \in D
    <3>1. PICK s \in live : IsOfficial(rows[s]) /\ s \in D
      BY <2>3
    <3>2. OfficialNow = s
      BY <3>1, OfficialNowIs DEF Sealed
    <3>3. \A t \in live' : ~IsOfficial(rows'[t])
      BY <2>1, <3>1, <1>1, <1>2 DEF Sealed, AtMostOneOfficial, IsOfficial
    <3> QED
      BY <3>1, <3>2, <3>3, OfficialNextIs
  <2>4. CASE \A s \in live : ~IsOfficial(rows[s])
    <3>1. \A t \in live' : ~IsOfficial(rows'[t])
      BY <2>1, <2>4, <1>1, <1>2 DEF IsOfficial
    <3> QED
      BY <2>1, <2>4, <3>1, OfficialNowIs, OfficialNextIs
  <2> QED
    BY <2>2, <2>3, <2>4
<1> QED
  BY <1>3, <1>4 DEF Record!Discard

\* Marking a schedule seals it with the content it has.
LEMMA MarkRecord ==
  ASSUME Stored, Sealed, Sealed', NEW u \in Users, NEW s \in ScheduleIds,
         MarkOfficial(u, s)
  PROVE  Record!Seal(s, rows[s].content)
<1>1. s \in live /\ rows[s] \in Rows /\ u # NoUser /\ live' = live
  BY LiveRow, ConstantsAssumption DEF MarkOfficial, Stored
<1>2. \A t \in live : ~IsOfficial(rows[t])
  BY DEF MarkOfficial, MayMark
<1>3. \A t \in ScheduleIds \ {s} : rows'[t] = rows[t] /\ hist'[t] = hist[t]
  BY DEF MarkOfficial, Stored, TypeOK
<1>4. rows'[s].content = rows[s].content /\ rows'[s].officialBy = u
  BY <1>1 DEF MarkOfficial, Stored, TypeOK, Rows
<1>5. \E h \in hist'[s] : h.action = "mark-official"
  <2>1. Snapshot("mark-official", rows[s]) \in hist'[s]
    BY DEF MarkOfficial, Stored, TypeOK
  <2>2. Snapshot("mark-official", rows[s]).action = "mark-official"
    BY DEF Snapshot
  <2> QED
    BY <2>1, <2>2
<1>6. OfficialNow = NoSchedule
  BY <1>2, OfficialNowIs
<1>7. OfficialNow' = s
  BY <1>1, <1>4, OfficialNextIs DEF Sealed, IsOfficial
<1>8. SealedContent[s] \in {NoShape, rows[s].content}
  BY DEF SealedContent
<1>9. SealedContent' = [SealedContent EXCEPT ![s] = rows[s].content]
  <2>1. SealedContent'[s] = rows[s].content
    BY <1>4, <1>5 DEF SealedContent
  <2>2. \A t \in ScheduleIds \ {s} : SealedContent'[t] = SealedContent[t]
    BY <1>3 DEF SealedContent
  <2> QED
    BY <2>1, <2>2 DEF SealedContent
<1> QED
  BY <1>6, <1>7, <1>8, <1>9 DEF Record!Seal

\* Unmarking frees the record and keeps every seal.
LEMMA UnmarkRecord ==
  ASSUME Stored, Sealed, Sealed', NEW u \in Users, NEW s \in ScheduleIds,
         UnmarkOfficial(u, s)
  PROVE  Record!Unmark
<1>1. s \in live /\ rows[s] \in Rows /\ IsOfficial(rows[s])
  BY LiveRow DEF UnmarkOfficial, MayUnmark, Stored
<1>2. \A t \in ScheduleIds \ {s} : rows'[t] = rows[t]
  BY DEF UnmarkOfficial, Stored, TypeOK
<1>3. rows'[s].content = rows[s].content /\ rows'[s].officialBy = NoUser
  BY <1>1 DEF UnmarkOfficial, Stored, TypeOK, Rows
<1>4. OfficialNow = s /\ s # NoSchedule
  BY <1>1, OfficialNowIs, ConstantsAssumption DEF Sealed, ScheduleIds, NoSchedule
<1>5. \A t \in live' : ~IsOfficial(rows'[t])
  BY <1>1, <1>2, <1>3
  DEF UnmarkOfficial, Sealed, AtMostOneOfficial, IsOfficial, Stored, TypeOK
<1>6. SealedContent' = SealedContent
  BY <1>2, <1>3 DEF SealedContent, UnmarkOfficial
<1> QED
  BY <1>4, <1>5, <1>6, OfficialNextIs DEF Record!Unmark

LEMMA RecordStep ==
  Stored /\ Sealed /\ Sealed' /\ [Next]_vars
    => [Record!Next]_<<OfficialNow, SealedContent>>
<1> DEFINE Kept == UNCHANGED <<OfficialNow, SealedContent>>
<1> SUFFICES ASSUME Stored, Sealed, Sealed', [Next]_vars
             PROVE  Record!Next \/ Kept
  OBVIOUS
<1>0. \A s \in live : s \in ScheduleIds /\ rows[s] \in Rows
  BY LiveRow DEF Stored
<1>1. ASSUME NEW u \in Users, NEW s \in ScheduleIds, NEW day \in Days,
             Patch(u, s, day)
      PROVE  Kept
  BY <1>0, <1>1, OverwriteRecord DEF Patch, MayEdit, Rows
<1>2. ASSUME NEW u \in Users, NEW s \in ScheduleIds, NEW day \in Days,
             NEW shape \in Shapes, ImportReplace(u, s, shape, day)
      PROVE  Kept
  BY <1>0, <1>2, OverwriteRecord DEF ImportReplace, MayReplace, Rows
<1>3. ASSUME NEW u \in Users, NEW s \in ScheduleIds, NEW h \in hist[s],
             Restore(u, s, h)
      PROVE  Kept
  BY <1>0, <1>3, OverwriteRecord DEF Restore, MayEdit, Rows
<1>4. ASSUME NEW u \in Users, NEW s \in ScheduleIds, Lock(u, s) \/ Unlock(u, s)
      PROVE  Kept
  <2>1. /\ live' = live
        /\ hist' = hist
        /\ \A t \in live : /\ rows'[t].officialBy = rows[t].officialBy
                           /\ rows'[t].content = rows[t].content
    <3>1. CASE Lock(u, s)
      BY <1>0, <3>1 DEF Lock, Stored, TypeOK, Rows
    <3>2. CASE Unlock(u, s)
      BY <1>0, <3>2 DEF Unlock, Stored, TypeOK, Rows
    <3> QED
      BY <1>4, <3>1, <3>2
  <2>2. \A t \in ScheduleIds : Marked(t) => t \in live
    BY DEF Stored, NoOrphans, Marked
  <2> QED
    BY <2>1, <2>2, RecordUnchanged DEF IsOfficial, Marked
<1>5. ASSUME NEW u \in Users, NEW s \in ScheduleIds, Activate(u, s)
      PROVE  Kept
  <2>1. /\ live' = live
        /\ hist' = hist
        /\ \A t \in live : /\ rows'[t].officialBy = rows[t].officialBy
                           /\ rows'[t].content = rows[t].content
    BY <1>0, <1>5 DEF Activate, AllInactive, Rows
  <2>2. \A t \in ScheduleIds : Marked(t) => t \in live
    BY DEF Stored, NoOrphans, Marked
  <2> QED
    BY <2>1, <2>2, RecordUnchanged DEF IsOfficial, Marked
<1>6. ASSUME NEW u \in Users, NEW s \in ScheduleIds, MarkOfficial(u, s)
      PROVE  Record!Next
  <2>1. s \in live
    BY <1>6 DEF MarkOfficial
  <2>2. rows[s].content \in Contents
    BY <1>0, <2>1 DEF Rows
  <2> QED
    BY <1>6, <2>2, MarkRecord DEF Record!Next
<1>7. ASSUME NEW u \in Users, NEW s \in ScheduleIds, UnmarkOfficial(u, s)
      PROVE  Record!Next
  BY <1>7, UnmarkRecord DEF Record!Next
<1>8. ASSUME NEW u \in Users, NEW s \in ScheduleIds, Duplicate(u, s)
      PROVE  Kept
  BY <1>8, InsertRecord DEF Duplicate
<1>9. ASSUME NEW u \in Users, NEW s \in ScheduleIds, Delete(u, s)
      PROVE  Record!Next
  BY <1>9, RemoveRecord DEF Delete, Record!Next
<1>10. ASSUME NEW u \in Users, NEW shape \in Shapes, GenerateAbstract(u, shape)
       PROVE  Kept
  BY <1>10 DEF GenerateAbstract, OfficialNow, SealedContent
<1>11. ASSUME NEW u \in Users, NEW p \in PlanIds, NEW day \in Days,
              Assign(u, p, day)
       PROVE  Kept
  BY <1>11, InsertRecord DEF Assign
<1>12. ASSUME NEW u \in Users, NEW shape \in Shapes, NEW day \in Days,
              ImportNew(u, shape, day)
       PROVE  Kept
  BY <1>12, InsertRecord DEF ImportNew
<1>13. ASSUME NEW u \in Users, Freeze(u) \/ Unfreeze(u)
       PROVE  Kept
  BY <1>13 DEF Freeze, Unfreeze, tables, OfficialNow, SealedContent
<1>14. ASSUME NEW p \in PlanIds, DeleteAbstract(p)
       PROVE  Record!Next
  <2>1. {s \in live : rows[s].plan = p} \in SUBSET ScheduleIds
    BY <1>0
  <2> QED
    BY <1>14, <2>1, RemoveRecord DEF DeleteAbstract, Record!Next
<1>15. CASE UNCHANGED vars
  BY <1>15 DEF vars, OfficialNow, SealedContent
<1> HIDE DEF Kept
<1>16. ASSUME NEW u \in Users, ScheduleStep(u)
       PROVE  Record!Next \/ Kept
  BY <1>1, <1>2, <1>3, <1>4, <1>5, <1>6, <1>7, <1>8, <1>9, <1>16 DEF ScheduleStep
<1>17. ASSUME NEW u \in Users, EventStep(u)
       PROVE  Record!Next \/ Kept
  BY <1>10, <1>11, <1>12, <1>13, <1>17 DEF EventStep
<1> QED
  BY <1>14, <1>15, <1>16, <1>17 DEF Next

\* The lifecycle keeps the promise of OfficialRecord: a schedule is sealed only
\* while no schedule is official, with the content it has, and a seal changes
\* only when its schedule is deleted.
THEOREM ImplementsOfficialRecord == Spec => KeepsOfficialRecord
BY RecordInit, RecordStep, StoredAndSealed, PTL
DEF Spec, KeepsOfficialRecord, Record!Spec

-----------------------------------------------------------------------------
\* Abstract schedule ids are issued once too.
PlansIssuedOnce ==
  /\ \A p \in LivePlans : p < nextPlan
  /\ \A s \in live : rows[s].plan < nextPlan

LEMMA PlansInit == Init => PlansIssuedOnce
BY DEF Init, PlansIssuedOnce, LivePlans

\* What a handler leaves of the plan of the other schedules.
LEMMA PlansStep == Stored /\ PlansIssuedOnce /\ [Next]_vars => PlansIssuedOnce'
<1> SUFFICES ASSUME Stored, PlansIssuedOnce, [Next]_vars
             PROVE  PlansIssuedOnce'
  OBVIOUS
<1> USE DEF PlansIssuedOnce, LivePlans
<1>0. /\ \A s \in live : s \in ScheduleIds /\ rows[s] \in Rows
      /\ plans \in [PlanIds -> Shapes \cup {NoShape}]
      /\ nextPlan \in Nat
  BY LiveRow, ConstantsAssumption DEF Stored, TypeOK
<1>1. ASSUME NEW shape, AddPlan(shape)
      PROVE  /\ nextPlan' = nextPlan + 1 /\ nextPlan \in PlanIds
             /\ \A p \in LivePlans' : p < nextPlan'
  BY <1>0, <1>1 DEF AddPlan, PlanIds
<1>2. ASSUME NEW base \in {rows, AllInactive}, NEW p, NEW c, NEW u, NEW on,
             NEW parent, Insert(base, NewRow(p, c, u, on, parent)), p < nextPlan',
             nextPlan' \in {nextPlan, nextPlan + 1}
      PROVE  \A t \in live' : rows'[t].plan < nextPlan'
  <2>1. nextId \notin live /\ nextId \in ScheduleIds
    BY <1>2, InsertStored DEF Insert
  <2>2. rows'[nextId].plan = p
    BY <1>2, <2>1, AllInactiveType DEF Insert, NewRow, Stored, TypeOK
  <2>3. ASSUME NEW t \in live
        PROVE  rows'[t].plan = rows[t].plan
    <3>1. rows'[t] = base[t]
      BY <1>0, <1>2, <2>1, AllInactiveType DEF Insert, Stored, TypeOK
    <3>2. base[t] \in {rows[t], [rows[t] EXCEPT !.active = FALSE]}
      BY <1>0 DEF AllInactive
    <3> QED
      BY <1>0, <3>1, <3>2 DEF Rows
  <2>4. \A t \in live : rows[t].plan \in Nat
    BY <1>0 DEF Rows, PlanIds
  <2> QED
    BY <1>0, <1>2, <2>2, <2>3, <2>4 DEF Insert
<1>3. ASSUME NEW D, D \subseteq ScheduleIds, Remove(D)
      PROVE  \A t \in live' : t \in live /\ rows'[t].plan = rows[t].plan
  BY <1>0, <1>3 DEF Remove, Rows
<1>4. ASSUME NEW u \in Users, NEW s \in ScheduleIds, NEW day \in Days,
             Patch(u, s, day)
      PROVE  PlansIssuedOnce'
  <2>1. \A t \in live : rows'[t].plan = rows[t].plan
    BY <1>0, <1>4 DEF Patch, Overwrite, Stored, TypeOK, Rows
  <2> QED
    BY <1>4, <2>1 DEF Patch, Overwrite
<1>5. ASSUME NEW u \in Users, NEW s \in ScheduleIds, NEW day \in Days,
             NEW shape \in Shapes, ImportReplace(u, s, shape, day)
      PROVE  PlansIssuedOnce'
  <2>1. AddPlan(shape)
    BY <1>5 DEF ImportReplace
  <2>2. \A t \in live : rows'[t].plan \in {rows[t].plan, nextPlan}
    BY <1>0, <1>5 DEF ImportReplace, Overwrite, Stored, TypeOK, Rows
  <2>3. \A t \in live : rows[t].plan \in Nat
    BY <1>0 DEF Rows, PlanIds
  <2> QED
    BY <1>0, <1>1, <1>5, <2>1, <2>2, <2>3 DEF ImportReplace, Overwrite
<1>6. ASSUME NEW u \in Users, NEW s \in ScheduleIds, NEW h \in hist[s],
             Restore(u, s, h)
      PROVE  PlansIssuedOnce'
  <2>1. \A t \in live : rows'[t].plan = rows[t].plan
    BY <1>0, <1>6 DEF Restore, Overwrite, Stored, TypeOK, Rows
  <2> QED
    BY <1>6, <2>1 DEF Restore, Overwrite
<1>7. ASSUME NEW u \in Users, NEW s \in ScheduleIds, Lock(u, s)
      PROVE  PlansIssuedOnce'
  BY <1>0, <1>7 DEF Lock, Stored, TypeOK, Rows
<1>8. ASSUME NEW u \in Users, NEW s \in ScheduleIds, Unlock(u, s)
      PROVE  PlansIssuedOnce'
  BY <1>0, <1>8 DEF Unlock, Stored, TypeOK, Rows
<1>9. ASSUME NEW u \in Users, NEW s \in ScheduleIds, Activate(u, s)
      PROVE  PlansIssuedOnce'
  <2>1. \A t \in live : rows'[t].plan = rows[t].plan
    BY <1>0, <1>9 DEF Activate, AllInactive, Rows
  <2> QED
    BY <1>9, <2>1 DEF Activate
<1>10. ASSUME NEW u \in Users, NEW s \in ScheduleIds, MarkOfficial(u, s)
       PROVE  PlansIssuedOnce'
  <2>1. \A t \in live : rows'[t].plan = rows[t].plan
    <3>1. \A t \in live \ {s} : rows'[t] = rows[t]
      BY <1>0, <1>10 DEF MarkOfficial, Stored, TypeOK
    <3>2. \/ rows'[s] = [rows[s] EXCEPT !.officialBy = u, !.lockedBy = u]
          \/ rows'[s] = [rows[s] EXCEPT !.officialBy = u]
      BY <1>0, <1>10 DEF MarkOfficial, Stored, TypeOK
    <3> QED
      BY <1>0, <1>10, <3>1, <3>2 DEF MarkOfficial, Rows
  <2> QED
    BY <1>10, <2>1 DEF MarkOfficial
<1>11. ASSUME NEW u \in Users, NEW s \in ScheduleIds, UnmarkOfficial(u, s)
       PROVE  PlansIssuedOnce'
  BY <1>0, <1>11 DEF UnmarkOfficial, Stored, TypeOK, Rows
<1>12. ASSUME NEW u \in Users, NEW s \in ScheduleIds, Duplicate(u, s)
       PROVE  PlansIssuedOnce'
  <2>1. AddPlan(plans[rows[s].plan])
    BY <1>12 DEF Duplicate
  <2>2. nextPlan' = nextPlan + 1 /\ \A p \in LivePlans' : p < nextPlan'
    BY <1>1, <2>1
  <2>3. Insert(rows, NewRow(nextPlan, rows[s].content, u, FALSE, s))
    BY <1>12 DEF Duplicate
  <2>4. nextPlan < nextPlan' /\ nextPlan' \in {nextPlan, nextPlan + 1}
    BY <1>0, <2>2
  <2>5. \A t \in live' : rows'[t].plan < nextPlan'
    BY <1>2, <2>3, <2>4
  <2> QED
    BY <2>2, <2>5
<1>13. ASSUME NEW u \in Users, NEW s \in ScheduleIds, Delete(u, s)
       PROVE  PlansIssuedOnce'
  BY <1>3, <1>13 DEF Delete
<1>14. ASSUME NEW u \in Users, NEW shape \in Shapes, GenerateAbstract(u, shape)
       PROVE  PlansIssuedOnce'
  <2>1. \A t \in live : rows[t].plan \in Nat
    BY <1>0 DEF Rows, PlanIds
  <2> QED
    BY <1>0, <1>1, <1>14, <2>1 DEF GenerateAbstract
<1>15. ASSUME NEW u \in Users, NEW p \in PlanIds, NEW day \in Days,
              Assign(u, p, day)
       PROVE  PlansIssuedOnce'
  BY <1>2, <1>15 DEF Assign
<1>16. ASSUME NEW u \in Users, NEW shape \in Shapes, NEW day \in Days,
              ImportNew(u, shape, day)
       PROVE  PlansIssuedOnce'
  <2>1. AddPlan(shape)
    BY <1>16 DEF ImportNew
  <2>2. nextPlan' = nextPlan + 1 /\ \A p \in LivePlans' : p < nextPlan'
    BY <1>1, <2>1
  <2>3. Insert(AllInactive, NewRow(nextPlan, [day |-> day, slots |-> shape], u,
                                  TRUE, NoSchedule))
    BY <1>16 DEF ImportNew
  <2>4. nextPlan < nextPlan' /\ nextPlan' \in {nextPlan, nextPlan + 1}
    BY <1>0, <2>2
  <2>5. \A t \in live' : rows'[t].plan < nextPlan'
    BY <1>2, <2>3, <2>4
  <2> QED
    BY <2>2, <2>5
<1>17. ASSUME NEW u \in Users, Freeze(u) \/ Unfreeze(u)
       PROVE  PlansIssuedOnce'
  BY <1>17 DEF Freeze, Unfreeze, tables
<1>18. ASSUME NEW p \in PlanIds, DeleteAbstract(p)
       PROVE  PlansIssuedOnce'
  <2>1. \A q \in LivePlans' : q \in LivePlans
    BY <1>0, <1>18 DEF DeleteAbstract
  <2>2. {s \in live : rows[s].plan = p} \subseteq ScheduleIds
    BY <1>0
  <2> QED
    BY <1>3, <1>18, <2>1, <2>2 DEF DeleteAbstract
<1>19. CASE UNCHANGED vars
  BY <1>19 DEF vars
<1>20. ASSUME NEW u \in Users, ScheduleStep(u)
       PROVE  PlansIssuedOnce'
  BY <1>4, <1>5, <1>6, <1>7, <1>8, <1>9, <1>10, <1>11, <1>12, <1>13, <1>20
  DEF ScheduleStep
<1>21. ASSUME NEW u \in Users, EventStep(u)
       PROVE  PlansIssuedOnce'
  BY <1>14, <1>15, <1>16, <1>17, <1>21 DEF EventStep
<1> QED
  BY <1>18, <1>19, <1>20, <1>21 DEF Next

-----------------------------------------------------------------------------
\* Who may touch a schedule.  Every step leaves a schedule's content, lock and
\* mark alone, or is one of the guarded ways to change one of them.

SameContent(t) == t \in live' /\ rows'[t].content = rows[t].content
SameLock(t)    == t \in live' /\ rows'[t].lockedBy = rows[t].lockedBy
SameMark(t)    == t \in live' /\ rows'[t].officialBy = rows[t].officialBy

ContentSaved(t) == \E h \in hist'[t] : h.content = rows[t].content

Spared(t)   == SameContent(t) /\ SameLock(t) /\ SameMark(t)
Edited(t)   == /\ MayEdit(event, rows[t], hist[t], actor')
               /\ SameLock(t) /\ SameMark(t) /\ ContentSaved(t)
Replaced(t) == /\ MayReplace(rows[t], hist[t], actor')
               /\ MovedToNewPlan(t)
               /\ SameLock(t) /\ SameMark(t) /\ ContentSaved(t)
Relocked(t) == /\ MayLock(event, rows[t], actor') \/ MayUnlock(event, rows[t], actor')
               /\ SameContent(t) /\ SameMark(t)
Promoted(t) == /\ ~IsEventFrozenFor(event, actor')
               /\ SameContent(t)
               /\ IsLocked(rows[t]) => SameLock(t)
Deleted(t)  == MayDelete(event, rows[t], actor') /\ t \notin live'
Dropped(t)  == PlanDropped(t) /\ t \notin live'

\* The rows a handler does not name.
LEMMA InsertSpares ==
  ASSUME Stored, NEW base \in {rows, AllInactive}, NEW row, Insert(base, row)
  PROVE  \A t \in live : Spared(t)
<1>1. nextId \notin live
  BY InsertStored
<1>2. ASSUME NEW t \in live
      PROVE  rows'[t] \in {rows[t], [rows[t] EXCEPT !.active = FALSE]}
  BY <1>1, LiveRow, AllInactiveType DEF Insert, AllInactive, Stored, TypeOK
<1> QED
  BY <1>2, LiveRow DEF Insert, Spared, SameContent, SameLock, SameMark, Stored, Rows

LEMMA OverwriteSpares ==
  ASSUME Stored, NEW s \in live, NEW action, NEW row, Overwrite(s, action, row),
         row.lockedBy = rows[s].lockedBy, row.officialBy = rows[s].officialBy
  PROVE  /\ \A t \in live \ {s} : Spared(t)
         /\ SameLock(s) /\ SameMark(s) /\ ContentSaved(s)
<1>1. rows'[s] = row /\ live' = live
  BY LiveRow DEF Overwrite, Stored, TypeOK
<1>2. \A t \in live \ {s} : rows'[t] = rows[t]
  BY LiveRow DEF Overwrite, Stored, TypeOK
<1>3. ContentSaved(s)
  <2>1. Snapshot(action, rows[s]) \in hist'[s]
    BY LiveRow DEF Overwrite, Stored, TypeOK
  <2>2. Snapshot(action, rows[s]).content = rows[s].content
    BY DEF Snapshot
  <2> QED
    BY <2>1, <2>2 DEF ContentSaved
<1> QED
  BY <1>1, <1>2, <1>3 DEF Spared, SameContent, SameLock, SameMark

LEMMA RemoveSpares ==
  ASSUME Stored, NEW D, Remove(D)
  PROVE  \A t \in live \ D : Spared(t)
<1>1. \A t \in live \ D : t \in ScheduleIds /\ rows[t] \in Rows /\ t \in live'
  BY LiveRow DEF Remove, Stored
<1>2. \A t \in live \ D : rows'[t] = [rows[t] EXCEPT !.forkedFrom =
                                      IF @ \in D THEN NoSchedule ELSE @]
  BY <1>1 DEF Remove
<1> QED
  BY <1>1, <1>2, ZenonT(30) DEF Spared, SameContent, SameLock, SameMark, Rows

LEMMA WhoTouches ==
  ASSUME Stored, PlansIssuedOnce, [Next]_vars, NEW t \in live
  PROVE  \/ Spared(t) \/ Edited(t) \/ Replaced(t) \/ Relocked(t)
         \/ Promoted(t) \/ Deleted(t) \/ Dropped(t)
<1> DEFINE Accounted == \/ Spared(t) \/ Edited(t) \/ Replaced(t) \/ Relocked(t)
                        \/ Promoted(t) \/ Deleted(t) \/ Dropped(t)
<1>0. t \in ScheduleIds /\ \A s \in live : rows[s] \in Rows
  BY LiveRow DEF Stored
<1>1. ASSUME NEW u \in Users, actor' = u, NEW s \in ScheduleIds,
             NEW day \in Days, Patch(u, s, day)
      PROVE  Accounted
  <2>1. /\ s \in live
        /\ Overwrite(s, "patch", [rows[s] EXCEPT !.content.day = day])
        /\ MayEdit(event, rows[s], hist[s], u)
    BY <1>1 DEF Patch
  <2> QED
    BY <1>0, <1>1, <2>1, OverwriteSpares DEF Edited, Rows
<1>2. ASSUME NEW u \in Users, actor' = u, NEW s \in ScheduleIds,
             NEW day \in Days, NEW shape \in Shapes, ImportReplace(u, s, shape, day)
      PROVE  Accounted
  <2>1. /\ s \in live
        /\ MayReplace(rows[s], hist[s], u)
        /\ Overwrite(s, "patch", [rows[s] EXCEPT !.plan = nextPlan,
                                    !.content = [day |-> day, slots |-> shape]])
    BY <1>2 DEF ImportReplace
  <2>2. MovedToNewPlan(s)
    BY <1>0, <2>1 DEF Overwrite, MovedToNewPlan, PlansIssuedOnce, Stored, TypeOK, Rows
  <2> QED
    BY <1>0, <1>2, <2>1, <2>2, OverwriteSpares DEF Replaced, Rows
<1>3. ASSUME NEW u \in Users, actor' = u, NEW s \in ScheduleIds,
             NEW h \in hist[s], Restore(u, s, h)
      PROVE  Accounted
  <2>1. /\ s \in live
        /\ Overwrite(s, "restore", [rows[s] EXCEPT !.content = h.content])
        /\ MayEdit(event, rows[s], hist[s], u)
    BY <1>3 DEF Restore
  <2> QED
    BY <1>0, <1>3, <2>1, OverwriteSpares DEF Edited, Rows
<1> USE DEF SameContent, SameLock, SameMark, Spared
<1>4. ASSUME NEW u \in Users, actor' = u, NEW s \in ScheduleIds, Lock(u, s)
      PROVE  Accounted
  BY <1>0, <1>4 DEF Lock, Relocked, Stored, TypeOK, Rows
<1>5. ASSUME NEW u \in Users, actor' = u, NEW s \in ScheduleIds, Unlock(u, s)
      PROVE  Accounted
  BY <1>0, <1>5 DEF Unlock, Relocked, Stored, TypeOK, Rows
<1>6. ASSUME NEW u \in Users, actor' = u, NEW s \in ScheduleIds, Activate(u, s)
      PROVE  Accounted
  BY <1>0, <1>6 DEF Activate, AllInactive, Rows
<1>7. ASSUME NEW u \in Users, actor' = u, NEW s \in ScheduleIds,
             MarkOfficial(u, s)
      PROVE  Accounted
  <2>1. t # s => rows'[t] = rows[t]
    BY <1>0, <1>7 DEF MarkOfficial, Stored, TypeOK
  <2>2. rows'[s].content = rows[s].content
    BY <1>0, <1>7 DEF MarkOfficial, Stored, TypeOK, Rows
  <2>3. IsLocked(rows[s]) => rows'[s].lockedBy = rows[s].lockedBy
    BY <1>0, <1>7 DEF MarkOfficial, Stored, TypeOK, Rows
  <2> QED
    BY <1>7, <2>1, <2>2, <2>3 DEF MarkOfficial, MayMark, Promoted
<1>8. ASSUME NEW u \in Users, actor' = u, NEW s \in ScheduleIds,
             UnmarkOfficial(u, s)
      PROVE  Accounted
  BY <1>0, <1>8 DEF UnmarkOfficial, MayUnmark, Promoted, Stored, TypeOK, Rows
<1>9. ASSUME NEW u \in Users, NEW s \in ScheduleIds, Duplicate(u, s)
      PROVE  Accounted
  BY <1>9, InsertSpares DEF Duplicate
<1>10. ASSUME NEW u \in Users, actor' = u, NEW s \in ScheduleIds, Delete(u, s)
       PROVE  Accounted
  BY <1>0, <1>10, RemoveSpares DEF Delete, Deleted, Remove
<1>11. ASSUME NEW u \in Users, NEW shape \in Shapes, GenerateAbstract(u, shape)
       PROVE  Accounted
  BY <1>11 DEF GenerateAbstract
<1>12. ASSUME NEW u \in Users, NEW p \in PlanIds, NEW day \in Days,
              Assign(u, p, day)
       PROVE  Accounted
  BY <1>12, InsertSpares DEF Assign
<1>13. ASSUME NEW u \in Users, NEW shape \in Shapes, NEW day \in Days,
              ImportNew(u, shape, day)
       PROVE  Accounted
  BY <1>13, InsertSpares DEF ImportNew
<1>14. ASSUME NEW u \in Users, Freeze(u) \/ Unfreeze(u)
       PROVE  Accounted
  BY <1>14 DEF Freeze, Unfreeze, tables
<1>15. ASSUME NEW p \in PlanIds, DeleteAbstract(p)
       PROVE  Accounted
  <2>1. CASE rows[t].plan = p
    BY <1>15, <2>1 DEF DeleteAbstract, Remove, Dropped, PlanDropped, Stored, TypeOK
  <2>2. CASE rows[t].plan # p
    BY <1>15, <2>2, RemoveSpares DEF DeleteAbstract
  <2> QED
    BY <2>1, <2>2
<1>16. ASSUME UNCHANGED vars
       PROVE  Accounted
  BY <1>16 DEF vars
<1> HIDE DEF Accounted
<1>17. ASSUME NEW u \in Users, actor' = u, ScheduleStep(u)
       PROVE  Accounted
  BY <1>1, <1>2, <1>3, <1>4, <1>5, <1>6, <1>7, <1>8, <1>9, <1>10, <1>17
  DEF ScheduleStep
<1>18. ASSUME NEW u \in Users, EventStep(u)
       PROVE  Accounted
  BY <1>11, <1>12, <1>13, <1>14, <1>18 DEF EventStep
<1>19. Accounted
  BY <1>15, <1>16, <1>17, <1>18 DEF Next
<1> QED
  BY <1>19 DEF Accounted

LEMMA Guarded == Spec => [](Stored /\ PlansIssuedOnce)
BY StoredInit, StoredStep, PlansInit, PlansStep, PTL DEF Spec

\* While the event is frozen, a schedule that existed at the freeze changes
\* only at the hand of the freezer or an admin, unless an import replaces it or
\* its abstract schedule is dropped.
THEOREM FrozenIsProtected == Spec => FreezeProtects
<1>1. ASSUME Stored, PlansIssuedOnce, [Next]_vars, NEW s \in live,
             IsFrozen(event), rows[s].createdAt < event.frozenAt, Touched(s),
             ~MovedToNewPlan(s), ~PlanDropped(s)
      PROVE  CanBypassFreeze(event, actor')
  <2>1. Edited(s) \/ Relocked(s) \/ Promoted(s) \/ Deleted(s)
    BY <1>1, WhoTouches
    DEF Touched, Spared, SameContent, SameLock, SameMark, Replaced, Dropped
  <2> QED
    BY <1>1, <2>1
    DEF Edited, Relocked, Promoted, Deleted, MayEdit, MayLock, MayUnlock,
        MayDelete, ProtectedByFreeze, IsEventFrozenFor
<1>2. Stored /\ PlansIssuedOnce /\ [Next]_vars =>
        [\A s \in live :
           /\ IsFrozen(event) /\ rows[s].createdAt < event.frozenAt
           /\ Touched(s)
           /\ ~MovedToNewPlan(s) /\ ~PlanDropped(s)
           => CanBypassFreeze(event, actor')]_vars
  BY <1>1
<1> QED
  BY <1>2, Guarded, PTL DEF Spec, FreezeProtects

\* Nobody but the holder of a lock changes what is locked, admins included.
THEOREM LocksExclude == Spec => LockExcludesOthers
<1>1. ASSUME Stored, PlansIssuedOnce, [Next]_vars, NEW s \in live,
             IsLocked(rows[s]),
             ~SameContent(s) \/ ~SameLock(s), ~PlanDropped(s)
      PROVE  actor' = rows[s].lockedBy
  <2>1. Edited(s) \/ Replaced(s) \/ Relocked(s) \/ Deleted(s)
    BY <1>1, WhoTouches DEF Spared, Promoted, Dropped
  <2> QED
    BY <1>1, <2>1
    DEF Edited, Replaced, Relocked, Deleted, MayEdit, MayReplace, MayLock,
        MayUnlock, MayDelete, LockedByOther
<1>2. Stored /\ PlansIssuedOnce /\ [Next]_vars =>
        [\A s \in live :
           /\ IsLocked(rows[s])
           /\ \/ s \notin live'
              \/ rows'[s].content # rows[s].content
              \/ rows'[s].lockedBy # rows[s].lockedBy
           /\ ~PlanDropped(s)
           => actor' = rows[s].lockedBy]_vars
  BY <1>1 DEF SameContent, SameLock
<1> QED
  BY <1>2, Guarded, PTL DEF Spec, LockExcludesOthers

\* Whatever overwrites the content of a schedule leaves it in the history.
THEOREM OverwrittenIsKept == Spec => OverwrittenContentKept
<1>1. ASSUME Stored, PlansIssuedOnce, [Next]_vars, NEW s \in live, s \in live',
             rows'[s].content # rows[s].content
      PROVE  ContentSaved(s)
  BY <1>1, WhoTouches
  DEF Spared, Edited, Replaced, Relocked, Promoted, Deleted, Dropped, SameContent
<1>2. Stored /\ PlansIssuedOnce /\ [Next]_vars =>
        [\A s \in live \cap live' :
           rows'[s].content # rows[s].content =>
             \E h \in hist'[s] : h.content = rows[s].content]_vars
  BY <1>1 DEF ContentSaved
<1> QED
  BY <1>2, Guarded, PTL DEF Spec, OverwrittenContentKept

-----------------------------------------------------------------------------
\* The active flag.

\* A step promotes nobody, or demotes everybody but the one it promotes.
Promotes(t) ==
  /\ t \in live' /\ rows'[t].active
  /\ \A s \in live' \ {t} : ~rows'[s].active

PromotesNobody ==
  \A s \in live' : rows'[s].active => s \in live /\ rows[s].active

LEMMA ActiveInsert ==
  ASSUME Stored, NEW p, NEW c, NEW u, NEW parent,
         Insert(AllInactive, NewRow(p, c, u, TRUE, parent))
  PROVE  \E t \in ScheduleIds \ live : Promotes(t)
<1>1. nextId \in ScheduleIds \ live
  BY InsertStored DEF Insert
<1>2. rows'[nextId].active /\ live' = live \cup {nextId}
  BY <1>1, AllInactiveType DEF Insert, NewRow, Stored
<1>3. ASSUME NEW s \in live
      PROVE  ~rows'[s].active
  <2>1. rows'[s] = AllInactive[s] /\ rows[s] \in Rows /\ s \in ScheduleIds
    BY <1>1, LiveRow, AllInactiveType DEF Insert, Stored
  <2> QED
    BY <2>1 DEF AllInactive, Rows
<1>4. PICK n \in ScheduleIds \ live : n = nextId
  BY <1>1
<1> QED
  BY <1>2, <1>3, <1>4 DEF Promotes

LEMMA RemoveActive ==
  ASSUME Stored, NEW D, Remove(D)
  PROVE  PromotesNobody
<1>1. ASSUME NEW s \in live'
      PROVE  /\ s \in live /\ rows[s] \in Rows
             /\ rows'[s] = [rows[s] EXCEPT !.forkedFrom =
                                IF @ \in D THEN NoSchedule ELSE @]
  BY LiveRow DEF Remove, Stored
<1> QED
  BY <1>1 DEF PromotesNobody, Rows

LEMMA WhoPromotes ==
  ASSUME Stored, [Next]_vars
  PROVE  \/ PromotesNobody /\ \A s \in live \cap live' :
                               rows'[s].active = rows[s].active
         \/ \E t \in ScheduleIds \ live : Promotes(t)
         \/ \E t \in live :
              /\ MayActivate(event, rows[t],
                             {rows[s] : s \in {s \in live \ {t} : rows[s].active}},
                             actor')
              /\ Promotes(t)
<1> DEFINE Same == PromotesNobody /\ \A s \in live \cap live' :
                                       rows'[s].active = rows[s].active
           Taken == \E t \in ScheduleIds \ live : Promotes(t)
           Given == \E t \in live :
                      /\ MayActivate(event, rows[t],
                           {rows[s] : s \in {s \in live \ {t} : rows[s].active}},
                           actor')
                      /\ Promotes(t)
<1>0. \A s \in live : s \in ScheduleIds /\ rows[s] \in Rows
  BY LiveRow DEF Stored
<1>1. ASSUME NEW u \in Users, NEW s \in ScheduleIds, NEW day \in Days,
             Patch(u, s, day)
      PROVE  Same
  BY <1>0, <1>1 DEF Patch, Overwrite, PromotesNobody, Stored, TypeOK, Rows
<1>2. ASSUME NEW u \in Users, NEW s \in ScheduleIds, NEW day \in Days,
             NEW shape \in Shapes, ImportReplace(u, s, shape, day)
      PROVE  Same
  BY <1>0, <1>2 DEF ImportReplace, Overwrite, PromotesNobody, Stored, TypeOK, Rows
<1>3. ASSUME NEW u \in Users, NEW s \in ScheduleIds, NEW h \in hist[s],
             Restore(u, s, h)
      PROVE  Same
  BY <1>0, <1>3 DEF Restore, Overwrite, PromotesNobody, Stored, TypeOK, Rows
<1>4. ASSUME NEW u \in Users, NEW s \in ScheduleIds, Lock(u, s)
      PROVE  Same
  BY <1>0, <1>4 DEF Lock, PromotesNobody, Stored, TypeOK, Rows
<1>5. ASSUME NEW u \in Users, NEW s \in ScheduleIds, Unlock(u, s)
      PROVE  Same
  BY <1>0, <1>5 DEF Unlock, PromotesNobody, Stored, TypeOK, Rows
<1>6. ASSUME NEW u \in Users, actor' = u, NEW s \in ScheduleIds, Activate(u, s)
      PROVE  Given
  <2>1. s \in live /\ live' = live
    BY <1>6 DEF Activate
  <2>2. ASSUME NEW t \in live \ {s}
        PROVE  ~rows'[t].active
    BY <1>0, <1>6 DEF Activate, AllInactive, Rows
  <2>3. rows'[s].active
    BY <1>0, <1>6, <2>1 DEF Activate, AllInactive, Rows
  <2> QED
    BY <1>6, <2>1, <2>2, <2>3 DEF Activate, Promotes
<1>7. ASSUME NEW u \in Users, NEW s \in ScheduleIds, MarkOfficial(u, s)
      PROVE  Same
  <2>1. \A t \in live \ {s} : rows'[t] = rows[t]
    BY <1>0, <1>7 DEF MarkOfficial, Stored, TypeOK
  <2>2. rows'[s].active = rows[s].active
    BY <1>0, <1>7 DEF MarkOfficial, Stored, TypeOK, Rows
  <2> QED
    BY <1>7, <2>1, <2>2 DEF MarkOfficial, PromotesNobody
<1>8. ASSUME NEW u \in Users, NEW s \in ScheduleIds, UnmarkOfficial(u, s)
      PROVE  Same
  BY <1>0, <1>8 DEF UnmarkOfficial, PromotesNobody, Stored, TypeOK, Rows
<1>9. ASSUME NEW u \in Users, NEW s \in ScheduleIds, Duplicate(u, s)
      PROVE  Same
  <2>1. PICK n \in ScheduleIds \ live : n = nextId
    BY <1>9, InsertStored DEF Duplicate, Insert
  <2>2. ~rows'[n].active /\ live' = live \cup {n}
    BY <1>9, <2>1 DEF Duplicate, Insert, NewRow, Stored, TypeOK
  <2>3. \A t \in live : rows'[t] = rows[t]
    BY <1>0, <1>9, <2>1 DEF Duplicate, Insert, Stored, TypeOK
  <2> QED
    BY <2>1, <2>2, <2>3 DEF PromotesNobody
<1>10. ASSUME NEW D, Remove(D)
       PROVE  Same
  <2>1. \A s \in live \cap live' : rows'[s].active = rows[s].active
    BY <1>0, <1>10 DEF Remove, Rows
  <2> QED
    BY <1>10, <2>1, RemoveActive
<1>11. ASSUME NEW u \in Users, NEW shape \in Shapes, GenerateAbstract(u, shape)
       PROVE  Same
  BY <1>11 DEF GenerateAbstract, PromotesNobody
<1>12. ASSUME NEW u \in Users, NEW p \in PlanIds, NEW day \in Days,
              Assign(u, p, day)
       PROVE  Taken
  BY <1>12, ActiveInsert DEF Assign
<1>13. ASSUME NEW u \in Users, NEW shape \in Shapes, NEW day \in Days,
              ImportNew(u, shape, day)
       PROVE  Taken
  BY <1>13, ActiveInsert DEF ImportNew
<1>14. ASSUME NEW u \in Users, Freeze(u) \/ Unfreeze(u)
       PROVE  Same
  BY <1>14 DEF Freeze, Unfreeze, tables, PromotesNobody
<1>15. ASSUME UNCHANGED vars
       PROVE  Same
  BY <1>15 DEF vars, PromotesNobody
<1>16. ASSUME NEW u \in Users, NEW s \in ScheduleIds, Delete(u, s)
       PROVE  Same
  BY <1>10, <1>16 DEF Delete
<1>17. ASSUME NEW p \in PlanIds, DeleteAbstract(p)
       PROVE  Same
  BY <1>10, <1>17 DEF DeleteAbstract
<1> HIDE DEF Same, Taken, Given
<1>18. ASSUME NEW u \in Users, actor' = u, ScheduleStep(u)
       PROVE  Same \/ Taken \/ Given
  BY <1>1, <1>2, <1>3, <1>4, <1>5, <1>6, <1>7, <1>8, <1>9, <1>16, <1>18
  DEF ScheduleStep
<1>19. ASSUME NEW u \in Users, EventStep(u)
       PROVE  Same \/ Taken \/ Given
  BY <1>11, <1>12, <1>13, <1>14, <1>19 DEF EventStep
<1>20. Same \/ Taken \/ Given
  BY <1>15, <1>17, <1>18, <1>19 DEF Next
<1> QED
  BY <1>20 DEF Same, Taken, Given

LEMMA ActiveStep == Stored /\ AtMostOneActive /\ [Next]_vars => AtMostOneActive'
BY WhoPromotes DEF AtMostOneActive, PromotesNobody, Promotes

\* At most one schedule of the event is active.
THEOREM OneActive == Spec => []AtMostOneActive
<1>1. Init => AtMostOneActive
  BY DEF Init, AtMostOneActive
<1> QED
  BY <1>1, ActiveStep, StoredInit, StoredStep, PTL DEF Spec

\* The view and the live data find one active and one official schedule at most.
THEOREM OneOfEach == Spec => []AtMostOneOfEach
BY OneActive, OneOfficial, PTL DEF AtMostOneOfEach

\* A promotion never demotes a schedule another user holds locked, unless an
\* admin asks for it or the promoted schedule is new.
THEOREM HeldActiveStays == Spec => ActivationKeepsHeldActive
<1>1. ASSUME Stored, [Next]_vars, NEW s \in live, NEW t \in live,
             rows[s].active, s \in live', ~rows'[s].active,
             t \in live', rows'[t].active, LockedByOther(rows[s], actor')
      PROVE  IsAdmin(actor')
  <2>1. PICK p \in live :
          /\ MayActivate(event, rows[p],
                         {rows[r] : r \in {r \in live \ {p} : rows[r].active}},
                         actor')
          /\ Promotes(p)
    BY <1>1, WhoPromotes DEF Promotes
  <2>2. s # p
    BY <1>1, <2>1 DEF Promotes
  <2> QED
    BY <1>1, <2>1, <2>2 DEF MayActivate
<1>2. Stored /\ [Next]_vars =>
        [\A s, t \in live :
           /\ rows[s].active /\ s \in live' /\ ~rows'[s].active
           /\ t \in live' /\ rows'[t].active
           /\ LockedByOther(rows[s], actor')
           => IsAdmin(actor')]_vars
  BY <1>1
<1> QED
  BY <1>2, StoredInit, StoredStep, PTL DEF Spec, ActivationKeepsHeldActive

-----------------------------------------------------------------------------
\* Lineage.

LEMMA LineageInsert ==
  ASSUME Stored, LineageEnds, NEW base \in {rows, AllInactive}, NEW p, NEW c,
         NEW u, NEW on, NEW parent \in live \cup {NoSchedule},
         Insert(base, NewRow(p, c, u, on, parent))
  PROVE  LineageEnds'
<1>1. PICK n \in ScheduleIds \ live : n = nextId
  BY InsertStored DEF Insert
<1>2. rows'[n].forkedFrom = parent /\ live' = live \cup {n}
  BY <1>1, AllInactiveType DEF Insert, NewRow, Stored, TypeOK
<1>3. ASSUME NEW s \in live
      PROVE  rows'[s].forkedFrom = rows[s].forkedFrom
  <2>1. s \in ScheduleIds /\ rows[s] \in Rows
    BY LiveRow DEF Stored
  <2>2. rows'[s] = base[s]
    BY <1>1, <2>1, AllInactiveType DEF Insert, Stored, TypeOK
  <2>3. base[s] \in {rows[s], [rows[s] EXCEPT !.active = FALSE]}
    BY <2>1 DEF AllInactive
  <2> QED
    BY <2>1, <2>2, <2>3 DEF Rows
<1>4. \A s \in live : s < n
  BY <1>1 DEF Stored, IdsIssuedOnce
<1> QED
  BY <1>2, <1>3, <1>4 DEF LineageEnds

\* Deleting a schedule cuts the pointers of its forks.
LEMMA LineageRemove ==
  ASSUME Stored, LineageEnds, NEW D, Remove(D)
  PROVE  LineageEnds'
<1>1. ASSUME NEW s \in live'
      PROVE  /\ s \in live
             /\ rows'[s].forkedFrom =
                  IF rows[s].forkedFrom \in D THEN NoSchedule ELSE rows[s].forkedFrom
  <2>1. s \in live /\ s \notin D /\ s \in ScheduleIds /\ rows[s] \in Rows
    BY LiveRow DEF Remove, Stored
  <2>2. rows'[s] = [rows[s] EXCEPT !.forkedFrom =
                      IF @ \in D THEN NoSchedule ELSE @]
    BY <2>1 DEF Remove
  <2> QED
    BY <2>1, <2>2 DEF Rows
<1> QED
  BY <1>1 DEF LineageEnds, Remove

LEMMA LineageStep == Stored /\ LineageEnds /\ [Next]_vars => LineageEnds'
<1> SUFFICES ASSUME Stored, LineageEnds, [Next]_vars PROVE LineageEnds'
  OBVIOUS
<1>0. \A s \in live : s \in ScheduleIds /\ rows[s] \in Rows
  BY LiveRow DEF Stored
<1>1. ASSUME live' = live, \A s \in live : rows'[s].forkedFrom = rows[s].forkedFrom
      PROVE  LineageEnds'
  BY <1>1 DEF LineageEnds
<1>2. ASSUME NEW u \in Users, NEW s \in ScheduleIds, NEW day \in Days,
             Patch(u, s, day)
      PROVE  LineageEnds'
  BY <1>0, <1>1, <1>2 DEF Patch, Overwrite, Stored, TypeOK, Rows
<1>3. ASSUME NEW u \in Users, NEW s \in ScheduleIds, NEW day \in Days,
             NEW shape \in Shapes, ImportReplace(u, s, shape, day)
      PROVE  LineageEnds'
  BY <1>0, <1>1, <1>3 DEF ImportReplace, Overwrite, Stored, TypeOK, Rows
<1>4. ASSUME NEW u \in Users, NEW s \in ScheduleIds, NEW h \in hist[s],
             Restore(u, s, h)
      PROVE  LineageEnds'
  BY <1>0, <1>1, <1>4 DEF Restore, Overwrite, Stored, TypeOK, Rows
<1>5. ASSUME NEW u \in Users, NEW s \in ScheduleIds, Lock(u, s)
      PROVE  LineageEnds'
  BY <1>0, <1>1, <1>5 DEF Lock, Stored, TypeOK, Rows
<1>6. ASSUME NEW u \in Users, NEW s \in ScheduleIds, Unlock(u, s)
      PROVE  LineageEnds'
  BY <1>0, <1>1, <1>6 DEF Unlock, Stored, TypeOK, Rows
<1>7. ASSUME NEW u \in Users, NEW s \in ScheduleIds, Activate(u, s)
      PROVE  LineageEnds'
  BY <1>0, <1>1, <1>7 DEF Activate, AllInactive, Rows
<1>8. ASSUME NEW u \in Users, NEW s \in ScheduleIds, MarkOfficial(u, s)
      PROVE  LineageEnds'
  <2>1. \A t \in live \ {s} : rows'[t] = rows[t]
    BY <1>0, <1>8 DEF MarkOfficial, Stored, TypeOK
  <2>2. rows'[s].forkedFrom = rows[s].forkedFrom
    BY <1>0, <1>8 DEF MarkOfficial, Stored, TypeOK, Rows
  <2> QED
    BY <1>1, <1>8, <2>1, <2>2 DEF MarkOfficial
<1>9. ASSUME NEW u \in Users, NEW s \in ScheduleIds, UnmarkOfficial(u, s)
      PROVE  LineageEnds'
  BY <1>0, <1>1, <1>9 DEF UnmarkOfficial, Stored, TypeOK, Rows
<1>10. ASSUME NEW u \in Users, NEW s \in ScheduleIds, Duplicate(u, s)
       PROVE  LineageEnds'
  BY <1>10, LineageInsert DEF Duplicate
<1>11. ASSUME NEW u \in Users, NEW s \in ScheduleIds, Delete(u, s)
       PROVE  LineageEnds'
  BY <1>11, LineageRemove DEF Delete
<1>12. ASSUME NEW u \in Users, NEW shape \in Shapes, GenerateAbstract(u, shape)
       PROVE  LineageEnds'
  BY <1>1, <1>12 DEF GenerateAbstract
<1>13. ASSUME NEW u \in Users, NEW p \in PlanIds, NEW day \in Days,
              Assign(u, p, day)
       PROVE  LineageEnds'
  BY <1>13, LineageInsert DEF Assign
<1>14. ASSUME NEW u \in Users, NEW shape \in Shapes, NEW day \in Days,
              ImportNew(u, shape, day)
       PROVE  LineageEnds'
  BY <1>14, LineageInsert DEF ImportNew
<1>15. ASSUME NEW u \in Users, Freeze(u) \/ Unfreeze(u)
       PROVE  LineageEnds'
  BY <1>1, <1>15 DEF Freeze, Unfreeze, tables
<1>16. ASSUME NEW p \in PlanIds, DeleteAbstract(p)
       PROVE  LineageEnds'
  BY <1>16, LineageRemove DEF DeleteAbstract
<1>17. CASE UNCHANGED vars
  BY <1>1, <1>17 DEF vars
<1>18. ASSUME NEW u \in Users, ScheduleStep(u)
       PROVE  LineageEnds'
  BY <1>2, <1>3, <1>4, <1>5, <1>6, <1>7, <1>8, <1>9, <1>10, <1>11, <1>18
  DEF ScheduleStep
<1>19. ASSUME NEW u \in Users, EventStep(u)
       PROVE  LineageEnds'
  BY <1>12, <1>13, <1>14, <1>15, <1>19 DEF EventStep
<1> QED
  BY <1>16, <1>17, <1>18, <1>19 DEF Next

\* Walking back from a fork ends at a schedule that was not forked.
THEOREM LineageIsFinite == Spec => []LineageEnds
<1>1. Init => LineageEnds
  BY DEF Init, LineageEnds
<1> QED
  BY <1>1, LineageStep, StoredInit, StoredStep, PTL DEF Spec

-----------------------------------------------------------------------------
\* The lock log.

\* A log of lock events that ends with "holder" holding the lock, or nobody.
Agrees(log, holder) ==
  /\ \A i \in 1 .. Len(log) :
       log[i].action = (IF i % 2 = 1 THEN "lock" ELSE "unlock")
  /\ \A i \in 2 .. Len(log) :
       log[i].action = "unlock" => log[i].user = log[i - 1].user
  /\ holder = IF Len(log) % 2 = 1 THEN log[Len(log)].user ELSE NoUser

\* Appending an event to a log.
LEMMA AppendEvent ==
  ASSUME NEW log \in Seq(LockEvents), NEW e \in LockEvents
  PROVE  /\ Len(log) \in Nat
         /\ Append(log, e) \in Seq(LockEvents)
         /\ Len(Append(log, e)) = Len(log) + 1
         /\ Append(log, e)[Len(log) + 1] = e
         /\ \A i \in 1 .. Len(log) : /\ Append(log, e)[i] = log[i]
                                     /\ log[i] \in LockEvents
OBVIOUS

\* An odd number of events goes with a held lock.
LEMMA HeldIsOdd ==
  ASSUME NEW log \in Seq(LockEvents), NEW holder, Agrees(log, holder)
  PROVE  Len(log) % 2 = IF holder = NoUser THEN 0 ELSE 1
<1>1. Len(log) \in Nat /\ Len(log) % 2 \in {0, 1}
  OBVIOUS
<1>2. ASSUME Len(log) % 2 = 1
      PROVE  log[Len(log)].user \in Users
  <2>1. Len(log) \in 1 .. Len(log)
    BY <1>1, <1>2
  <2>2. log[Len(log)] \in LockEvents
    BY <2>1
  <2> QED
    BY <2>2 DEF LockEvents
<1> QED
  BY <1>1, <1>2, ConstantsAssumption DEF Agrees

LEMMA AgreesOnLock ==
  ASSUME NEW log \in Seq(LockEvents), NEW u \in Users, Agrees(log, NoUser)
  PROVE  Agrees(Append(log, LockEvent("lock", u)), u)
<1>0. /\ LockEvent("lock", u) \in LockEvents
      /\ LockEvent("lock", u).action = "lock"
      /\ LockEvent("lock", u).user = u
  BY DEF LockEvent, LockEvents
<1>1. PICK e \in LockEvents : /\ e = LockEvent("lock", u)
                              /\ e.action = "lock" /\ e.user = u
  BY <1>0
<1>2. PICK n \in Nat : n = Len(log) /\ n % 2 = 0
  BY HeldIsOdd
<1>3. PICK longer : longer = Append(log, e)
  OBVIOUS
<1>4. /\ Len(longer) = n + 1 /\ longer[n + 1] = e
      /\ \A i \in 1 .. n : longer[i] = log[i]
  BY <1>2, <1>3, AppendEvent
<1>5. (n + 1) % 2 = 1
  BY <1>2
<1>6. \A i \in 1 .. n + 1 :
        longer[i].action = (IF i % 2 = 1 THEN "lock" ELSE "unlock")
  <2>1. \A i \in 1 .. n :
          longer[i].action = (IF i % 2 = 1 THEN "lock" ELSE "unlock")
    BY <1>2, <1>4 DEF Agrees
  <2>2. longer[n + 1].action = (IF (n + 1) % 2 = 1 THEN "lock" ELSE "unlock")
    BY <1>1, <1>4, <1>5
  <2>3. \A i \in 1 .. n + 1 : i \in 1 .. n \/ i = n + 1
    BY <1>2
  <2> QED
    BY <2>1, <2>2, <2>3
<1>7. \A i \in 2 .. n + 1 :
        longer[i].action = "unlock" => longer[i].user = longer[i - 1].user
  <2>1. \A i \in 2 .. n : i - 1 \in 1 .. n /\ i \in 1 .. n
    BY <1>2
  <2>2. \A i \in 2 .. n :
          longer[i].action = "unlock" => longer[i].user = longer[i - 1].user
    BY <1>2, <1>4, <2>1 DEF Agrees
  <2> QED
    BY <1>1, <1>2, <1>4, <2>2
<1> QED
  BY <1>1, <1>3, <1>4, <1>5, <1>6, <1>7 DEF Agrees

LEMMA AgreesOnUnlock ==
  ASSUME NEW log \in Seq(LockEvents), NEW u \in Users, Agrees(log, u)
  PROVE  Agrees(Append(log, LockEvent("unlock", u)), NoUser)
<1>0. /\ LockEvent("unlock", u) \in LockEvents
      /\ LockEvent("unlock", u).action = "unlock"
      /\ LockEvent("unlock", u).user = u
  BY DEF LockEvent, LockEvents
<1>1. PICK e \in LockEvents : /\ e = LockEvent("unlock", u)
                              /\ e.action = "unlock" /\ e.user = u
  BY <1>0
<1>2. PICK n \in Nat : n = Len(log) /\ n % 2 = 1
  BY HeldIsOdd, ConstantsAssumption
<1>3. PICK longer : longer = Append(log, e)
  OBVIOUS
<1>4. /\ Len(longer) = n + 1 /\ longer[n + 1] = e
      /\ \A i \in 1 .. n : longer[i] = log[i]
  BY <1>2, <1>3, AppendEvent
<1>5. (n + 1) % 2 = 0 /\ n >= 1
  BY <1>2
<1>6. \A i \in 1 .. n + 1 :
        longer[i].action = (IF i % 2 = 1 THEN "lock" ELSE "unlock")
  <2>1. \A i \in 1 .. n :
          longer[i].action = (IF i % 2 = 1 THEN "lock" ELSE "unlock")
    BY <1>2, <1>4 DEF Agrees
  <2>2. longer[n + 1].action = (IF (n + 1) % 2 = 1 THEN "lock" ELSE "unlock")
    BY <1>1, <1>4, <1>5
  <2>3. \A i \in 1 .. n + 1 : i \in 1 .. n \/ i = n + 1
    BY <1>2
  <2> QED
    BY <2>1, <2>2, <2>3
<1>7. longer[n].user = u
  BY <1>2, <1>4, <1>5 DEF Agrees
<1>8. \A i \in 2 .. n + 1 :
        longer[i].action = "unlock" => longer[i].user = longer[i - 1].user
  <2>1. \A i \in 2 .. n : i - 1 \in 1 .. n /\ i \in 1 .. n
    BY <1>2
  <2>2. \A i \in 2 .. n :
          longer[i].action = "unlock" => longer[i].user = longer[i - 1].user
    BY <1>2, <1>4, <2>1 DEF Agrees
  <2> QED
    BY <1>1, <1>2, <1>4, <1>7, <2>2
<1> QED
  BY <1>1, <1>3, <1>4, <1>5, <1>6, <1>8 DEF Agrees

LogAgrees == \A s \in ScheduleIds : Agrees(locklog[s], rows[s].lockedBy)

LEMMA LogInit == Init => LogAgrees
<1> SUFFICES ASSUME Init, NEW s \in ScheduleIds
             PROVE  Agrees(locklog[s], rows[s].lockedBy)
  BY DEF LogAgrees
<1>1. locklog[s] = <<>> /\ rows[s].lockedBy = NoUser
  BY DEF Init, BlankRow
<1> QED
  BY <1>1 DEF Agrees

\* A step that leaves a lock and its log alone, or starts both afresh.
LogKept(s) ==
  \/ locklog'[s] = locklog[s] /\ rows'[s].lockedBy = rows[s].lockedBy
  \/ locklog'[s] = <<>> /\ rows'[s].lockedBy = NoUser

LEMMA LogKeptAgrees ==
  ASSUME NEW s \in ScheduleIds, Agrees(locklog[s], rows[s].lockedBy), LogKept(s)
  PROVE  Agrees(locklog'[s], rows'[s].lockedBy)
<1>1. Agrees(<<>>, NoUser)
  BY DEF Agrees
<1> QED
  BY <1>1 DEF LogKept

LEMMA LogInsert ==
  ASSUME Stored, NEW base \in {rows, AllInactive}, NEW p, NEW c, NEW u, NEW on,
         NEW parent, Insert(base, NewRow(p, c, u, on, parent))
  PROVE  \A s \in ScheduleIds : LogKept(s)
<1>1. PICK n \in ScheduleIds \ live : n = nextId
  BY InsertStored DEF Insert
<1>2. LogKept(n)
  BY <1>1, AllInactiveType
  DEF Insert, NewRow, LogKept, Stored, NoOrphans, TypeOK
<1>3. ASSUME NEW s \in ScheduleIds \ {n}
      PROVE  LogKept(s)
  <2>1. rows'[s] = base[s] /\ locklog'[s] = locklog[s]
    BY <1>1, AllInactiveType DEF Insert, Stored, TypeOK
  <2>2. base[s] \in {rows[s], [rows[s] EXCEPT !.active = FALSE]}
    BY DEF AllInactive
  <2>3. rows[s] \in Rows \/ rows[s] = BlankRow
    BY DEF Stored, TypeOK
  <2> QED
    BY <2>1, <2>2, <2>3, BlankCleared DEF Rows, LogKept
<1> QED
  BY <1>2, <1>3

LEMMA LogRemove ==
  ASSUME Stored, NEW D, Remove(D)
  PROVE  \A s \in ScheduleIds : LogKept(s)
<1> SUFFICES ASSUME NEW s \in ScheduleIds PROVE LogKept(s)
  OBVIOUS
<1>1. CASE s \in D
  BY <1>1 DEF Remove, BlankRow, LogKept
<1>2. CASE s \notin D
  <2>1. /\ locklog'[s] = locklog[s]
        /\ rows'[s] = [rows[s] EXCEPT !.forkedFrom =
                         IF @ \in D THEN NoSchedule ELSE @]
    BY <1>2 DEF Remove
  <2>2. rows[s] \in Rows \/ rows[s] = BlankRow
    BY DEF Stored, TypeOK
  <2> QED
    BY <2>1, <2>2 DEF Rows, BlankRow, LogKept
<1> QED
  BY <1>1, <1>2

\* Locking, unlocking and marking write the lock and its log together.
LEMMA LogWritten ==
  ASSUME Stored, NEW s \in live, NEW action \in {"lock", "unlock"},
         NEW u \in Users, NEW holder, RecordLockEvent(s, action, u),
         rows'[s].lockedBy = holder,
         Agrees(Append(locklog[s], LockEvent(action, u)), holder),
         \A t \in ScheduleIds \ {s} : rows'[t] = rows[t], LogAgrees
  PROVE  LogAgrees'
<1>1. s \in ScheduleIds /\ locklog \in [ScheduleIds -> Seq(LockEvents)]
  BY LiveRow DEF Stored, TypeOK
<1>2. locklog'[s] = Append(locklog[s], LockEvent(action, u))
  BY <1>1 DEF RecordLockEvent
<1>3. \A t \in ScheduleIds \ {s} : locklog'[t] = locklog[t]
  BY <1>1 DEF RecordLockEvent
<1> QED
  BY <1>1, <1>2, <1>3 DEF LogAgrees

LEMMA LogStep == Stored /\ LogAgrees /\ [Next]_vars => LogAgrees'
<1> SUFFICES ASSUME Stored, LogAgrees, [Next]_vars PROVE LogAgrees'
  OBVIOUS
<1> DEFINE Kept == \A s \in ScheduleIds : LogKept(s)
<1>0. \A s \in live : s \in ScheduleIds /\ rows[s] \in Rows
  BY LiveRow DEF Stored
<1>1. ASSUME Kept PROVE LogAgrees'
  BY <1>1, LogKeptAgrees DEF LogAgrees
<1>2. ASSUME NEW u \in Users, NEW s \in ScheduleIds, NEW day \in Days,
             Patch(u, s, day)
      PROVE  Kept
  BY <1>0, <1>2 DEF Patch, Overwrite, LogKept, Stored, TypeOK, Rows
<1>3. ASSUME NEW u \in Users, NEW s \in ScheduleIds, NEW day \in Days,
             NEW shape \in Shapes, ImportReplace(u, s, shape, day)
      PROVE  Kept
  BY <1>0, <1>3 DEF ImportReplace, Overwrite, LogKept, Stored, TypeOK, Rows
<1>4. ASSUME NEW u \in Users, NEW s \in ScheduleIds, NEW h \in hist[s],
             Restore(u, s, h)
      PROVE  Kept
  BY <1>0, <1>4 DEF Restore, Overwrite, LogKept, Stored, TypeOK, Rows
<1>5. ASSUME NEW u \in Users, NEW s \in ScheduleIds, Lock(u, s)
      PROVE  LogAgrees'
  <2>1. s \in live /\ RecordLockEvent(s, "lock", u) /\ rows[s].lockedBy = NoUser
    BY <1>5 DEF Lock, MayLock, IsLocked
  <2>2. Agrees(Append(locklog[s], LockEvent("lock", u)), u)
    BY <1>0, <2>1, AgreesOnLock DEF LogAgrees, Stored, TypeOK
  <2>3. /\ rows'[s].lockedBy = u
        /\ \A t \in ScheduleIds \ {s} : rows'[t] = rows[t]
    BY <1>0, <1>5, <2>1 DEF Lock, Stored, TypeOK, Rows
  <2> QED
    BY <2>1, <2>2, <2>3, LogWritten
<1>6. ASSUME NEW u \in Users, NEW s \in ScheduleIds, Unlock(u, s)
      PROVE  LogAgrees'
  <2>1. s \in live /\ RecordLockEvent(s, "unlock", u) /\ rows[s].lockedBy = u
    BY <1>6 DEF Unlock, MayUnlock
  <2>2. Agrees(Append(locklog[s], LockEvent("unlock", u)), NoUser)
    BY <1>0, <2>1, AgreesOnUnlock DEF LogAgrees, Stored, TypeOK
  <2>3. /\ rows'[s].lockedBy = NoUser
        /\ \A t \in ScheduleIds \ {s} : rows'[t] = rows[t]
    BY <1>0, <1>6, <2>1 DEF Unlock, Stored, TypeOK, Rows
  <2> QED
    BY <2>1, <2>2, <2>3, LogWritten
<1>7. ASSUME NEW u \in Users, NEW s \in ScheduleIds, Activate(u, s)
      PROVE  Kept
  <2>1. ASSUME NEW t \in ScheduleIds
        PROVE  rows'[t].lockedBy = rows[t].lockedBy
    <3>1. rows[t] \in Rows \/ rows[t] = BlankRow
      BY DEF Stored, TypeOK
    <3>2. AllInactive[t].lockedBy = rows[t].lockedBy
      BY <3>1 DEF AllInactive, Rows, BlankRow
    <3>3. AllInactive[s] \in Rows
      BY <1>7, AllInactiveType DEF Activate, Stored
    <3> QED
      BY <1>7, <3>2, <3>3, AllInactiveType DEF Activate, Stored, Rows
  <2> QED
    BY <1>7, <2>1 DEF Activate, LogKept
<1>8. ASSUME NEW u \in Users, NEW s \in ScheduleIds, MarkOfficial(u, s)
      PROVE  LogAgrees'
  <2>1. s \in live /\ s \in ScheduleIds /\ rows[s] \in Rows
    BY <1>0, <1>8 DEF MarkOfficial
  <2>2. \A t \in ScheduleIds \ {s} : rows'[t] = rows[t]
    BY <1>8 DEF MarkOfficial, Stored, TypeOK
  <2>3. CASE IsLocked(rows[s])
    <3>1. rows'[s].lockedBy = rows[s].lockedBy /\ locklog' = locklog
      BY <1>8, <2>1, <2>3 DEF MarkOfficial, Stored, TypeOK, Rows
    <3> QED
      BY <1>1, <2>2, <3>1 DEF LogKept
  <2>4. CASE ~IsLocked(rows[s])
    <3>1. RecordLockEvent(s, "lock", u) /\ rows[s].lockedBy = NoUser
      BY <1>8, <2>4 DEF MarkOfficial, IsLocked
    <3>2. rows'[s].lockedBy = u
      BY <1>8, <2>1, <2>4 DEF MarkOfficial, Stored, TypeOK, Rows
    <3>3. Agrees(Append(locklog[s], LockEvent("lock", u)), u)
      BY <2>1, <3>1, AgreesOnLock DEF LogAgrees, Stored, TypeOK
    <3> QED
      BY <2>1, <2>2, <3>1, <3>2, <3>3, LogWritten
  <2> QED
    BY <2>3, <2>4
<1>9. ASSUME NEW u \in Users, NEW s \in ScheduleIds, UnmarkOfficial(u, s)
      PROVE  Kept
  BY <1>0, <1>9 DEF UnmarkOfficial, LogKept, Stored, TypeOK, Rows
<1>10. ASSUME NEW u \in Users, NEW s \in ScheduleIds, Duplicate(u, s)
       PROVE  Kept
  BY <1>10, LogInsert DEF Duplicate
<1>11. ASSUME NEW u \in Users, NEW s \in ScheduleIds, Delete(u, s)
       PROVE  Kept
  BY <1>11, LogRemove DEF Delete
<1>12. ASSUME NEW u \in Users, NEW shape \in Shapes, GenerateAbstract(u, shape)
       PROVE  Kept
  BY <1>12 DEF GenerateAbstract, LogKept
<1>13. ASSUME NEW u \in Users, NEW p \in PlanIds, NEW day \in Days,
              Assign(u, p, day)
       PROVE  Kept
  BY <1>13, LogInsert DEF Assign
<1>14. ASSUME NEW u \in Users, NEW shape \in Shapes, NEW day \in Days,
              ImportNew(u, shape, day)
       PROVE  Kept
  BY <1>14, LogInsert DEF ImportNew
<1>15. ASSUME NEW u \in Users, Freeze(u) \/ Unfreeze(u)
       PROVE  Kept
  BY <1>15 DEF Freeze, Unfreeze, tables, LogKept
<1>16. ASSUME NEW p \in PlanIds, DeleteAbstract(p)
       PROVE  Kept
  BY <1>16, LogRemove DEF DeleteAbstract
<1>17. ASSUME UNCHANGED vars
       PROVE  Kept
  BY <1>17 DEF vars, LogKept
<1> HIDE DEF Kept
<1>18. ASSUME NEW u \in Users, ScheduleStep(u)
       PROVE  LogAgrees'
  BY <1>1, <1>2, <1>3, <1>4, <1>5, <1>6, <1>7, <1>8, <1>9, <1>10, <1>11, <1>18
  DEF ScheduleStep
<1>19. ASSUME NEW u \in Users, EventStep(u)
       PROVE  LogAgrees'
  BY <1>1, <1>12, <1>13, <1>14, <1>15, <1>19 DEF EventStep
<1> QED
  BY <1>1, <1>16, <1>17, <1>18, <1>19 DEF Next

\* The lock log alternates, only the holder unlocks, and its last entry agrees
\* with the lock columns.
THEOREM LogAgreesWithLock == Spec => []LockLogAgrees
<1>1. LogAgrees => LockLogAgrees
  BY DEF LogAgrees, Agrees, LockLogAgrees
<1> QED
  BY <1>1, LogInit, LogStep, StoredInit, StoredStep, PTL DEF Spec
=============================================================================
