----------------------------- MODULE RaceProofs -----------------------------
(***************************************************************************)
(* What the lifecycle keeps although its handlers interleave between their *)
(* reads and their commits, for any number of requests in flight.  The     *)
(* tables are those of ScheduleLifecycle: what is shown of its writes      *)
(* (Facts) is used for the same writes here.                               *)
(***************************************************************************)
EXTENDS LifecycleRaces, TLAPS

Facts == INSTANCE ScheduleLifecycleProofs

-----------------------------------------------------------------------------
\* The same rules and writes, named through three modules.

LEMMA SameRows ==
  /\ Facts!ScheduleIds = ScheduleIds /\ Facts!PlanIds = PlanIds
  /\ Facts!Actors = Actors /\ Facts!NoSchedule = NoSchedule
  /\ Facts!Contents = Contents /\ Facts!Rows = Rows
  /\ Facts!HistoryRows = HistoryRows /\ Facts!LockEvents = LockEvents
  /\ Facts!EventRows = EventRows
  /\ Serial!BlankRow = Facts!BlankRow /\ Serial!Unfrozen = Facts!Unfrozen
BY DEF Facts!ScheduleIds, ScheduleIds, Facts!PlanIds, PlanIds, Facts!Actors, Actors,
  Facts!NoSchedule, NoSchedule, Facts!Contents, Contents, Facts!Rows, Rows,
  Facts!HistoryRows, HistoryRows, Facts!HistoryActions, HistoryActions,
  Facts!LockEvents, LockEvents, Facts!EventRows, EventRows,
  Serial!BlankRow, Facts!BlankRow, Serial!Unfrozen, Facts!Unfrozen,
  Serial!NoPlan, Facts!NoPlan, Serial!NoSchedule

LEMMA SameWrites ==
  /\ \A base, row : Serial!Insert(base, row) <=> Facts!Insert(base, row)
  /\ \A shape : Serial!AddPlan(shape) <=> Facts!AddPlan(shape)
  /\ \A D : Serial!Remove(D) <=> Facts!Remove(D)
  /\ \A s, action, u :
       Serial!RecordLockEvent(s, action, u) <=> Facts!RecordLockEvent(s, action, u)
  /\ \A p, c, u, on, parent :
       Serial!NewRow(p, c, u, on, parent) = Facts!NewRow(p, c, u, on, parent)
  /\ Serial!LivePlans = Facts!LivePlans
BY DEF Serial!Insert, Facts!Insert, Serial!AddPlan, Facts!AddPlan, Serial!Remove,
  Facts!Remove, Serial!RecordLockEvent, Facts!RecordLockEvent, Serial!NewRow,
  Facts!NewRow, Serial!LivePlans, Facts!LivePlans, Serial!BlankRow, Facts!BlankRow,
  Serial!ScheduleIds, Facts!ScheduleIds, Serial!PlanIds, Facts!PlanIds,
  Serial!NoSchedule, Facts!NoSchedule, Serial!NoPlan, Facts!NoPlan,
  Serial!Snapshot, Facts!Snapshot, Serial!LockEvent, Facts!LockEvent

-----------------------------------------------------------------------------
\* What a request in flight has read.

Pcs == {"idle", "event", "query", "update", "locking", "commit"}

RequestOK(q) ==
  /\ "pc" \in DOMAIN q /\ q.pc \in Pcs
  /\ q.pc # "idle" =>
       /\ {"op", "user"} \subseteq DOMAIN q /\ q.user \in Users
       /\ q.op \in Ops \cap (RowOps \cup EventOps \cup {"assign", "import"})
       /\ q.op \in RowOps =>
            {"s", "row"} \subseteq DOMAIN q /\ q.s \in ScheduleIds /\ q.row \in Rows
       /\ q.op = "assign" =>
            {"plan", "shape"} \subseteq DOMAIN q /\ q.plan \in PlanIds /\ q.shape \in Shapes
       /\ q.pc = "commit" /\ q.op = "restore" => q.content \in Contents
       /\ q.pc = "commit" /\ q.op = "duplicate" => q.shape \in Shapes
       /\ q.pc \in {"update", "locking"} => q.op \in BulkOps
       /\ q.pc = "locking" => "seen" \in DOMAIN q /\ q.seen \subseteq ScheduleIds
       /\ q.pc = "commit" /\ q.op \in BulkOps => q.seen \subseteq ScheduleIds

Requests == reqs = [r \in Slots |-> reqs[r]] /\ \A r \in Slots : RequestOK(reqs[r])

\* The tables are stored as ScheduleLifecycle stores them.
Typed == Facts!Stored /\ Requests

LEMMA RequestMoves ==
  ASSUME Requests, NEW r \in Slots, NEW q, RequestOK(q), reqs' = [reqs EXCEPT ![r] = q]
  PROVE  Requests'
BY DEF Requests

LEMMA ReplyMoves ==
  ASSUME Requests, NEW r \in Slots, Reply(r)
  PROVE  Requests'
<1>1. RequestOK(Idle)
  BY DEF RequestOK, Idle, Pcs
<1> QED
  BY <1>1, RequestMoves DEF Reply

LEMMA StoredSame ==
  ASSUME Facts!Stored, UNCHANGED tables
  PROVE  Facts!Stored'
BY DEF Facts!Stored, Facts!TypeOK, Facts!IdsIssuedOnce, Facts!NoOrphans, tables

LEMMA ReadKeeps ==
  ASSUME Typed, NEW r \in Slots, NEW q, RequestOK(q), reqs' = [reqs EXCEPT ![r] = q],
         UNCHANGED tables
  PROVE  Typed'
BY RequestMoves, StoredSame DEF Typed

LEMMA LiveRow ==
  ASSUME Facts!Stored, NEW s \in live
  PROVE  s \in ScheduleIds /\ rows[s] \in Rows
BY ConstantsAssumption, SameRows, Facts!LiveRow DEF Facts!Stored

\* What is read keeps its type on the way to the commit.
LEMMA ReadsTyped ==
  ASSUME Typed, NEW r \in Slots,
         \/ \E u \in Users : Arrive(r, u)
         \/ LoadEvent(r) \/ Refuse(r) \/ Admit(r) \/ AdmitRestore(r)
         \/ AdmitDuplicate(r) \/ SourceGone(r) \/ StartUpdate(r) \/ FinishUpdate(r)
         \/ CommitFails(r)
  PROVE  Typed' /\ UNCHANGED tables
<1>0. RequestOK(reqs[r]) /\ reqs = [x \in Slots |-> reqs[x]]
  BY DEF Typed, Requests
<1>1. ASSUME NEW u \in Users, NEW op \in RowOps, NEW s \in ScheduleIds, LoadRow(r, u, op, s)
      PROVE  Typed' /\ UNCHANGED tables
  <2>1. rows[s] \in Rows
    BY <1>1, LiveRow DEF LoadRow, Typed
  <2>2. RequestOK([pc |-> "event", op |-> op, user |-> u, s |-> s, row |-> rows[s]])
    BY <1>1, <2>1 DEF LoadRow, RequestOK, Pcs, RowOps
  <2> QED
    BY <1>1, <2>2, ReadKeeps DEF LoadRow
<1>2. ASSUME NEW u \in Users, NEW p \in PlanIds, LoadPlan(r, u, p)
      PROVE  Typed' /\ UNCHANGED tables
  <2>1. plans[p] \in Shapes
    BY <1>2, SameRows DEF LoadPlan, Serial!LivePlans, Typed, Facts!Stored, Facts!TypeOK
  <2>2. RequestOK([pc |-> "event", op |-> "assign", user |-> u, plan |-> p,
                   shape |-> plans[p]])
    BY <1>2, <2>1 DEF LoadPlan, RequestOK, Pcs, RowOps
  <2> QED
    BY <1>2, <2>2, ReadKeeps DEF LoadPlan
<1>3. ASSUME NEW u \in Users, NEW op \in EventOps \cup {"import"}, LoadEventFirst(r, u, op)
      PROVE  Typed' /\ UNCHANGED tables
  <2>1. RequestOK([pc |-> "query", op |-> op, user |-> u, ev |-> event])
    BY <1>3 DEF LoadEventFirst, RequestOK, Pcs, RowOps, EventOps
  <2> QED
    BY <1>3, <2>1, ReadKeeps DEF LoadEventFirst
<1>4. ASSUME LoadEvent(r)
      PROVE  Typed' /\ UNCHANGED tables
  <2>1. RequestOK(Over([pc |-> "query", ev |-> event], reqs[r]))
    BY <1>0, <1>4 DEF LoadEvent, RequestOK, Over, Pcs
  <2> QED
    BY <1>4, <2>1, ReadKeeps DEF LoadEvent
<1>5. ASSUME Refuse(r) \/ SourceGone(r) \/ CommitFails(r)
      PROVE  Typed' /\ UNCHANGED tables
  BY <1>5, ReplyMoves, StoredSame DEF Refuse, SourceGone, CommitFails, Typed
<1>6. ASSUME Admit(r)
      PROVE  Typed' /\ UNCHANGED tables
  <2> DEFINE q == [reqs[r] EXCEPT !.pc = IF reqs[r].op \in BulkOps THEN "update" ELSE "commit"]
  <2>1. reqs' = [reqs EXCEPT ![r] = q]
    BY <1>6 DEF Admit, MoveTo
  <2>2. RequestOK(q)
    BY <1>0, <1>6 DEF Admit, RequestOK, Pcs
  <2> HIDE DEF q
  <2> QED
    BY <1>6, <2>1, <2>2, ReadKeeps DEF Admit
<1>7. ASSUME AdmitRestore(r)
      PROVE  Typed' /\ UNCHANGED tables
  <2>1. PICK h \in hist[reqs[r].s] :
          reqs' = [reqs EXCEPT ![r] = Over([pc |-> "commit", content |-> h.content], @)]
    BY <1>7 DEF AdmitRestore
  <2>2. reqs[r].op = "restore" /\ reqs[r].pc = "query" /\ UNCHANGED tables
    BY <1>7 DEF AdmitRestore
  <2>3. h.content \in Contents
    BY <1>0, <2>2, SameRows
    DEF RequestOK, RowOps, Typed, Facts!Stored, Facts!TypeOK, HistoryRows
  <2>4. RequestOK(Over([pc |-> "commit", content |-> h.content], reqs[r]))
    BY <1>0, <2>2, <2>3 DEF RequestOK, Over, Pcs, BulkOps
  <2> QED
    BY <2>1, <2>2, <2>4, ReadKeeps
<1>8. ASSUME AdmitDuplicate(r)
      PROVE  Typed' /\ UNCHANGED tables
  <2> DEFINE shape == plans[reqs[r].row.plan]
  <2>1. /\ reqs[r].op = "duplicate" /\ reqs[r].pc = "query" /\ UNCHANGED tables
        /\ shape # NoShape
        /\ reqs' = [reqs EXCEPT ![r] = Over([pc |-> "commit", shape |-> shape], reqs[r])]
    BY <1>8 DEF AdmitDuplicate
  <2>2. shape \in Shapes
    BY <1>0, <2>1, SameRows DEF RequestOK, RowOps, Typed, Facts!Stored, Facts!TypeOK, Rows
  <2> HIDE DEF shape
  <2>3. RequestOK(Over([pc |-> "commit", shape |-> shape], reqs[r]))
    BY <1>0, <2>1, <2>2 DEF RequestOK, Over, Pcs, BulkOps
  <2> QED
    BY <2>1, <2>3, ReadKeeps
<1>9. ASSUME StartUpdate(r)
      PROVE  Typed' /\ UNCHANGED tables
  <2>1. live \subseteq ScheduleIds
    BY SameRows DEF Typed, Facts!Stored, Facts!TypeOK
  <2>2. RequestOK(Over([pc |-> "locking", seen |-> live], reqs[r]))
    BY <1>0, <1>9, <2>1 DEF StartUpdate, RequestOK, Over, Pcs
  <2> QED
    BY <1>9, <2>2, ReadKeeps DEF StartUpdate
<1>10. ASSUME FinishUpdate(r)
       PROVE  Typed' /\ UNCHANGED tables
  <2>1. reqs[r].seen \subseteq ScheduleIds
    BY <1>0, <1>10 DEF FinishUpdate, RequestOK
  <2>2. RequestOK(Over([pc |-> "commit", seen |-> reqs[r].seen \cap live], reqs[r]))
    BY <1>0, <1>10, <2>1 DEF FinishUpdate, RequestOK, Over, Pcs, BulkOps
  <2> QED
    BY <1>10, <2>2, ReadKeeps DEF FinishUpdate
<1> QED
  BY <1>1, <1>2, <1>3, <1>4, <1>5, <1>6, <1>7, <1>8, <1>9, <1>10 DEF Arrive

-----------------------------------------------------------------------------
\* What survives the interleaving: one transaction writes both sides of it.

OneOfficialByIndex ==
  UniqueIndex =>
    \A s, t \in live : IsOfficial(rows[s]) /\ IsOfficial(rows[t]) => s = t

\* Ids of abstract schedules are issued once.
PlansIssued == \A p \in PlanIds : plans[p] # NoShape => p < nextPlan

Consistent ==
  /\ ForkPointsAtLiveRow /\ LockMatchesLastEvent /\ OneOfficialByIndex
  /\ ScheduleHasItsPlan /\ PlansIssued

\* The commits, by what they write.  "base" is the table a commit starts from:
\* the rows as they are, or with some of them demoted.
Base(base) ==
  /\ base = [t \in ScheduleIds |-> base[t]]
  /\ \A t \in ScheduleIds : base[t] \in {rows[t], [rows[t] EXCEPT !.active = FALSE]}

LockWritten(s, row) ==
  \/ row.lockedBy = rows[s].lockedBy /\ UNCHANGED locklog
  \/ \E u \in Users : Serial!RecordLockEvent(s, "lock", u) /\ row.lockedBy = u
  \/ \E u \in Users : Serial!RecordLockEvent(s, "unlock", u) /\ row.lockedBy = NoUser

OfficialWritten(s, row) ==
  \/ row.officialBy \in {rows[s].officialBy, NoUser}
  \/ UniqueIndex => OfficialNow \subseteq {s}

HistoryWritten(s) ==
  \/ UNCHANGED hist
  \/ \E action \in HistoryActions, old \in Rows :
       hist' = [hist EXCEPT ![s] = @ \cup {Snapshot(action, old)}]

PlanWritten(s, row) == row.plan = rows[s].plan \/ plans'[row.plan] # NoShape

PlansWritten ==
  \/ UNCHANGED <<plans, nextPlan>>
  \/ \E shape \in Shapes : Serial!AddPlan(shape)

RowStep(base, s, row) ==
  /\ s \in live /\ row \in Rows /\ Base(base)
  /\ rows' = [base EXCEPT ![s] = row]
  /\ row.forkedFrom = rows[s].forkedFrom
  /\ LockWritten(s, row) /\ OfficialWritten(s, row) /\ HistoryWritten(s)
  /\ PlanWritten(s, row) /\ PlansWritten /\ actor' \in Users
  /\ UNCHANGED <<live, event, nextId, freezes>>

InsertStep(base, row) ==
  /\ row \in Rows /\ Base(base)
  /\ row.lockedBy = NoUser /\ row.officialBy = NoUser
  /\ row.forkedFrom \in live \cup {NoSchedule}
  /\ plans'[row.plan] # NoShape
  /\ Serial!Insert(base, row)
  /\ PlansWritten /\ actor' \in Users

RemoveStep(D) ==
  /\ D \subseteq ScheduleIds
  /\ Serial!Remove(D)
  /\ \/ UNCHANGED plans
     \/ \E p \in PlanIds : /\ plans' = [plans EXCEPT ![p] = NoShape]
                          /\ {s \in live : rows[s].plan = p} \subseteq D
  /\ actor' \in Actors
  /\ UNCHANGED <<event, nextId, nextPlan, freezes>>

LEMMA BaseType ==
  ASSUME Facts!Stored, NEW base, Base(base)
  PROVE  /\ base \in [ScheduleIds -> Rows \cup {Facts!BlankRow}]
         /\ \A t \in ScheduleIds : t \in live <=> base[t] # Facts!BlankRow
<1>1. \A row \in Rows : [row EXCEPT !.active = FALSE] \in Rows /\ row # Facts!BlankRow
  BY ConstantsAssumption, SameRows, Facts!ColumnTypes, Facts!RowNotBlank
<1>2. [Facts!BlankRow EXCEPT !.active = FALSE] = Facts!BlankRow
  BY ConstantsAssumption, Facts!BlankCleared
<1>3. ASSUME NEW t \in ScheduleIds
      PROVE  /\ base[t] \in Rows \cup {Facts!BlankRow}
             /\ t \in live <=> base[t] # Facts!BlankRow
  <2>1. rows[t] \in Rows \cup {Facts!BlankRow} /\ (t \in live <=> rows[t] # Facts!BlankRow)
    BY <1>3, SameRows DEF Facts!Stored, Facts!TypeOK
  <2>2. CASE base[t] = rows[t]
    BY <2>1, <2>2
  <2>3. CASE base[t] = [rows[t] EXCEPT !.active = FALSE]
    <3>1. CASE rows[t] = Facts!BlankRow
      BY <1>2, <2>1, <2>3, <3>1
    <3>2. CASE rows[t] \in Rows
      BY <1>1, <2>1, <2>3, <3>2
    <3> QED
      BY <2>1, <3>1, <3>2
  <2> QED
    BY <1>3, <2>2, <2>3 DEF Base
<1> QED
  BY <1>3 DEF Base

\* Nothing but the active flag differs.
LEMMA BaseRow ==
  ASSUME Facts!Stored, NEW base, Base(base), NEW t \in live
  PROVE  /\ base[t] \in Rows
         /\ base[t].lockedBy = rows[t].lockedBy
         /\ base[t].officialBy = rows[t].officialBy
         /\ base[t].forkedFrom = rows[t].forkedFrom
         /\ base[t].plan = rows[t].plan
<1>1. t \in ScheduleIds /\ rows[t] \in Rows
  BY LiveRow
<1>2. base[t] \in {rows[t], [rows[t] EXCEPT !.active = FALSE]}
  BY <1>1 DEF Base
<1> QED
  BY <1>1, <1>2 DEF Rows

LEMMA RowsBase == ASSUME Facts!Stored PROVE Base(rows)
BY SameRows DEF Base, Facts!Stored, Facts!TypeOK

LEMMA DemotedBase == ASSUME NEW r \in Slots PROVE Base(Demoted(r))
BY DEF Base, Demoted

LEMMA PlansType ==
  ASSUME Facts!Stored, PlansWritten
  PROVE  plans' \in [PlanIds -> Shapes \cup {NoShape}] /\ nextPlan' \in 1 .. MaxPlans + 1
<1>1. CASE UNCHANGED <<plans, nextPlan>>
  BY <1>1, SameRows DEF Facts!Stored, Facts!TypeOK
<1>2. ASSUME NEW shape \in Shapes, Serial!AddPlan(shape)
      PROVE  plans' \in [PlanIds -> Shapes \cup {NoShape}] /\ nextPlan' \in 1 .. MaxPlans + 1
  <2>1. Facts!AddPlan(shape) /\ Facts!TypeOK /\ shape \in Shapes \cup {NoShape}
    BY <1>2, SameWrites DEF Facts!Stored
  <2> QED
    BY <2>1, ConstantsAssumption, SameRows, Facts!AddPlanType
<1> QED
  BY <1>1, <1>2 DEF PlansWritten

\* Abstract schedules that are there stay, unless they are deleted.
LEMMA PlansGrow ==
  ASSUME Facts!Stored, PlansIssued, PlansWritten
  PROVE  /\ PlansIssued'
         /\ \A p \in PlanIds : plans[p] # NoShape => plans'[p] # NoShape
<1>0. plans = [p \in PlanIds |-> plans[p]] /\ nextPlan \in Nat /\ PlanIds \subseteq Nat
  BY SameRows DEF Facts!Stored, Facts!TypeOK, PlanIds
<1>1. CASE UNCHANGED <<plans, nextPlan>>
  BY <1>1 DEF PlansIssued
<1>2. ASSUME NEW shape \in Shapes, Serial!AddPlan(shape)
      PROVE  /\ PlansIssued'
             /\ \A p \in PlanIds : plans[p] # NoShape => plans'[p] # NoShape
  <2>1. plans' = [plans EXCEPT ![nextPlan] = shape] /\ nextPlan' = nextPlan + 1
    BY <1>2 DEF Serial!AddPlan
  <2> QED
    BY <1>0, <2>1, ConstantsAssumption DEF PlansIssued
<1> QED
  BY <1>1, <1>2 DEF PlansWritten

LEMMA LockLogType ==
  ASSUME Facts!Stored, NEW s \in live, NEW row, LockWritten(s, row)
  PROVE  /\ locklog' \in [ScheduleIds -> Seq(LockEvents)]
         /\ \A t \in ScheduleIds \ {s} : locklog'[t] = locklog[t]
<1>0. s \in ScheduleIds /\ locklog \in [ScheduleIds -> Seq(LockEvents)]
  BY LiveRow, SameRows DEF Facts!Stored, Facts!TypeOK
<1>1. ASSUME NEW action \in {"lock", "unlock"}, NEW u \in Users,
             Serial!RecordLockEvent(s, action, u)
      PROVE  /\ locklog' \in [ScheduleIds -> Seq(LockEvents)]
             /\ \A t \in ScheduleIds \ {s} : locklog'[t] = locklog[t]
  <2>1. Facts!RecordLockEvent(s, action, u) /\ Facts!TypeOK
    BY <1>1, SameWrites DEF Facts!Stored
  <2>2. locklog' \in [ScheduleIds -> Seq(LockEvents)]
    BY <1>0, <2>1, ConstantsAssumption, SameRows, Facts!RecordLockEventType
  <2> QED
    BY <1>0, <2>1, <2>2 DEF Facts!RecordLockEvent
<1> QED
  BY <1>0, <1>1 DEF LockWritten

LEMMA RowStepStored ==
  ASSUME Facts!Stored, NEW base, NEW s, NEW row, RowStep(base, s, row)
  PROVE  Facts!Stored'
<1>0. s \in live /\ s \in ScheduleIds /\ live \subseteq ScheduleIds
  BY LiveRow, SameRows DEF RowStep, Facts!Stored, Facts!TypeOK
<1>1. /\ rows' \in [ScheduleIds -> Rows \cup {Facts!BlankRow}]
      /\ \A t \in ScheduleIds : t \in live' <=> rows'[t] # Facts!BlankRow
  BY <1>0, BaseType, ConstantsAssumption, SameRows, Facts!RowNotBlank DEF RowStep
<1>2. /\ hist' \in [ScheduleIds -> SUBSET HistoryRows]
      /\ \A t \in ScheduleIds \ {s} : hist'[t] = hist[t]
  <2>1. hist \in [ScheduleIds -> SUBSET HistoryRows]
    BY SameRows DEF Facts!Stored, Facts!TypeOK
  <2>2. ASSUME NEW action \in HistoryActions, NEW old \in Rows
        PROVE  Snapshot(action, old) \in HistoryRows
    BY DEF Snapshot, HistoryRows, Rows
  <2> QED
    BY <1>0, <2>1, <2>2 DEF RowStep, HistoryWritten
<1>3. /\ locklog' \in [ScheduleIds -> Seq(LockEvents)]
      /\ \A t \in ScheduleIds \ {s} : locklog'[t] = locklog[t]
  BY <1>0, LockLogType DEF RowStep
<1>4. plans' \in [PlanIds -> Shapes \cup {NoShape}] /\ nextPlan' \in 1 .. MaxPlans + 1
  BY PlansType DEF RowStep
<1>5. Facts!TypeOK'
  BY <1>0, <1>1, <1>2, <1>3, <1>4, SameRows
  DEF RowStep, Facts!Stored, Facts!TypeOK, Actors
<1>6. Facts!IdsIssuedOnce' /\ Facts!NoOrphans'
  BY <1>0, <1>2, <1>3, SameRows
  DEF RowStep, Facts!Stored, Facts!IdsIssuedOnce, Facts!NoOrphans
<1> QED
  BY <1>5, <1>6 DEF Facts!Stored

LEMMA LastAppended ==
  ASSUME NEW S, NEW log \in Seq(S), NEW e \in S
  PROVE  LET longer == Append(log, e) IN longer # <<>> /\ longer[Len(longer)] = e
<1>1. Len(Append(log, e)) = Len(log) + 1 /\ Append(log, e)[Len(log) + 1] = e
  OBVIOUS
<1>2. Len(log) + 1 # 0 /\ Len(<<>>) = 0
  OBVIOUS
<1> QED
  BY <1>1, <1>2

LEMMA RowStepConsistent ==
  ASSUME Facts!Stored, Consistent, NEW base, NEW s, NEW row, RowStep(base, s, row)
  PROVE  Consistent'
<1>0. s \in live /\ s \in ScheduleIds /\ live \subseteq ScheduleIds /\ live' = live
  BY LiveRow, SameRows DEF RowStep, Facts!Stored, Facts!TypeOK
<1>1. rows'[s] = row
  BY <1>0 DEF RowStep, Base
<1>2. ASSUME NEW t \in live \ {s}
      PROVE  /\ rows'[t].lockedBy = rows[t].lockedBy
             /\ rows'[t].officialBy = rows[t].officialBy
             /\ rows'[t].forkedFrom = rows[t].forkedFrom
             /\ locklog'[t] = locklog[t]
  <2>1. rows'[t] = base[t]
    BY <1>0 DEF RowStep, Base
  <2> QED
    BY <1>0, <2>1, BaseRow, LockLogType DEF RowStep
<1>3. ForkPointsAtLiveRow'
  BY <1>0, <1>1, <1>2 DEF Consistent, ForkPointsAtLiveRow, RowStep
<1>4. LockMatchesLastEvent'
  <2>1. locklog[s] \in Seq(LockEvents) /\ locklog = [t \in ScheduleIds |-> locklog[t]]
    BY <1>0, SameRows DEF Facts!Stored, Facts!TypeOK
  <2>2. CASE row.lockedBy = rows[s].lockedBy /\ UNCHANGED locklog
    BY <1>0, <1>1, <1>2, <2>2 DEF Consistent, LockMatchesLastEvent
  <2>3. ASSUME NEW u \in Users, NEW action \in {"lock", "unlock"},
               Serial!RecordLockEvent(s, action, u),
               row.lockedBy = IF action = "lock" THEN u ELSE NoUser
        PROVE  LockMatchesLastEvent'
    <3>1. locklog'[s] = Append(locklog[s], LockEvent(action, u))
      BY <1>0, <2>1, <2>3 DEF Serial!RecordLockEvent, Serial!LockEvent, LockEvent
    <3>2. LockEvent(action, u) \in LockEvents
      BY DEF LockEvent, LockEvents
    <3>3. /\ locklog'[s] # <<>>
          /\ locklog'[s][Len(locklog'[s])] = LockEvent(action, u)
      BY <2>1, <3>1, <3>2, LastAppended
    <3>4. rows'[s].lockedBy =
            IF locklog'[s] # <<>> /\ locklog'[s][Len(locklog'[s])].action = "lock"
            THEN locklog'[s][Len(locklog'[s])].user ELSE NoUser
      BY <1>1, <2>3, <3>3 DEF LockEvent
    <3> QED
      BY <1>0, <1>2, <3>4 DEF Consistent, LockMatchesLastEvent
  <2> QED
    BY <2>2, <2>3 DEF RowStep, LockWritten
<1>5. OneOfficialByIndex'
  BY <1>0, <1>1, <1>2
  DEF Consistent, OneOfficialByIndex, IsOfficial, RowStep, OfficialWritten, OfficialNow
<1>6. PlansIssued' /\ \A p \in PlanIds : plans[p] # NoShape => plans'[p] # NoShape
  BY PlansGrow DEF Consistent, RowStep
<1>7. ScheduleHasItsPlan'
  <2>1. \A t \in live : rows[t].plan \in PlanIds
    BY LiveRow DEF Rows
  <2>2. \A t \in live \ {s} : rows'[t].plan = rows[t].plan
    <3>1. ASSUME NEW t \in live \ {s} PROVE rows'[t] = base[t]
      BY <1>0 DEF RowStep, Base
    <3> QED
      BY <3>1, BaseRow DEF RowStep
  <2> QED
    BY <1>0, <1>1, <1>6, <2>1, <2>2 DEF Consistent, ScheduleHasItsPlan, RowStep, PlanWritten
<1> QED
  BY <1>3, <1>4, <1>5, <1>6, <1>7 DEF Consistent

LEMMA InsertStepStored ==
  ASSUME Facts!Stored, NEW base, NEW row, InsertStep(base, row)
  PROVE  Facts!Stored' /\ nextId \in ScheduleIds \ live
<1>1. Facts!Insert(base, row) /\ Facts!TypeOK
  BY SameWrites DEF InsertStep, Facts!Stored
<1>2. /\ base \in [ScheduleIds -> Rows \cup {Facts!BlankRow}]
      /\ \A t \in ScheduleIds : t \in live <=> base[t] # Facts!BlankRow
  BY BaseType DEF InsertStep
<1>3. /\ live' \subseteq ScheduleIds
      /\ rows' \in [ScheduleIds -> Rows \cup {Facts!BlankRow}]
      /\ \A s \in ScheduleIds : s \in live' <=> rows'[s] # Facts!BlankRow
      /\ hist' \in [ScheduleIds -> SUBSET HistoryRows]
      /\ locklog' \in [ScheduleIds -> Seq(LockEvents)]
      /\ event' \in EventRows
      /\ nextId' \in 1 .. MaxSchedules + 1
      /\ freezes' \in 0 .. MaxFreezes
  BY <1>1, <1>2, ConstantsAssumption, SameRows, Facts!InsertType DEF InsertStep
<1>4. plans' \in [PlanIds -> Shapes \cup {NoShape}] /\ nextPlan' \in 1 .. MaxPlans + 1
  BY PlansType DEF InsertStep
<1>5. Facts!TypeOK'
  BY <1>3, <1>4, SameRows DEF InsertStep, Facts!TypeOK, Actors
<1>6. nextId \notin live /\ Facts!IdsIssuedOnce' /\ Facts!NoOrphans'
  BY <1>1, ConstantsAssumption, Facts!InsertStored
<1> QED
  BY <1>1, <1>5, <1>6, SameRows DEF Facts!Stored, Facts!Insert

LEMMA InsertStepConsistent ==
  ASSUME Facts!Stored, Consistent, NEW base, NEW row, InsertStep(base, row)
  PROVE  Consistent'
<1>1. PICK n \in ScheduleIds \ live : n = nextId
  BY InsertStepStored
<1>2. /\ live' = live \cup {n}
      /\ rows' = [base EXCEPT ![n] = row]
      /\ locklog' = locklog
  BY <1>1 DEF InsertStep, Serial!Insert
<1>3. rows'[n] = row /\ locklog'[n] = <<>>
  BY <1>1, <1>2, SameRows DEF InsertStep, Base, Facts!Stored, Facts!NoOrphans
<1>4. ASSUME NEW t \in live
      PROVE  /\ rows'[t].lockedBy = rows[t].lockedBy
             /\ rows'[t].officialBy = rows[t].officialBy
             /\ rows'[t].forkedFrom = rows[t].forkedFrom
             /\ rows'[t].plan = rows[t].plan
  <2>1. rows'[t] = base[t]
    BY <1>1, <1>2, LiveRow DEF InsertStep, Base
  <2> QED
    BY <2>1, BaseRow DEF InsertStep
<1>5. ForkPointsAtLiveRow'
  BY <1>2, <1>3, <1>4 DEF Consistent, ForkPointsAtLiveRow, InsertStep
<1>6. LockMatchesLastEvent'
  BY <1>2, <1>3, <1>4 DEF Consistent, LockMatchesLastEvent, InsertStep
<1>7. OneOfficialByIndex'
  BY <1>2, <1>3, <1>4 DEF Consistent, OneOfficialByIndex, IsOfficial, InsertStep
<1>8. PlansIssued' /\ ScheduleHasItsPlan'
  <2>1. \A t \in live : rows[t].plan \in PlanIds
    BY LiveRow DEF Rows
  <2> QED
    BY <1>2, <1>3, <1>4, <2>1, PlansGrow DEF Consistent, ScheduleHasItsPlan, InsertStep
<1> QED
  BY <1>5, <1>6, <1>7, <1>8 DEF Consistent

LEMMA RemoveStepStored ==
  ASSUME Facts!Stored, NEW D, RemoveStep(D)
  PROVE  Facts!Stored'
<1>1. Facts!Remove(D) /\ Facts!TypeOK /\ D \subseteq Facts!ScheduleIds /\ nextId' = nextId
  BY SameWrites, SameRows DEF RemoveStep, Facts!Stored
<1>2. /\ live' \subseteq ScheduleIds
      /\ rows' \in [ScheduleIds -> Rows \cup {Facts!BlankRow}]
      /\ \A t \in ScheduleIds : t \in live' <=> rows'[t] # Facts!BlankRow
      /\ hist' \in [ScheduleIds -> SUBSET HistoryRows]
      /\ locklog' \in [ScheduleIds -> Seq(LockEvents)]
  BY <1>1, ConstantsAssumption, SameRows, Facts!RemoveType
<1>3. plans' \in [PlanIds -> Shapes \cup {NoShape}]
  BY SameRows DEF RemoveStep, Facts!Stored, Facts!TypeOK
<1>4. Facts!TypeOK'
  BY <1>2, <1>3, SameRows DEF RemoveStep, Facts!Stored, Facts!TypeOK
<1>5. Facts!IdsIssuedOnce' /\ Facts!NoOrphans'
  BY <1>1, ConstantsAssumption, Facts!RemoveStored
<1> QED
  BY <1>4, <1>5 DEF Facts!Stored

LEMMA RemoveStepConsistent ==
  ASSUME Facts!Stored, Consistent, NEW D, RemoveStep(D)
  PROVE  Consistent'
<1>1. live' = live \ D
  BY DEF RemoveStep, Serial!Remove
<1>2. ASSUME NEW t \in live'
      PROVE  /\ t \in live
             /\ rows'[t].lockedBy = rows[t].lockedBy
             /\ rows'[t].officialBy = rows[t].officialBy
             /\ rows'[t].forkedFrom =
                  IF rows[t].forkedFrom \in D THEN NoSchedule ELSE rows[t].forkedFrom
             /\ locklog'[t] = locklog[t]
             /\ rows'[t].plan = rows[t].plan
  <2>1. t \in live /\ t \in ScheduleIds \ D /\ rows[t] \in Rows
    BY <1>1, LiveRow
  <2>2. /\ rows'[t] = [rows[t] EXCEPT !.forkedFrom =
                          IF @ \in D THEN NoSchedule ELSE @]
        /\ locklog'[t] = locklog[t]
    BY <2>1 DEF RemoveStep, Serial!Remove, Serial!ScheduleIds, ScheduleIds,
                Serial!NoSchedule, NoSchedule
  <2> QED
    BY <2>1, <2>2 DEF Rows
<1>3. ForkPointsAtLiveRow'
  BY <1>1, <1>2 DEF Consistent, ForkPointsAtLiveRow
<1>4. LockMatchesLastEvent'
  BY <1>1, <1>2 DEF Consistent, LockMatchesLastEvent
<1>5. OneOfficialByIndex'
  BY <1>1, <1>2 DEF Consistent, OneOfficialByIndex, IsOfficial
<1>6. PlansIssued' /\ ScheduleHasItsPlan'
  <2>1. plans = [p \in PlanIds |-> plans[p]] /\ \A t \in live : rows[t].plan \in PlanIds
    BY LiveRow, SameRows DEF Rows, Facts!Stored, Facts!TypeOK
  <2> QED
    BY <1>1, <1>2, <2>1 DEF Consistent, PlansIssued, ScheduleHasItsPlan, RemoveStep
<1> QED
  BY <1>3, <1>4, <1>5, <1>6 DEF Consistent

LEMMA EventStepKeeps ==
  ASSUME Facts!Stored, Consistent,
         UNCHANGED <<rows, live, hist, locklog, nextId>>, PlansWritten,
         event' \in EventRows, freezes' \in 0 .. MaxFreezes, actor' \in Users
  PROVE  Facts!Stored' /\ Consistent'
<1>1. plans' \in [PlanIds -> Shapes \cup {NoShape}] /\ nextPlan' \in 1 .. MaxPlans + 1
  BY PlansType
<1>2. Facts!Stored'
  BY <1>1, SameRows DEF Facts!Stored, Facts!TypeOK, Facts!IdsIssuedOnce,
    Facts!NoOrphans, Actors
<1>3. PlansIssued' /\ ScheduleHasItsPlan'
  <2>1. \A t \in live : rows[t].plan \in PlanIds
    BY LiveRow DEF Rows
  <2> QED
    BY <2>1, PlansGrow DEF Consistent, ScheduleHasItsPlan
<1>4. Consistent'
  BY <1>3 DEF Consistent, ForkPointsAtLiveRow, LockMatchesLastEvent, OneOfficialByIndex
<1> QED
  BY <1>2, <1>4

-----------------------------------------------------------------------------
\* Each commit is one of these writes.

LEMMA AddedPlan ==
  ASSUME Typed, NEW shape \in Shapes, Serial!AddPlan(shape)
  PROVE  plans'[nextPlan] # NoShape
BY ConstantsAssumption, SameRows
DEF Serial!AddPlan, Serial!PlanIds, PlanIds, Typed, Facts!Stored, Facts!TypeOK

LEMMA PatchCommit ==
  ASSUME Typed, NEW r \in Slots, CommitPatch(r) \/ CommitRestore(r) \/ CommitReplace(r)
  PROVE  \E row : RowStep(rows, reqs[r].s, row)
<1> DEFINE s == reqs[r].s
<1>0. /\ s \in live /\ s \in ScheduleIds /\ rows[s] \in Rows
      /\ rows = [t \in ScheduleIds |-> rows[t]] /\ Base(rows)
      /\ reqs[r].user \in Users /\ reqs[r].row \in Rows
      /\ actor' = reqs[r].user
  BY LiveRow, SameRows, RowsBase
  DEF Typed, Facts!Stored, Facts!TypeOK, Requests, RequestOK, RowOps,
      CommitPatch, CommitRestore, CommitReplace, CommitsRow, Commits
<1>1. HistoryWritten(s)
  BY <1>0
  DEF CommitPatch, CommitRestore, CommitReplace, SaveHistory, HistoryWritten, HistoryActions
<1>2. ASSUME NEW day \in Days, rows' = [rows EXCEPT ![s].content.day = day],
             CommitPatch(r)
      PROVE  RowStep(rows, s, [rows[s] EXCEPT !.content.day = day])
  <2>1. [rows[s] EXCEPT !.content.day = day] \in Rows
    BY <1>0, ConstantsAssumption, SameRows, Facts!ColumnTypes
  <2>2. /\ [rows[s] EXCEPT !.content.day = day].forkedFrom = rows[s].forkedFrom
        /\ [rows[s] EXCEPT !.content.day = day].lockedBy = rows[s].lockedBy
        /\ [rows[s] EXCEPT !.content.day = day].officialBy = rows[s].officialBy
        /\ [rows[s] EXCEPT !.content.day = day].plan = rows[s].plan
    BY <1>0 DEF Rows
  <2>3. rows' = [rows EXCEPT ![s] = [rows[s] EXCEPT !.content.day = day]]
    BY <1>0, <1>2
  <2> QED
    BY <1>0, <1>1, <1>2, <2>1, <2>2, <2>3
    DEF RowStep, LockWritten, OfficialWritten, PlanWritten, PlansWritten, CommitPatch
<1>3. ASSUME CommitRestore(r)
      PROVE  RowStep(rows, s, [rows[s] EXCEPT !.content = reqs[r].content])
  <2>0. reqs[r].content \in Contents
    BY <1>3 DEF CommitRestore, CommitsRow, Commits, Typed, Requests, RequestOK
  <2>1. [rows[s] EXCEPT !.content = reqs[r].content] \in Rows
    BY <1>0, <2>0, ConstantsAssumption, SameRows, Facts!ColumnTypes
  <2>2. /\ [rows[s] EXCEPT !.content = reqs[r].content].forkedFrom = rows[s].forkedFrom
        /\ [rows[s] EXCEPT !.content = reqs[r].content].lockedBy = rows[s].lockedBy
        /\ [rows[s] EXCEPT !.content = reqs[r].content].officialBy = rows[s].officialBy
        /\ [rows[s] EXCEPT !.content = reqs[r].content].plan = rows[s].plan
    BY <1>0 DEF Rows
  <2>3. rows' = [rows EXCEPT ![s] = [rows[s] EXCEPT !.content = reqs[r].content]]
    BY <1>0, <1>3 DEF CommitRestore
  <2> QED
    BY <1>0, <1>1, <1>3, <2>1, <2>2, <2>3
    DEF RowStep, LockWritten, OfficialWritten, PlanWritten, PlansWritten, CommitRestore
<1>4. ASSUME NEW content \in Contents, Serial!AddPlan(content.slots),
             rows' = [rows EXCEPT ![s].plan = nextPlan, ![s].content = content],
             CommitReplace(r)
      PROVE  RowStep(rows, s, [rows[s] EXCEPT !.plan = nextPlan, !.content = content])
  <2>0. nextPlan \in PlanIds /\ content.slots \in Shapes
    BY <1>4 DEF Serial!AddPlan, Serial!PlanIds, PlanIds, Contents
  <2>1. [rows[s] EXCEPT !.plan = nextPlan, !.content = content] \in Rows
    BY <1>0, <2>0, ConstantsAssumption, SameRows, Facts!ColumnTypes
  <2>2. LET row == [rows[s] EXCEPT !.plan = nextPlan, !.content = content] IN
        /\ row.forkedFrom = rows[s].forkedFrom
        /\ row.lockedBy = rows[s].lockedBy
        /\ row.officialBy = rows[s].officialBy
        /\ row.plan = nextPlan
    BY <1>0 DEF Rows
  <2>3. rows' = [rows EXCEPT ![s] = [rows[s] EXCEPT !.plan = nextPlan, !.content = content]]
    BY <1>0, <1>4
  <2>4. PlansWritten /\ plans'[nextPlan] # NoShape
    BY <1>4, <2>0, AddedPlan DEF PlansWritten
  <2> QED
    BY <1>0, <1>1, <1>4, <2>1, <2>2, <2>3, <2>4
    DEF RowStep, LockWritten, OfficialWritten, PlanWritten, CommitReplace
<1>5. CASE CommitPatch(r)
  BY <1>2, <1>5 DEF CommitPatch
<1>6. CASE CommitRestore(r)
  BY <1>3, <1>6
<1>7. CASE CommitReplace(r)
  BY <1>4, <1>7 DEF CommitReplace
<1> QED
  BY <1>5, <1>6, <1>7

LEMMA LockCommit ==
  ASSUME Typed, NEW r \in Slots, CommitLock(r) \/ CommitUnlock(r) \/ CommitUnmark(r)
  PROVE  \E row : RowStep(rows, reqs[r].s, row)
<1> DEFINE s == reqs[r].s
<1>0. /\ s \in live /\ s \in ScheduleIds /\ rows[s] \in Rows
      /\ rows = [t \in ScheduleIds |-> rows[t]] /\ Base(rows)
      /\ reqs[r].user \in Users /\ reqs[r].user \in Actors /\ NoUser \in Actors
      /\ actor' = reqs[r].user
  BY LiveRow, SameRows, RowsBase
  DEF Typed, Facts!Stored, Facts!TypeOK, Requests, RequestOK, RowOps, Actors,
      CommitLock, CommitUnlock, CommitUnmark, CommitsRow, Commits
<1>1. ASSUME NEW u \in Actors
      PROVE  /\ [rows[s] EXCEPT !.lockedBy = u] \in Rows
             /\ [rows[s] EXCEPT !.lockedBy = u].lockedBy = u
             /\ [rows[s] EXCEPT !.lockedBy = u].officialBy = rows[s].officialBy
             /\ [rows[s] EXCEPT !.lockedBy = u].forkedFrom = rows[s].forkedFrom
             /\ [rows[s] EXCEPT !.lockedBy = u].plan = rows[s].plan
  BY <1>0 DEF Rows
<1>2. /\ [rows[s] EXCEPT !.officialBy = NoUser] \in Rows
      /\ [rows[s] EXCEPT !.officialBy = NoUser].lockedBy = rows[s].lockedBy
      /\ [rows[s] EXCEPT !.officialBy = NoUser].officialBy = NoUser
      /\ [rows[s] EXCEPT !.officialBy = NoUser].forkedFrom = rows[s].forkedFrom
      /\ [rows[s] EXCEPT !.officialBy = NoUser].plan = rows[s].plan
  BY <1>0 DEF Rows
<1>3. CASE CommitLock(r)
  <2>1. rows' = [rows EXCEPT ![s] = [rows[s] EXCEPT !.lockedBy = reqs[r].user]]
    BY <1>0, <1>3 DEF CommitLock
  <2>2. RowStep(rows, s, [rows[s] EXCEPT !.lockedBy = reqs[r].user])
    BY <1>0, <1>1, <1>3, <2>1
    DEF CommitLock, RowStep, LockWritten, OfficialWritten, HistoryWritten,
      PlanWritten, PlansWritten
  <2> QED
    BY <2>2
<1>4. CASE CommitUnlock(r)
  <2>1. rows' = [rows EXCEPT ![s] = [rows[s] EXCEPT !.lockedBy = NoUser]]
    BY <1>0, <1>4 DEF CommitUnlock
  <2>2. RowStep(rows, s, [rows[s] EXCEPT !.lockedBy = NoUser])
    BY <1>0, <1>1, <1>4, <2>1
    DEF CommitUnlock, RowStep, LockWritten, OfficialWritten, HistoryWritten,
      PlanWritten, PlansWritten
  <2> QED
    BY <2>2
<1>5. CASE CommitUnmark(r)
  <2>1. rows' = [rows EXCEPT ![s] = [rows[s] EXCEPT !.officialBy = NoUser]]
    BY <1>0, <1>5 DEF CommitUnmark
  <2>2. RowStep(rows, s, [rows[s] EXCEPT !.officialBy = NoUser])
    BY <1>0, <1>2, <1>5, <2>1
    DEF CommitUnmark, RowStep, LockWritten, OfficialWritten, HistoryWritten,
      PlanWritten, PlansWritten
  <2> QED
    BY <2>2
<1> QED
  BY <1>3, <1>4, <1>5

LEMMA MarkCommit ==
  ASSUME Typed, NEW r \in Slots, CommitMark(r)
  PROVE  \E row : RowStep(rows, reqs[r].s, row)
<1> DEFINE q == reqs[r]
           s == q.s
           holder == IF IsLocked(q.row) THEN rows[s].lockedBy ELSE q.user
           row == [rows[s] EXCEPT !.officialBy = q.user, !.lockedBy = holder]
<1>0. /\ s \in live /\ s \in ScheduleIds /\ rows[s] \in Rows
      /\ rows = [t \in ScheduleIds |-> rows[t]] /\ Base(rows)
      /\ q.user \in Users /\ q.user \in Actors /\ q.row \in Rows
      /\ actor' = q.user
  BY LiveRow, SameRows, RowsBase
  DEF Typed, Facts!Stored, Facts!TypeOK, Requests, RequestOK, RowOps, Actors,
      CommitMark, CommitsRow, Commits
<1>1. holder \in Actors
  BY <1>0 DEF Rows
<1>2. rows' = [rows EXCEPT ![s] = row]
  BY <1>0 DEF CommitMark
<1>3. OfficialWritten(s, row)
  BY DEF CommitMark, IndexAdmits, OfficialWritten
<1>4. HistoryWritten(s)
  BY <1>0 DEF CommitMark, SaveHistory, HistoryWritten, HistoryActions
<1>5. /\ s \in live
      /\ AutoLockEvent(q)
      /\ UNCHANGED <<live, plans, event, nextId, nextPlan, freezes>>
  BY <1>0 DEF CommitMark
<1> HIDE DEF holder
<1>6. /\ row \in Rows /\ row.forkedFrom = rows[s].forkedFrom /\ row.lockedBy = holder
      /\ row.plan = rows[s].plan
  BY <1>0, <1>1 DEF Rows
<1>7. LockWritten(s, row)
  BY <1>0, <1>5, <1>6 DEF LockWritten, AutoLockEvent, holder
<1> HIDE DEF row
<1>8. RowStep(rows, s, row)
  BY <1>0, <1>2, <1>3, <1>4, <1>5, <1>6, <1>7 DEF RowStep, PlanWritten, PlansWritten
<1> QED
  BY <1>8

LEMMA ActivateCommit ==
  ASSUME Typed, NEW r \in Slots, CommitActivate(r)
  PROVE  \E row : RowStep(Demoted(r), reqs[r].s, row)
<1> DEFINE s == reqs[r].s
           base == Demoted(r)
           row == [base[s] EXCEPT !.active = TRUE]
<1>0. /\ s \in live /\ s \in ScheduleIds /\ Base(base)
      /\ base = [t \in ScheduleIds |-> base[t]]
      /\ reqs[r].user \in Users /\ actor' = reqs[r].user
  BY LiveRow, DemotedBase, SameRows
  DEF Typed, Facts!Stored, Facts!TypeOK, Requests, RequestOK, RowOps,
      CommitActivate, CommitsRow, Commits, Base
<1>1. /\ base[s] \in Rows
      /\ base[s].lockedBy = rows[s].lockedBy
      /\ base[s].officialBy = rows[s].officialBy
      /\ base[s].forkedFrom = rows[s].forkedFrom
      /\ base[s].plan = rows[s].plan
  BY <1>0, BaseRow DEF Typed
<1>2. /\ rows' = [base EXCEPT ![s].active = TRUE]
      /\ UNCHANGED <<live, hist, locklog, plans, event, nextId, nextPlan, freezes>>
  BY DEF CommitActivate
<1> HIDE DEF base
<1>3. /\ row \in Rows
      /\ row.lockedBy = rows[s].lockedBy
      /\ row.officialBy = rows[s].officialBy
      /\ row.forkedFrom = rows[s].forkedFrom
      /\ row.plan = rows[s].plan
  BY <1>1 DEF Rows
<1>4. rows' = [base EXCEPT ![s] = row]
  BY <1>0, <1>2
<1> HIDE DEF row
<1>5. RowStep(base, s, row)
  BY <1>0, <1>2, <1>3, <1>4
  DEF RowStep, LockWritten, OfficialWritten, HistoryWritten, PlanWritten, PlansWritten
<1> QED
  BY <1>5 DEF base

\* What an inserting commit inserts.
LEMMA NewRowIs ==
  ASSUME Typed, NEW p \in PlanIds, NEW c \in Contents, NEW u \in Users, NEW on \in BOOLEAN,
         NEW parent \in live \cup {NoSchedule}
  PROVE  LET row == Serial!NewRow(p, c, u, on, parent) IN
         /\ row \in Rows
         /\ row.lockedBy = NoUser /\ row.officialBy = NoUser
         /\ row.forkedFrom \in live \cup {NoSchedule}
<1>1. freezes \in Nat /\ live \subseteq ScheduleIds
  BY ConstantsAssumption, SameRows DEF Typed, Facts!Stored, Facts!TypeOK
<1> QED
  BY <1>1 DEF Serial!NewRow, Rows, Actors

LEMMA InsertCommit ==
  ASSUME Typed, NEW r \in Slots, CommitDuplicate(r) \/ CommitAssign(r) \/ CommitImport(r)
  PROVE  \E base, row : InsertStep(base, row)
<1> DEFINE q == reqs[r]
<1>0. /\ q.user \in Users /\ actor' = q.user
      /\ Base(rows) /\ Base(Demoted(r)) /\ NoSchedule \in live \cup {NoSchedule}
      /\ q.op = "duplicate" => q.s \in ScheduleIds /\ q.row \in Rows /\ q.shape \in Shapes
      /\ q.op = "assign" => q.plan \in PlanIds /\ q.shape \in Shapes
  BY RowsBase, DemotedBase
  DEF Typed, Requests, RequestOK, RowOps, CommitDuplicate, CommitAssign, CommitImport, Commits
<1>1. CASE CommitDuplicate(r)
  <2> DEFINE row == Serial!NewRow(nextPlan, q.row.content, q.user, FALSE, q.s)
  <2>1. /\ q.s \in live /\ q.op = "duplicate"
        /\ Serial!AddPlan(q.shape) /\ Serial!Insert(rows, row)
    BY <1>1 DEF CommitDuplicate, Commits, ParentStored
  <2>2. /\ nextPlan \in PlanIds /\ q.row.content \in Contents /\ PlansWritten
        /\ q.s \in live \cup {NoSchedule} /\ FALSE \in BOOLEAN
    BY <1>0, <2>1 DEF Serial!AddPlan, Serial!PlanIds, PlanIds, Rows, PlansWritten
  <2>3. /\ row \in Rows /\ row.lockedBy = NoUser /\ row.officialBy = NoUser
        /\ row.forkedFrom \in live \cup {NoSchedule}
    BY <1>0, <2>1, <2>2, NewRowIs, ZenonT(30)
  <2>6. row.plan = nextPlan
    BY DEF Serial!NewRow
  <2>5. plans'[nextPlan] # NoShape
    BY <1>0, <2>1, <2>2, AddedPlan
  <2> HIDE DEF row
  <2>4. InsertStep(rows, row)
    BY <1>0, <2>1, <2>2, <2>3, <2>5, <2>6 DEF InsertStep
  <2> QED
    BY <2>4
<1>2. CASE CommitAssign(r)
  <2>1. PICK day \in Days :
          Serial!Insert(Demoted(r), Serial!NewRow(q.plan, [day |-> day, slots |-> q.shape],
                                                  q.user, TRUE, NoSchedule))
    BY <1>2 DEF CommitAssign
  <2> DEFINE row == Serial!NewRow(q.plan, [day |-> day, slots |-> q.shape],
                                  q.user, TRUE, NoSchedule)
  <2>0. /\ q.op = "assign" /\ UNCHANGED <<plans, nextPlan>>
        /\ plans[q.plan] # NoShape
    BY <1>2 DEF CommitAssign, Commits, PlanStored, Serial!LivePlans
  <2>2. [day |-> day, slots |-> q.shape] \in Contents /\ q.plan \in PlanIds /\ PlansWritten
    BY <1>0, <2>0 DEF Contents, PlansWritten
  <2>3. /\ row \in Rows /\ row.lockedBy = NoUser /\ row.officialBy = NoUser
        /\ row.forkedFrom \in live \cup {NoSchedule}
    BY <1>0, <2>2, NewRowIs
  <2>6. row.plan = q.plan
    BY DEF Serial!NewRow
  <2>4. Serial!Insert(Demoted(r), row)
    BY <2>1
  <2> HIDE DEF row
  <2>5. InsertStep(Demoted(r), row)
    BY <1>0, <2>0, <2>2, <2>3, <2>4, <2>6 DEF InsertStep
  <2> QED
    BY <2>5
<1>3. CASE CommitImport(r)
  <2>1. PICK content \in Contents :
          /\ Serial!AddPlan(content.slots)
          /\ Serial!Insert(Demoted(r), Serial!NewRow(nextPlan, content, q.user, TRUE,
                                                     NoSchedule))
    BY <1>3 DEF CommitImport
  <2> DEFINE row == Serial!NewRow(nextPlan, content, q.user, TRUE, NoSchedule)
  <2>2. nextPlan \in PlanIds /\ content.slots \in Shapes
    BY <2>1 DEF Serial!AddPlan, Serial!PlanIds, PlanIds, Contents
  <2>3. /\ row \in Rows /\ row.lockedBy = NoUser /\ row.officialBy = NoUser
        /\ row.forkedFrom \in live \cup {NoSchedule}
    BY <1>0, <2>2, NewRowIs
  <2>6. row.plan = nextPlan
    BY DEF Serial!NewRow
  <2>4. Serial!Insert(Demoted(r), row) /\ PlansWritten /\ plans'[nextPlan] # NoShape
    BY <2>1, <2>2, AddedPlan DEF PlansWritten
  <2> HIDE DEF row
  <2>5. InsertStep(Demoted(r), row)
    BY <1>0, <2>3, <2>4, <2>6 DEF InsertStep
  <2> QED
    BY <2>5
<1> QED
  BY <1>1, <1>2, <1>3

LEMMA RemoveCommit ==
  ASSUME Typed
  PROVE  /\ \A r \in Slots : CommitDelete(r) => RemoveStep({reqs[r].s})
         /\ \A p \in PlanIds :
              DeleteAbstract(p) => RemoveStep({s \in live : rows[s].plan = p})
<1>1. ASSUME NEW r \in Slots, CommitDelete(r)
      PROVE  RemoveStep({reqs[r].s})
  <2>1. /\ reqs[r].s \in ScheduleIds /\ actor' \in Actors
        /\ Serial!Remove({reqs[r].s})
        /\ UNCHANGED <<plans, event, nextId, nextPlan, freezes>>
    BY <1>1, LiveRow
    DEF CommitDelete, CommitsRow, Commits, Typed, Requests, RequestOK, Actors
  <2> QED
    BY <2>1 DEF RemoveStep
<1>2. ASSUME NEW p \in PlanIds, DeleteAbstract(p)
      PROVE  RemoveStep({s \in live : rows[s].plan = p})
  <2>1. live \subseteq ScheduleIds
    BY SameRows DEF Typed, Facts!Stored, Facts!TypeOK
  <2> QED
    BY <1>2, <2>1
    DEF DeleteAbstract, Serial!DeleteAbstract, RemoveStep, Actors,
        Serial!LivePlans, Serial!PlanIds, PlanIds
<1> QED
  BY <1>1, <1>2

-----------------------------------------------------------------------------
\* The invariant: what is stored and what is in flight have their types, and
\* what the transactions keep together agrees.

Inv == Typed /\ Consistent

LEMMA CommitKeeps ==
  ASSUME Inv, NEW r \in Slots, Commit(r)
  PROVE  Inv'
<1> USE DEF Inv
<1>0. reqs[r].user \in Users \/ CommitFails(r)
  BY DEF Typed, Requests, RequestOK, Commit, Commits, CommitsRow, CommitPatch,
    CommitRestore, CommitReplace, CommitLock, CommitUnlock, CommitActivate, CommitMark,
    CommitUnmark, CommitDelete, CommitDuplicate, CommitAssign, CommitImport,
    CommitFreeze, CommitUnfreeze
<1>1. Requests'
  BY ReplyMoves
  DEF Typed, Commit, Commits, CommitsRow, CommitPatch, CommitRestore, CommitReplace,
    CommitLock, CommitUnlock, CommitActivate, CommitMark, CommitUnmark, CommitDelete,
    CommitDuplicate, CommitAssign, CommitImport, CommitFreeze, CommitUnfreeze, CommitFails
<1>2. ASSUME NEW base, NEW s, NEW row, RowStep(base, s, row)
      PROVE  Facts!Stored' /\ Consistent'
  BY <1>2, RowStepStored, RowStepConsistent DEF Typed
<1>3. ASSUME CommitDuplicate(r) \/ CommitAssign(r) \/ CommitImport(r)
      PROVE  Facts!Stored' /\ Consistent'
  BY <1>3, InsertCommit, InsertStepStored, InsertStepConsistent DEF Typed
<1>4. ASSUME CommitDelete(r)
      PROVE  Facts!Stored' /\ Consistent'
  BY <1>4, RemoveCommit, RemoveStepStored, RemoveStepConsistent DEF Typed
<1>5. ASSUME CommitFreeze(r)
      PROVE  Facts!Stored' /\ Consistent'
  <2>1. /\ freezes \in 0 .. MaxFreezes /\ freezes < MaxFreezes
        /\ reqs[r].user \in Users /\ actor' = reqs[r].user
    BY <1>0, <1>5, SameRows
    DEF CommitFreeze, CommitFails, Commits, BulkOps, RowOps, Typed, Facts!Stored,
      Facts!TypeOK, Requests, RequestOK
  <2>2. event' \in EventRows /\ freezes' \in 0 .. MaxFreezes
    BY <1>5, <2>1, ConstantsAssumption DEF CommitFreeze, EventRows, Actors
  <2> QED
    BY <1>5, <2>1, <2>2, EventStepKeeps DEF CommitFreeze, PlansWritten, Typed
<1>6. ASSUME CommitUnfreeze(r)
      PROVE  Facts!Stored' /\ Consistent'
  <2>1. /\ freezes \in 0 .. MaxFreezes
        /\ reqs[r].user \in Users /\ actor' = reqs[r].user
    BY <1>6, SameRows
    DEF CommitUnfreeze, Commits, Typed, Facts!Stored, Facts!TypeOK, Requests, RequestOK
  <2>2. event' \in EventRows /\ freezes' \in 0 .. MaxFreezes
    BY <1>6, <2>1, ConstantsAssumption
    DEF CommitUnfreeze, Serial!Unfrozen, EventRows, Actors
  <2> QED
    BY <1>6, <2>1, <2>2, EventStepKeeps DEF CommitUnfreeze, PlansWritten, Typed
<1>7. ASSUME CommitFails(r)
      PROVE  Facts!Stored' /\ Consistent'
  BY <1>7, StoredSame
  DEF CommitFails, Typed, tables, Consistent, ForkPointsAtLiveRow, LockMatchesLastEvent,
    OneOfficialByIndex, ScheduleHasItsPlan, PlansIssued
<1>8. Facts!Stored' /\ Consistent'
  BY <1>2, <1>3, <1>4, <1>5, <1>6, <1>7, PatchCommit, LockCommit, MarkCommit, ActivateCommit
  DEF Commit
<1> QED
  BY <1>1, <1>8 DEF Typed

LEMMA InvStep == Inv /\ [Next]_vars => Inv'
<1> SUFFICES ASSUME Inv, [Next]_vars PROVE Inv'
  OBVIOUS
<1> USE DEF Inv
<1>1. ASSUME Typed', UNCHANGED tables
      PROVE  Inv'
  BY <1>1
  DEF tables, Consistent, ForkPointsAtLiveRow, LockMatchesLastEvent, OneOfficialByIndex,
    ScheduleHasItsPlan, PlansIssued
<1>2. ASSUME NEW r \in Slots, Advance(r)
      PROVE  Inv'
  BY <1>1, <1>2, CommitKeeps, ReadsTyped DEF Advance
<1>3. ASSUME NEW r \in Slots, NEW u \in Users, Arrive(r, u)
      PROVE  Inv'
  BY <1>1, <1>3, ReadsTyped
<1>4. ASSUME NEW u \in Users, NEW shape \in Shapes, GenerateAbstract(u, shape)
      PROVE  Inv'
  <2>1. event' \in EventRows /\ freezes' \in 0 .. MaxFreezes
    BY <1>4, SameRows
    DEF GenerateAbstract, Serial!GenerateAbstract, Typed, Facts!Stored, Facts!TypeOK
  <2>2. Facts!Stored' /\ Consistent'
    BY <1>4, <2>1, EventStepKeeps
    DEF GenerateAbstract, Serial!GenerateAbstract, PlansWritten, Typed
  <2> QED
    BY <1>4, <2>2 DEF GenerateAbstract, Typed, Requests
<1>5. ASSUME NEW p \in PlanIds, DeleteAbstract(p)
      PROVE  Inv'
  <2>1. Facts!Stored' /\ Consistent'
    BY <1>5, RemoveCommit, RemoveStepStored, RemoveStepConsistent DEF Typed
  <2> QED
    BY <1>5, <2>1 DEF DeleteAbstract, Typed, Requests
<1>6. CASE UNCHANGED vars
  BY <1>1, <1>6, StoredSame DEF vars, Typed, Requests
<1> QED
  BY <1>2, <1>3, <1>4, <1>5, <1>6 DEF Next

LEMMA NoRequests ==
  ASSUME reqs = [r \in Slots |-> Idle]
  PROVE  Requests
BY DEF Requests, RequestOK, Idle, Pcs

LEMMA InvInit == Init => Inv
<1> SUFFICES ASSUME Init PROVE Inv
  OBVIOUS
<1>1. Facts!Init
  BY DEF Init, Serial!Init, Facts!Init, Serial!BlankRow, Facts!BlankRow, Serial!Unfrozen,
    Facts!Unfrozen, Serial!ScheduleIds, Facts!ScheduleIds, Serial!PlanIds, Facts!PlanIds,
    Serial!NoPlan, Facts!NoPlan, Serial!NoSchedule, Facts!NoSchedule
<1>2. Facts!Stored
  BY <1>1, ConstantsAssumption, Facts!StoredInit
<1>3. Consistent
  BY DEF Init, Serial!Init, Consistent, ForkPointsAtLiveRow, LockMatchesLastEvent,
    OneOfficialByIndex, ScheduleHasItsPlan, PlansIssued, Serial!PlanIds, PlanIds
<1> QED
  BY <1>2, <1>3, NoRequests DEF Init, Inv, Typed

LEMMA InvInitAssigned == InitAssigned => Inv
<1> SUFFICES ASSUME InitAssigned PROVE Inv
  OBVIOUS
<1>1. PICK u \in Users, content \in Contents :
        LET row(s) == [plan |-> s, active |-> s = 1, content |-> content,
                       owner |-> u, lockedBy |-> NoUser, officialBy |-> NoUser,
                       forkedFrom |-> IF s = 1 THEN NoSchedule ELSE 1,
                       createdAt |-> 0]
        IN /\ rows = [s \in ScheduleIds |->
                        IF s <= StartSchedules THEN row(s) ELSE Serial!BlankRow]
           /\ hist = [s \in ScheduleIds |->
                        IF s <= StartSchedules THEN {Snapshot("create", row(s))}
                        ELSE {}]
           /\ plans = [p \in PlanIds |->
                        IF p <= StartSchedules THEN content.slots ELSE NoShape]
           /\ actor = u
  BY DEF InitAssigned
<1>2. /\ StartSchedules \in Nat \ {0} /\ StartSchedules <= MaxSchedules
      /\ StartSchedules <= MaxPlans /\ MaxSchedules \in Nat /\ MaxPlans \in Nat
  BY RaceAssumption, ConstantsAssumption
<1>3. /\ live = 1 .. StartSchedules /\ live \subseteq ScheduleIds
      /\ locklog = [s \in ScheduleIds |-> <<>>]
      /\ event = [freezer |-> NoUser, frozenAt |-> 0]
      /\ nextId = StartSchedules + 1 /\ nextPlan = StartSchedules + 1 /\ freezes = 0
      /\ reqs = [r \in Slots |-> Idle]
  BY <1>2 DEF InitAssigned, Serial!Unfrozen, ScheduleIds
<1>4. ASSUME NEW s \in live
      PROVE  /\ rows[s] \in Rows
             /\ rows[s].lockedBy = NoUser /\ rows[s].officialBy = NoUser
             /\ rows[s].forkedFrom \in {NoSchedule, 1}
             /\ plans[rows[s].plan] # NoShape
             /\ hist[s] \subseteq HistoryRows
  <2>1. s \in ScheduleIds /\ s \in PlanIds /\ s <= StartSchedules
    BY <1>2, <1>3 DEF ScheduleIds, PlanIds
  <2>2. rows[s] = [plan |-> s, active |-> s = 1, content |-> content,
                   owner |-> u, lockedBy |-> NoUser, officialBy |-> NoUser,
                   forkedFrom |-> IF s = 1 THEN NoSchedule ELSE 1, createdAt |-> 0]
    BY <1>1, <2>1
  <2>3. 1 \in ScheduleIds
    BY <1>2 DEF ScheduleIds
  <2>4. rows[s] \in Rows
    BY <2>1, <2>2, <2>3 DEF Rows, Actors
  <2>5. hist[s] = {[action |-> "create", content |-> content]}
    BY <1>1, <2>1 DEF Snapshot
  <2>6. plans[s] # NoShape
    BY <1>1, <2>1, ConstantsAssumption DEF Contents
  <2> QED
    BY <2>2, <2>4, <2>5, <2>6 DEF HistoryRows, HistoryActions
<1>5. ASSUME NEW s \in ScheduleIds \ live
      PROVE  rows[s] = Facts!BlankRow /\ hist[s] = {}
  BY <1>1, <1>2, <1>3, SameRows DEF ScheduleIds
<1>6. Facts!TypeOK
  <2>1. rows \in [ScheduleIds -> Rows \cup {Facts!BlankRow}]
    BY <1>1, <1>4, <1>5
  <2>2. hist \in [ScheduleIds -> SUBSET HistoryRows]
    BY <1>1, <1>4, <1>5
  <2>3. plans \in [PlanIds -> Shapes \cup {NoShape}]
    BY <1>1 DEF Contents
  <2>4. \A s \in ScheduleIds : s \in live <=> rows[s] # Facts!BlankRow
    BY <1>4, <1>5, ConstantsAssumption, SameRows, Facts!RowNotBlank
  <2>5. event \in EventRows /\ actor \in Actors /\ freezes \in 0 .. MaxFreezes
    BY <1>1, <1>3, ConstantsAssumption DEF EventRows, Actors
  <2>6. locklog \in [ScheduleIds -> Seq(LockEvents)]
    BY <1>3
  <2>7. nextId \in 1 .. MaxSchedules + 1 /\ nextPlan \in 1 .. MaxPlans + 1
    BY <1>2, <1>3
  <2> QED
    BY <1>3, <2>1, <2>2, <2>3, <2>4, <2>5, <2>6, <2>7, SameRows DEF Facts!TypeOK
<1>7. Facts!IdsIssuedOnce /\ Facts!NoOrphans
  BY <1>2, <1>3, <1>5, SameRows DEF Facts!IdsIssuedOnce, Facts!NoOrphans
<1>8. ScheduleHasItsPlan /\ PlansIssued
  <2>1. ASSUME NEW p \in PlanIds, plans[p] # NoShape
        PROVE  p < nextPlan
    <3>1. p <= StartSchedules /\ p \in Nat
      BY <1>1, <2>1 DEF PlanIds
    <3> QED
      BY <1>2, <1>3, <3>1
  <2> QED
    BY <1>4, <2>1 DEF ScheduleHasItsPlan, PlansIssued
<1>9. Consistent
  BY <1>2, <1>3, <1>4, <1>8
  DEF Consistent, ForkPointsAtLiveRow, LockMatchesLastEvent, OneOfficialByIndex, IsOfficial
<1> QED
  BY <1>3, <1>6, <1>7, <1>9, NoRequests DEF Inv, Typed, Facts!Stored

LEMMA InvAlways == (Spec => []Inv) /\ (AssignedSpec => []Inv)
BY InvInit, InvInitAssigned, InvStep, PTL DEF Spec, AssignedSpec

\* However many lock, unlock and mark-official requests decided on the same
\* copy of the row, the lock columns are those of the last lock event.
THEOREM LocksMatchTheLog ==
  /\ Spec => []LockMatchesLastEvent
  /\ AssignedSpec => []LockMatchesLastEvent
BY InvAlways, PTL DEF Inv, Consistent

\* Whichever of a fork and the deletion of its source commits first, the fork
\* points at a schedule that has a row; and deleting an abstract schedule takes
\* its schedules along, and no assignment or copy in flight brings one back.
THEOREM ReferencesResolve ==
  /\ Spec => []ReferencesHold
  /\ AssignedSpec => []ReferencesHold
BY InvAlways, PTL DEF Inv, Consistent, ReferencesHold

-----------------------------------------------------------------------------
\* One active schedule, while no insert is in flight: every bulk UPDATE saw
\* every row that is there when it commits, for rows only go.

NoInserts == Ops \cap {"assign", "import", "duplicate"} = {}

OneActive == \A s, t \in live : rows[s].active /\ rows[t].active => s = t

UpdatesSeeAll ==
  \A r \in Slots :
    reqs[r].pc \in {"locking", "commit"} /\ reqs[r].op \in BulkOps
      => live \subseteq reqs[r].seen

OneInv == OneActive /\ UpdatesSeeAll

\* A step that inserts nothing, activates nothing and moves no bulk UPDATE.
LEMMA QuietStep ==
  ASSUME OneInv, live' \subseteq live,
         \A t \in live' : rows'[t].active => rows[t].active,
         \A r \in Slots : \/ reqs'[r] = reqs[r]
                         \/ reqs'[r].pc \notin {"locking", "commit"}
                         \/ reqs'[r].op \notin BulkOps
  PROVE  OneInv'
<1>1. OneActive'
  BY DEF OneInv, OneActive
<1>2. UpdatesSeeAll'
  BY DEF OneInv, UpdatesSeeAll, BulkOps
<1> QED
  BY <1>1, <1>2 DEF OneInv

LEMMA OneReadStep ==
  ASSUME NoInserts, Typed, OneInv, NEW r \in Slots, UNCHANGED tables,
         \/ \E u \in Users : Arrive(r, u)
         \/ LoadEvent(r) \/ Refuse(r) \/ Admit(r) \/ AdmitRestore(r)
         \/ AdmitDuplicate(r) \/ SourceGone(r) \/ StartUpdate(r) \/ FinishUpdate(r)
         \/ CommitFails(r)
  PROVE  OneInv'
<1>0. /\ reqs = [x \in Slots |-> reqs[x]] /\ RequestOK(reqs[r])
      /\ live' = live /\ rows' = rows
  BY DEF Typed, Requests, tables
<1>1. CASE \E u \in Users : Arrive(r, u)
  <2>1. /\ \A x \in Slots \ {r} : reqs'[x] = reqs[x]
        /\ reqs'[r].pc \notin {"locking", "commit"}
    BY <1>0, <1>1 DEF Arrive, LoadRow, LoadPlan, LoadEventFirst
  <2> QED
    BY <1>0, <2>1, QuietStep
<1>2. CASE LoadEvent(r)
  <2>1. Over([pc |-> "query", ev |-> event], reqs[r]).pc = "query"
    BY DEF Over
  <2> QED
    BY <1>0, <1>2, <2>1, QuietStep DEF LoadEvent
<1>3. CASE Refuse(r) \/ SourceGone(r) \/ CommitFails(r)
  BY <1>0, <1>3, QuietStep DEF Refuse, SourceGone, CommitFails, Reply, Idle
<1>4. CASE Admit(r)
  BY <1>0, <1>4, QuietStep DEF Admit, MoveTo, RequestOK
<1>5. CASE AdmitRestore(r)
  <2>1. PICK h \in hist[reqs[r].s] :
          reqs' = [reqs EXCEPT ![r] = Over([pc |-> "commit", content |-> h.content], @)]
    BY <1>5 DEF AdmitRestore
  <2>2. reqs[r].op = "restore" /\ reqs[r].pc = "query"
    BY <1>5 DEF AdmitRestore
  <2>3. Over([pc |-> "commit", content |-> h.content], reqs[r]).op \notin BulkOps
    BY <1>0, <2>2 DEF Over, BulkOps, RequestOK
  <2> QED
    BY <1>0, <2>1, <2>3, QuietStep
<1>6. CASE AdmitDuplicate(r)
  BY <1>0, <1>6 DEF AdmitDuplicate, NoInserts, RequestOK
<1>7. CASE StartUpdate(r)
  <2>1. Over([pc |-> "locking", seen |-> live], reqs[r]).seen = live
    BY DEF Over
  <2> QED
    BY <1>0, <1>7, <2>1 DEF StartUpdate, OneInv, OneActive, UpdatesSeeAll, Over
<1>8. CASE FinishUpdate(r)
  <2>1. /\ Over([pc |-> "commit", seen |-> reqs[r].seen \cap live], reqs[r]).seen
           = reqs[r].seen \cap live
        /\ live \subseteq reqs[r].seen
    BY <1>0, <1>8 DEF Over, FinishUpdate, RequestOK, OneInv, UpdatesSeeAll
  <2> QED
    BY <1>0, <1>8, <2>1 DEF FinishUpdate, OneInv, OneActive, UpdatesSeeAll, Over
<1> QED
  BY <1>1, <1>2, <1>3, <1>4, <1>5, <1>6, <1>7, <1>8

\* A commit keeps the active flags, clears them, or sets the only one.
LEMMA ActiveKept ==
  ASSUME Typed, NEW r \in Slots,
         \/ CommitPatch(r) \/ CommitRestore(r) \/ CommitReplace(r) \/ CommitLock(r)
         \/ CommitUnlock(r) \/ CommitMark(r) \/ CommitUnmark(r)
  PROVE  live' = live /\ \A t \in live : rows'[t].active = rows[t].active
<1> DEFINE s == reqs[r].s
<1>0. s \in live /\ live' = live
  BY DEF CommitPatch, CommitRestore, CommitReplace, CommitLock, CommitUnlock, CommitMark,
    CommitUnmark, CommitsRow
<1>1. /\ rows = [t \in ScheduleIds |-> rows[t]] /\ rows[s] \in Rows
      /\ \A t \in live : t \in ScheduleIds
  BY <1>0, LiveRow, SameRows DEF Typed, Facts!Stored, Facts!TypeOK
<1>2. CASE CommitPatch(r)
  BY <1>0, <1>1, <1>2 DEF CommitPatch, Rows
<1>3. CASE CommitRestore(r)
  BY <1>0, <1>1, <1>3 DEF CommitRestore, Rows
<1>4. CASE CommitReplace(r)
  <2>1. PICK content \in Contents :
          rows' = [rows EXCEPT ![s].plan = nextPlan, ![s].content = content]
    BY <1>4 DEF CommitReplace
  <2> QED
    BY <1>0, <1>1, <2>1 DEF Rows
<1>5. CASE CommitLock(r) \/ CommitUnlock(r) \/ CommitUnmark(r)
  BY <1>0, <1>1, <1>5 DEF CommitLock, CommitUnlock, CommitUnmark, Rows
<1>6. CASE CommitMark(r)
  BY <1>0, <1>1, <1>6 DEF CommitMark, Rows
<1> QED
  BY <1>0, <1>2, <1>3, <1>4, <1>5, <1>6

LEMMA RemoveActive ==
  ASSUME Typed, NEW D, RemoveStep(D)
  PROVE  live' \subseteq live /\ \A t \in live' : rows'[t].active = rows[t].active
<1>1. live' = live \ D
  BY DEF RemoveStep, Serial!Remove
<1>2. ASSUME NEW t \in live'
      PROVE  rows'[t].active = rows[t].active
  <2>1. t \in ScheduleIds \ D /\ rows[t] \in Rows
    BY <1>1, <1>2, LiveRow DEF Typed
  <2> QED
    BY <2>1 DEF RemoveStep, Serial!Remove, Serial!ScheduleIds, ScheduleIds, Rows
<1> QED
  BY <1>1, <1>2

LEMMA OneCommitStep ==
  ASSUME NoInserts, Typed, OneInv, NEW r \in Slots, Commit(r)
  PROVE  OneInv'
<1>0. /\ reqs = [x \in Slots |-> reqs[x]] /\ RequestOK(reqs[r])
  BY DEF Typed, Requests
<1>1. reqs' = [reqs EXCEPT ![r] = Idle]
  BY DEF Commit, Commits, CommitsRow, Reply, CommitPatch, CommitRestore, CommitReplace,
    CommitLock, CommitUnlock, CommitActivate, CommitMark, CommitUnmark, CommitDelete,
    CommitDuplicate, CommitAssign, CommitImport, CommitFreeze, CommitUnfreeze, CommitFails
<1>2. /\ Idle.pc \notin {"locking", "commit"}
      /\ \A x \in Slots : reqs'[x] = reqs[x] \/ reqs'[x].pc \notin {"locking", "commit"}
  BY <1>0, <1>1 DEF Idle
<1>3. CASE \/ CommitPatch(r) \/ CommitRestore(r) \/ CommitReplace(r) \/ CommitLock(r)
           \/ CommitUnlock(r) \/ CommitMark(r) \/ CommitUnmark(r)
  BY <1>2, <1>3, ActiveKept, QuietStep
<1>4. CASE CommitActivate(r)
  <2>1. /\ reqs[r].s \in live /\ live' = live
        /\ rows' = [Demoted(r) EXCEPT ![reqs[r].s].active = TRUE]
        /\ live \subseteq reqs[r].seen
    BY <1>4 DEF CommitActivate, CommitsRow, Commits, OneInv, UpdatesSeeAll, BulkOps
  <2>2. ASSUME NEW t \in live, t # reqs[r].s
        PROVE  ~rows'[t].active
    BY <2>1, <2>2, LiveRow DEF Demoted, Typed, Rows
  <2> QED
    BY <1>2, <2>1, <2>2 DEF OneInv, OneActive, UpdatesSeeAll
<1>5. CASE CommitDelete(r)
  BY <1>2, <1>5, RemoveCommit, RemoveActive, QuietStep
<1>6. CASE CommitDuplicate(r) \/ CommitAssign(r) \/ CommitImport(r)
  BY <1>0, <1>6
  DEF CommitDuplicate, CommitAssign, CommitImport, Commits, RequestOK, NoInserts
<1>7. CASE CommitFreeze(r) \/ CommitUnfreeze(r) \/ CommitFails(r)
  BY <1>2, <1>7, QuietStep DEF CommitFreeze, CommitUnfreeze, CommitFails, tables
<1> QED
  BY <1>3, <1>4, <1>5, <1>6, <1>7 DEF Commit

LEMMA OneStep ==
  ASSUME NoInserts, Typed, OneInv, [Next]_vars
  PROVE  OneInv'
<1>1. ASSUME NEW r \in Slots, Advance(r)
      PROVE  OneInv'
  BY <1>1, OneCommitStep, OneReadStep, ReadsTyped DEF Advance
<1>2. ASSUME NEW r \in Slots, NEW u \in Users, Arrive(r, u)
      PROVE  OneInv'
  BY <1>2, OneReadStep, ReadsTyped
<1>3. ASSUME NEW u \in Users, NEW shape \in Shapes, GenerateAbstract(u, shape)
      PROVE  OneInv'
  BY <1>3, QuietStep DEF GenerateAbstract, Serial!GenerateAbstract
<1>4. ASSUME NEW p \in PlanIds, DeleteAbstract(p)
      PROVE  OneInv'
  BY <1>4, RemoveCommit, RemoveActive, QuietStep DEF DeleteAbstract
<1>5. CASE UNCHANGED vars
  BY <1>5, QuietStep DEF vars, tables
<1> QED
  BY <1>1, <1>2, <1>3, <1>4, <1>5 DEF Next

LEMMA OneInit == InitAssigned => OneInv
<1> SUFFICES ASSUME InitAssigned PROVE OneInv
  OBVIOUS
<1>1. UpdatesSeeAll
  BY DEF InitAssigned, UpdatesSeeAll, Idle
<1>2. ASSUME NEW s \in live, rows[s].active
      PROVE  s = 1
  <2>1. s \in ScheduleIds /\ s <= StartSchedules
    BY RaceAssumption, ConstantsAssumption DEF InitAssigned, ScheduleIds
  <2>2. rows[s].active = (s = 1)
    BY <2>1 DEF InitAssigned
  <2> QED
    BY <1>2, <2>2
<1> QED
  BY <1>1, <1>2 DEF OneInv, OneActive

\* With the partial unique index, and while nothing is inserted, any number of
\* activations, marks, locks, edits, freezes and deletions in flight together
\* leave one active and one official schedule.
THEOREM OneOfEach ==
  ASSUME UniqueIndex, NoInserts
  PROVE  AssignedSpec => []AtMostOneOfEach
<1>1. InitAssigned => Inv /\ OneInv
  BY InvInitAssigned, OneInit
<1>2. Inv /\ OneInv /\ [Next]_vars => (Inv /\ OneInv)'
  BY InvStep, OneStep DEF Inv
<1>3. Inv /\ OneInv => AtMostOneOfEach
  BY DEF Inv, OneInv, OneActive, Consistent, OneOfficialByIndex, AtMostOneOfEach
<1> QED
  BY <1>1, <1>2, <1>3, PTL DEF AssignedSpec

-----------------------------------------------------------------------------
\* Requests answered one at a time.  Between its reads and its commit a lone
\* request can still be overtaken by the two handlers without a read: abstract
\* schedules are generated, and deleted together with their schedules.  What it
\* has read stays current up to forkedFrom, which no guard asks for.

SameRow(copy, row) ==
  /\ copy.plan = row.plan /\ copy.content = row.content /\ copy.owner = row.owner
  /\ copy.lockedBy = row.lockedBy /\ copy.officialBy = row.officialBy
  /\ copy.createdAt = row.createdAt

\* The guard the request has passed.
Permitted(q) ==
  /\ q.op \in {"patch", "restore"} => MayEdit(q.ev, q.row, hist[q.s], q.user)
  /\ q.op = "replace" => MayReplace(q.row, hist[q.s], q.user)
  /\ q.op = "lock" => MayLock(q.ev, q.row, q.user)
  /\ q.op = "unlock" => MayUnlock(q.ev, q.row, q.user)
  /\ q.op = "activate" =>
       MayActivate(q.ev, q.row, {rows[t] : t \in ActiveNow \ {q.s}}, q.user)
  /\ q.op = "mark" => MayMark(q.ev, q.row, OfficialNow \ {q.s} # {}, q.user)
  /\ q.op = "unmark" => MayUnmark(q.ev, q.row, q.user)
  /\ q.op = "delete" => MayDelete(q.ev, q.row, q.user)
  /\ q.op = "assign" => ~IsEventFrozen(q.ev)
  /\ q.op = "freeze" => ~IsFrozen(q.ev)
  /\ q.op = "unfreeze" => IsFrozen(q.ev) /\ (q.ev.freezer = q.user \/ IsAdmin(q.user))

Present(q) == q.op \in RowOps => q.s \in live

Current(q) ==
  q.pc # "idle" =>
    /\ q.op \in RowOps /\ q.s \in live => SameRow(q.row, rows[q.s])
    /\ q.pc # "event" => "ev" \in DOMAIN q /\ q.ev = event
    /\ q.op = "assign" => q.plan < nextPlan /\ plans[q.plan] \in {q.shape, NoShape}
    /\ q.pc \in {"update", "locking", "commit"} /\ Present(q) => Permitted(q)
    /\ q.pc = "commit" /\ Present(q) =>
         /\ q.op = "restore" => \E h \in hist[q.s] : h.content = q.content
         /\ q.op = "duplicate" => plans[q.row.plan] = q.shape
    /\ q.pc \in {"locking", "commit"} /\ q.op \in BulkOps => live \subseteq q.seen

AllCurrent == \A r \in Slots : Current(reqs[r])

LEMMA SameGuards ==
  /\ \A ev, row, h, u : Serial!MayEdit(ev, row, h, u) <=> MayEdit(ev, row, h, u)
  /\ \A row, h, u : Serial!MayReplace(row, h, u) <=> MayReplace(row, h, u)
  /\ \A ev, row, u : Serial!MayLock(ev, row, u) <=> MayLock(ev, row, u)
  /\ \A ev, row, u : Serial!MayUnlock(ev, row, u) <=> MayUnlock(ev, row, u)
  /\ \A ev, row, others, u :
       Serial!MayActivate(ev, row, others, u) <=> MayActivate(ev, row, others, u)
  /\ \A ev, row, u : \A other \in BOOLEAN :
       Serial!MayMark(ev, row, other, u) <=> MayMark(ev, row, other, u)
  /\ \A ev, row, u : Serial!MayUnmark(ev, row, u) <=> MayUnmark(ev, row, u)
  /\ \A ev, row, u : Serial!MayDelete(ev, row, u) <=> MayDelete(ev, row, u)
  /\ \A ev : Serial!IsEventFrozen(ev) <=> IsEventFrozen(ev)
  /\ \A ev : Serial!IsFrozen(ev) <=> IsFrozen(ev)
  /\ \A row : Serial!IsLocked(row) <=> IsLocked(row)
  /\ \A row : Serial!IsOfficial(row) <=> IsOfficial(row)
  /\ \A u : Serial!IsAdmin(u) <=> IsAdmin(u)
  /\ \A action, row : Serial!Snapshot(action, row) = Snapshot(action, row)
BY DEF Serial!MayEdit, MayEdit, Serial!MayReplace, MayReplace, Serial!MayLock, MayLock,
  Serial!MayUnlock, MayUnlock, Serial!MayActivate, MayActivate, Serial!MayMark, MayMark,
  Serial!MayUnmark, MayUnmark, Serial!MayDelete, MayDelete,
  Serial!IsEventFrozen, IsEventFrozen, Serial!IsEventFrozenFor, IsEventFrozenFor,
  Serial!IsFrozen, IsFrozen, Serial!IsLocked, IsLocked, Serial!IsOfficial, IsOfficial,
  Serial!IsAdmin, IsAdmin, Serial!Snapshot, Snapshot,
  Serial!ProtectedByFreeze, ProtectedByFreeze, Serial!CanBypassFreeze, CanBypassFreeze,
  Serial!WasEverOfficial, WasEverOfficial, Serial!LockedByOther, LockedByOther

\* The guards say the same of the copy and of the row.
LEMMA GuardsOfCopies ==
  ASSUME NEW copy, NEW row, SameRow(copy, row)
  PROVE  /\ \A ev, h, u : MayEdit(ev, copy, h, u) <=> MayEdit(ev, row, h, u)
         /\ \A h, u : MayReplace(copy, h, u) <=> MayReplace(row, h, u)
         /\ \A ev, u : MayLock(ev, copy, u) <=> MayLock(ev, row, u)
         /\ \A ev, u : MayUnlock(ev, copy, u) <=> MayUnlock(ev, row, u)
         /\ \A ev, others, u :
              MayActivate(ev, copy, others, u) <=> MayActivate(ev, row, others, u)
         /\ \A ev, u : MayUnmark(ev, copy, u) <=> MayUnmark(ev, row, u)
         /\ \A ev, u : MayDelete(ev, copy, u) <=> MayDelete(ev, row, u)
         /\ IsLocked(copy) <=> IsLocked(row)
BY DEF SameRow, MayEdit, MayReplace, MayLock, MayUnlock, MayActivate, MayUnmark,
  MayDelete, IsLocked, IsOfficial, ProtectedByFreeze, WasEverOfficial, LockedByOther

LEMMA AllowedIsPermitted ==
  ASSUME NEW q, q.op \in RowOps \cup EventOps \cup {"assign", "import"}, Allowed(q)
  PROVE  Permitted(q)
BY DEF Allowed, Permitted, RowOps, EventOps

\* Reading keeps the copies current, a request being alone.
LEMMA CopiesMove ==
  ASSUME NEW one, Slots = {one}, Requests, UNCHANGED tables, NEW q, Current(q),
         reqs' = [reqs EXCEPT ![one] = q]
  PROVE  AllCurrent'
<1>1. reqs'[one] = q
  BY DEF Requests
<1>2. Permitted(q) => Permitted(reqs[one])'
  BY <1>1 DEF Permitted, ActiveNow, OfficialNow, tables
<1>3. Present(q) <=> Present(reqs[one])'
  BY <1>1 DEF Present, tables
<1>4. Current(reqs[one])'
  BY <1>1, <1>2, <1>3 DEF Current, tables
<1> QED
  BY <1>4 DEF AllCurrent

\* The bulk UPDATE takes note of the rows it sees.
LEMMA SeenMoves ==
  ASSUME NEW q, RequestOK(q), Current(q), q.pc \in {"update", "locking"},
         NEW pc \in {"locking", "commit"}, NEW seen, live \subseteq seen
  PROVE  Current(Over([pc |-> pc, seen |-> seen], q))
<1> DEFINE next == Over([pc |-> pc, seen |-> seen], q)
<1>1. {"op", "user"} \subseteq DOMAIN q /\ q.op \in BulkOps
  BY DEF RequestOK
<1>2. /\ next.pc = pc /\ next.seen = seen /\ next.op = q.op /\ next.user = q.user
      /\ next.ev = q.ev /\ "ev" \in DOMAIN next
      /\ q.op \in RowOps => next.s = q.s /\ next.row = q.row
      /\ q.op = "assign" => next.plan = q.plan /\ next.shape = q.shape
  BY <1>1 DEF Over, RequestOK, Current
<1> HIDE DEF next
<1>3. /\ Present(next) <=> Present(q)
      /\ Permitted(q) => Permitted(next)
  BY <1>1, <1>2 DEF Present, Permitted, BulkOps, RowOps
<1>4. Current(next)
  BY <1>1, <1>2, <1>3 DEF Current, BulkOps
<1> QED
  BY <1>4 DEF next

LEMMA ReadsCurrent ==
  ASSUME NEW one, Slots = {one}, Typed, AllCurrent, PlansIssued, UNCHANGED tables,
         \/ \E u \in Users : Arrive(one, u)
         \/ LoadEvent(one) \/ Refuse(one) \/ Admit(one) \/ AdmitRestore(one)
         \/ AdmitDuplicate(one) \/ SourceGone(one) \/ StartUpdate(one)
         \/ FinishUpdate(one) \/ CommitFails(one)
  PROVE  AllCurrent'
<1>0. /\ Requests /\ RequestOK(reqs[one]) /\ Current(reqs[one]) /\ one \in Slots
  BY DEF Typed, Requests, AllCurrent
<1>1. ASSUME NEW u \in Users, NEW op \in RowOps, NEW s \in ScheduleIds, LoadRow(one, u, op, s)
      PROVE  AllCurrent'
  <2> DEFINE q == [pc |-> "event", op |-> op, user |-> u, s |-> s, row |-> rows[s]]
  <2>1. Current(q)
    BY <1>1 DEF Current, SameRow, RowOps
  <2> QED
    BY <1>0, <1>1, <2>1, CopiesMove DEF LoadRow
<1>2. ASSUME NEW u \in Users, NEW p \in PlanIds, LoadPlan(one, u, p)
      PROVE  AllCurrent'
  <2> DEFINE q == [pc |-> "event", op |-> "assign", user |-> u, plan |-> p, shape |-> plans[p]]
  <2>1. Current(q)
    BY <1>2 DEF Current, RowOps, LoadPlan, Serial!LivePlans, PlansIssued
  <2> QED
    BY <1>0, <1>2, <2>1, CopiesMove DEF LoadPlan
<1>3. ASSUME NEW u \in Users, NEW op \in EventOps \cup {"import"}, LoadEventFirst(one, u, op)
      PROVE  AllCurrent'
  <2> DEFINE q == [pc |-> "query", op |-> op, user |-> u, ev |-> event]
  <2>1. Current(q)
    BY <1>3 DEF Current, RowOps, EventOps
  <2> QED
    BY <1>0, <1>3, <2>1, CopiesMove DEF LoadEventFirst
<1>4. ASSUME LoadEvent(one)
      PROVE  AllCurrent'
  <2> DEFINE q == Over([pc |-> "query", ev |-> event], reqs[one])
  <2>1. Current(q)
    BY <1>0, <1>4 DEF Current, LoadEvent, Over, RequestOK
  <2> HIDE DEF q
  <2>2. reqs' = [reqs EXCEPT ![one] = q]
    BY <1>4 DEF LoadEvent, q
  <2> QED
    BY <1>0, <2>1, <2>2, CopiesMove
<1>5. ASSUME Refuse(one) \/ SourceGone(one) \/ CommitFails(one)
      PROVE  AllCurrent'
  <2>1. Current(Idle)
    BY DEF Current, Idle
  <2> QED
    BY <1>0, <1>5, <2>1, CopiesMove DEF Refuse, SourceGone, CommitFails, Reply
<1>6. ASSUME Admit(one)
      PROVE  AllCurrent'
  <2> DEFINE pc == IF reqs[one].op \in BulkOps THEN "update" ELSE "commit"
             q == [reqs[one] EXCEPT !.pc = pc]
  <2>1. reqs' = [reqs EXCEPT ![one] = q]
    BY <1>6 DEF Admit, MoveTo
  <2>2. /\ reqs[one].pc = "query" /\ "pc" \in DOMAIN reqs[one]
        /\ reqs[one].op \in RowOps \cup EventOps \cup {"assign", "import"}
        /\ reqs[one].op \notin {"restore", "duplicate"} /\ Permitted(reqs[one])
    BY <1>0, <1>6, AllowedIsPermitted DEF Admit, RequestOK
  <2>3. /\ q.pc = pc /\ q.op = reqs[one].op /\ q.user = reqs[one].user /\ q.ev = reqs[one].ev
        /\ q.s = reqs[one].s /\ q.row = reqs[one].row /\ q.plan = reqs[one].plan
        /\ q.shape = reqs[one].shape /\ q.seen = reqs[one].seen
        /\ q.content = reqs[one].content /\ DOMAIN q = DOMAIN reqs[one]
    BY <2>2
  <2>4. Permitted(q)
    BY <2>2, <2>3 DEF Permitted
  <2>5. pc \in {"update", "commit"} /\ (pc = "commit" => reqs[one].op \notin BulkOps)
    OBVIOUS
  <2> HIDE DEF q, pc
  <2>6. Current(q)
    BY <1>0, <2>2, <2>3, <2>4, <2>5 DEF Current
  <2> QED
    BY <1>0, <2>1, <2>6, CopiesMove
<1>7. ASSUME AdmitRestore(one)
      PROVE  AllCurrent'
  <2>1. PICK h \in hist[reqs[one].s] :
          reqs' = [reqs EXCEPT ![one] = Over([pc |-> "commit", content |-> h.content], @)]
    BY <1>7 DEF AdmitRestore
  <2> DEFINE q == Over([pc |-> "commit", content |-> h.content], reqs[one])
  <2>2. /\ reqs[one].pc = "query" /\ reqs[one].op = "restore" /\ Permitted(reqs[one])
        /\ {"op", "user", "s", "row"} \subseteq DOMAIN reqs[one]
    BY <1>0, <1>7, AllowedIsPermitted DEF AdmitRestore, RequestOK, RowOps
  <2>3. /\ q.pc = "commit" /\ q.content = h.content /\ q.op = "restore"
        /\ q.user = reqs[one].user /\ q.s = reqs[one].s /\ q.row = reqs[one].row
    BY <2>2 DEF Over
  <2>4. "ev" \in DOMAIN q /\ q.ev = event /\ reqs[one].ev = event
    BY <1>0, <2>2 DEF Current, Over
  <2> HIDE DEF q
  <2>5. Current(q)
    BY <1>0, <2>1, <2>2, <2>3, <2>4 DEF Current, Permitted, BulkOps, RowOps, Present
  <2>6. reqs' = [reqs EXCEPT ![one] = q]
    BY <2>1 DEF q
  <2> QED
    BY <1>0, <2>5, <2>6, CopiesMove
<1>8. ASSUME AdmitDuplicate(one)
      PROVE  AllCurrent'
  <2> DEFINE q == Over([pc |-> "commit", shape |-> plans[reqs[one].row.plan]], reqs[one])
  <2>1. reqs' = [reqs EXCEPT ![one] = q]
    BY <1>8 DEF AdmitDuplicate
  <2>2. /\ reqs[one].pc = "query" /\ reqs[one].op = "duplicate"
        /\ {"op", "user", "s", "row"} \subseteq DOMAIN reqs[one]
    BY <1>0, <1>8 DEF AdmitDuplicate, RequestOK, RowOps
  <2>3. /\ q.pc = "commit" /\ q.shape = plans[q.row.plan] /\ q.op = "duplicate"
        /\ q.user = reqs[one].user /\ q.s = reqs[one].s /\ q.row = reqs[one].row
    BY <2>2 DEF Over
  <2>4. "ev" \in DOMAIN q /\ q.ev = event
    BY <1>0, <2>2 DEF Current, Over
  <2> HIDE DEF q
  <2>5. Current(q)
    BY <1>0, <2>1, <2>2, <2>3, <2>4 DEF Current, Permitted, BulkOps, RowOps, Present
  <2> QED
    BY <1>0, <2>1, <2>5, CopiesMove
<1>9. ASSUME StartUpdate(one)
      PROVE  AllCurrent'
  <2> DEFINE q == Over([pc |-> "locking", seen |-> live], reqs[one])
  <2>1. reqs' = [reqs EXCEPT ![one] = q]
    BY <1>9 DEF StartUpdate
  <2>2. Current(q)
    BY <1>0, <1>9, SeenMoves DEF StartUpdate
  <2> HIDE DEF q
  <2> QED
    BY <1>0, <2>1, <2>2, CopiesMove
<1>10. ASSUME FinishUpdate(one)
       PROVE  AllCurrent'
  <2> DEFINE q == Over([pc |-> "commit", seen |-> reqs[one].seen \cap live], reqs[one])
  <2>1. reqs' = [reqs EXCEPT ![one] = q]
    BY <1>10 DEF FinishUpdate
  <2>2. live \subseteq reqs[one].seen \cap live
    BY <1>0, <1>10 DEF FinishUpdate, RequestOK, Current
  <2>3. Current(q)
    BY <1>0, <1>10, <2>2, SeenMoves DEF FinishUpdate
  <2> HIDE DEF q
  <2> QED
    BY <1>0, <2>1, <2>3, CopiesMove
<1> QED
  BY <1>1, <1>2, <1>3, <1>4, <1>5, <1>6, <1>7, <1>8, <1>9, <1>10 DEF Arrive

\* So do the handlers that may overtake it.
LEMMA GenerateCurrent ==
  ASSUME Inv, AllCurrent, NEW u \in Users, NEW shape \in Shapes, GenerateAbstract(u, shape)
  PROVE  AllCurrent'
<1>0. /\ plans' = [plans EXCEPT ![nextPlan] = shape] /\ nextPlan' = nextPlan + 1
      /\ nextPlan \in Nat /\ plans = [p \in PlanIds |-> plans[p]]
      /\ UNCHANGED <<rows, live, hist, event, reqs>>
  BY SameRows
  DEF GenerateAbstract, Serial!GenerateAbstract, Serial!AddPlan, Inv, Typed, Facts!Stored,
      Facts!TypeOK
<1>1. ASSUME NEW r \in Slots
      PROVE  Current(reqs[r])'
  <2> DEFINE q == reqs[r]
  <2>1. RequestOK(q) /\ Current(q)
    BY DEF Inv, Typed, Requests, AllCurrent
  <2>2. q.pc # "idle" /\ q.op = "assign" =>
          q.plan < nextPlan' /\ plans'[q.plan] \in {q.shape, NoShape}
    <3>1. q.pc # "idle" /\ q.op = "assign" =>
            /\ q.plan \in Nat /\ q.plan < nextPlan
            /\ plans[q.plan] \in {q.shape, NoShape}
      BY <2>1 DEF Current, RequestOK, PlanIds
    <3> QED
      BY <1>0, <3>1
  <2>3. q.pc = "commit" /\ q.op = "duplicate" /\ q.s \in live => plans'[q.row.plan] = q.shape
    <3>1. ASSUME q.pc = "commit", q.op = "duplicate", q.s \in live
          PROVE  /\ q.row.plan \in PlanIds /\ q.row.plan < nextPlan
                 /\ plans[q.row.plan] = q.shape
      <4>1. SameRow(q.row, rows[q.s]) /\ plans[q.row.plan] = q.shape
        BY <2>1, <3>1 DEF Current, Present, RowOps
      <4>2. rows[q.s].plan \in PlanIds
        BY <3>1, LiveRow DEF Inv, Typed, Rows
      <4> QED
        BY <3>1, <4>1, <4>2 DEF SameRow, Inv, Consistent, ScheduleHasItsPlan, PlansIssued
    <3> QED
      BY <1>0, <3>1 DEF PlanIds
  <2>4. Permitted(q) => Permitted(q)'
    BY <1>0 DEF Permitted, ActiveNow, OfficialNow
  <2>5. Present(q)' <=> Present(q)
    BY <1>0 DEF Present
  <2> QED
    BY <1>0, <2>1, <2>2, <2>3, <2>4, <2>5 DEF Current, Present, RowOps
<1> QED
  BY <1>1 DEF AllCurrent

LEMMA DeleteCurrent ==
  ASSUME Inv, AllCurrent, NEW p \in PlanIds, DeleteAbstract(p)
  PROVE  AllCurrent'
<1> DEFINE D == {s \in live : rows[s].plan = p}
<1>0. /\ plans' = [plans EXCEPT ![p] = NoShape] /\ live' = live \ D
      /\ plans = [x \in PlanIds |-> plans[x]]
      /\ UNCHANGED <<event, nextPlan, reqs>>
  BY SameRows
  DEF DeleteAbstract, Serial!DeleteAbstract, Serial!Remove, Inv, Typed, Facts!Stored,
      Facts!TypeOK
<1>1. ASSUME NEW s \in live'
      PROVE  /\ s \in live /\ rows[s].plan # p
             /\ SameRow(rows[s], rows'[s]) /\ rows'[s].active = rows[s].active
             /\ hist'[s] = hist[s]
  <2>1. s \in live /\ s \in ScheduleIds \ D /\ rows[s] \in Rows
    BY <1>0, <1>1, LiveRow DEF Inv, Typed
  <2>2. /\ rows'[s] = [rows[s] EXCEPT !.forkedFrom = IF @ \in D THEN NoSchedule ELSE @]
        /\ hist'[s] = hist[s]
    BY <2>1
    DEF DeleteAbstract, Serial!DeleteAbstract, Serial!Remove, Serial!ScheduleIds,
        ScheduleIds, Serial!NoSchedule, NoSchedule
  <2> QED
    BY <2>1, <2>2 DEF SameRow, Rows
<1> HIDE DEF D
<1>2. ASSUME NEW r \in Slots
      PROVE  Current(reqs[r])'
  <2> DEFINE q == reqs[r]
  <2>1. RequestOK(q) /\ Current(q)
    BY DEF Inv, Typed, Requests, AllCurrent
  <2>2. Present(q)' => Present(q)
    BY <1>0, <1>1 DEF Present
  <2>3. q.pc # "idle" /\ q.op \in RowOps /\ q.s \in live' => SameRow(q.row, rows'[q.s])
    BY <1>1, <2>1 DEF Current, SameRow
  <2>4. Present(q)' /\ Permitted(q) => Permitted(q)'
    <3>1. ActiveNow' \subseteq ActiveNow /\ OfficialNow' \subseteq OfficialNow
      BY <1>1 DEF ActiveNow, OfficialNow, SameRow, IsOfficial
    <3>2. \A s, u : MayActivate(q.ev, q.row, {rows[t] : t \in ActiveNow \ {s}}, u) =>
            MayActivate(q.ev, q.row, {rows'[t] : t \in ActiveNow' \ {s}}, u)
      <4>1. \A t \in ActiveNow' : rows'[t].lockedBy = rows[t].lockedBy
        BY <1>1 DEF ActiveNow, SameRow
      <4> QED
        BY <3>1, <4>1 DEF MayActivate, LockedByOther, IsLocked
    <3>3. \A s, u : MayMark(q.ev, q.row, OfficialNow \ {s} # {}, u) =>
            MayMark(q.ev, q.row, OfficialNow' \ {s} # {}, u)
      BY <3>1 DEF MayMark
    <3>4. q.op \in RowOps /\ Present(q)' => hist'[q.s] = hist[q.s]
      BY <1>0, <1>1 DEF Present
    <3> QED
      BY <1>0, <3>2, <3>3, <3>4 DEF Permitted, RowOps
  <2>5. q.pc # "idle" /\ q.op = "assign" =>
          q.plan < nextPlan' /\ plans'[q.plan] \in {q.shape, NoShape}
    BY <1>0, <2>1 DEF Current, RequestOK
  <2>6. q.pc = "commit" /\ q.op = "duplicate" /\ Present(q)' => plans'[q.row.plan] = q.shape
    <3>1. ASSUME q.pc = "commit", q.op = "duplicate", Present(q)'
          PROVE  plans[q.row.plan] = q.shape /\ q.row.plan # p
      <4>1. q.s \in live'
        BY <1>0, <3>1 DEF Present, RowOps
      <4> QED
        BY <1>1, <2>1, <3>1, <4>1 DEF Current, Present, RowOps, SameRow
    <3> QED
      BY <1>0, <3>1
  <2>7. q.pc = "commit" /\ q.op = "restore" /\ Present(q)' =>
          \E h \in hist'[q.s] : h.content = q.content
    BY <1>0, <1>1, <2>1, <2>2 DEF Current, Present, RowOps
  <2> QED
    BY <1>0, <2>1, <2>2, <2>3, <2>4, <2>5, <2>6, <2>7 DEF Current
<1> QED
  BY <1>2 DEF AllCurrent

LEMMA CurrentStep ==
  ASSUME NEW one, Slots = {one}, Inv, AllCurrent, [Next]_vars
  PROVE  AllCurrent'
<1>0. reqs = [r \in Slots |-> reqs[r]]
  BY DEF Inv, Typed, Requests
<1>1. ASSUME Commit(one)
      PROVE  AllCurrent'
  <2>1. reqs'[one] = Idle
    BY <1>0, <1>1
    DEF Commit, Commits, CommitsRow, Reply, CommitPatch, CommitRestore, CommitReplace,
      CommitLock, CommitUnlock, CommitActivate, CommitMark, CommitUnmark, CommitDelete,
      CommitDuplicate, CommitAssign, CommitImport, CommitFreeze, CommitUnfreeze, CommitFails
  <2>2. Current(reqs[one])'
    BY <2>1 DEF Current, Idle
  <2> QED
    BY <2>2 DEF AllCurrent
<1>2. ASSUME Advance(one) \/ \E u \in Users : Arrive(one, u)
      PROVE  AllCurrent'
  BY <1>1, <1>2, ReadsTyped, ReadsCurrent DEF Advance, Inv, Consistent
<1>3. CASE UNCHANGED vars
  BY <1>3 DEF vars, tables, AllCurrent, Current, Permitted, Present, ActiveNow, OfficialNow
<1> QED
  BY <1>2, <1>3, GenerateCurrent, DeleteCurrent DEF Next

-----------------------------------------------------------------------------
\* The commit of a lone request is the step of ScheduleLifecycle its handler is.

\* What the commit of "op" finds.
Ready(q, op) ==
  /\ q.pc = "commit" /\ q.op = op /\ q.user \in Users /\ actor' = q.user
  /\ q.ev = event /\ Permitted(q)

ReadyRow(q, op) ==
  /\ Ready(q, op) /\ op \in RowOps
  /\ q.s \in live /\ q.s \in ScheduleIds /\ SameRow(q.row, rows[q.s])
  /\ rows[q.s] \in Rows /\ rows = [t \in ScheduleIds |-> rows[t]]

LEMMA CommitReady ==
  ASSUME Inv, AllCurrent, NEW r \in Slots, NEW op, op \notin RowOps, Commits(r, op)
  PROVE  Ready(reqs[r], op)
BY DEF Inv, Typed, Requests, RequestOK, AllCurrent, Current, Present, Commits, Ready

LEMMA CommitReadyRow ==
  ASSUME Inv, AllCurrent, NEW r \in Slots, NEW op \in RowOps,
         Commits(r, op), reqs[r].s \in live
  PROVE  ReadyRow(reqs[r], op)
<1>1. rows = [t \in ScheduleIds |-> rows[t]] /\ reqs[r].s \in ScheduleIds
      /\ rows[reqs[r].s] \in Rows
  BY LiveRow, SameRows DEF Inv, Typed, Facts!Stored, Facts!TypeOK
<1> QED
  BY <1>1
  DEF Inv, Typed, Requests, RequestOK, AllCurrent, Current, Present, Commits, ReadyRow,
      Ready, RowOps

LEMMA SerialRowStep ==
  ASSUME NEW u \in Users, actor' = u, NEW s \in ScheduleIds,
         \/ \E day \in Days : Serial!Patch(u, s, day)
         \/ \E day \in Days, shape \in Shapes : Serial!ImportReplace(u, s, shape, day)
         \/ \E h \in hist[s] : Serial!Restore(u, s, h)
         \/ Serial!Lock(u, s) \/ Serial!Unlock(u, s) \/ Serial!Activate(u, s)
         \/ Serial!MarkOfficial(u, s) \/ Serial!UnmarkOfficial(u, s)
         \/ Serial!Duplicate(u, s) \/ Serial!Delete(u, s)
  PROVE  Serial!Next
BY DEF Serial!Next, Serial!ScheduleStep, Serial!ScheduleIds, ScheduleIds

LEMMA SerialEventStep ==
  ASSUME NEW u \in Users, actor' = u,
         \/ \E shape \in Shapes : Serial!GenerateAbstract(u, shape)
         \/ \E p \in PlanIds, day \in Days : Serial!Assign(u, p, day)
         \/ \E shape \in Shapes, day \in Days : Serial!ImportNew(u, shape, day)
         \/ Serial!Freeze(u) \/ Serial!Unfreeze(u)
  PROVE  Serial!Next
BY DEF Serial!Next, Serial!EventStep, Serial!PlanIds, PlanIds

LEMMA EditIsSerial ==
  ASSUME Inv, AllCurrent, NEW r \in Slots,
         CommitPatch(r) \/ CommitRestore(r) \/ CommitReplace(r)
  PROVE  Serial!Next
<1> DEFINE q == reqs[r]
           s == q.s
<1>1. CASE CommitPatch(r)
  <2>1. ReadyRow(q, "patch")
    BY <1>1, CommitReadyRow DEF CommitPatch, CommitsRow, RowOps
  <2>2. PICK day \in Days : rows' = [rows EXCEPT ![s].content.day = day]
    BY <1>1 DEF CommitPatch
  <2>3. rows' = [rows EXCEPT ![s] = [rows[s] EXCEPT !.content.day = day]]
    BY <2>1, <2>2 DEF ReadyRow
  <2>4. Serial!MayEdit(event, rows[s], hist[s], q.user)
    BY <2>1, SameGuards, GuardsOfCopies DEF ReadyRow, Ready, Permitted
  <2>5. Serial!Snapshot("patch", rows[s]) = Snapshot("patch", q.row)
    BY <2>1, SameGuards DEF ReadyRow, SameRow, Snapshot
  <2>6. Serial!Patch(q.user, s, day)
    BY <1>1, <2>1, <2>3, <2>4, <2>5
    DEF CommitPatch, SaveHistory, Serial!Patch, Serial!Overwrite, ReadyRow
  <2> QED
    BY <2>1, <2>6, SerialRowStep DEF ReadyRow, Ready
<1>2. CASE CommitRestore(r)
  <2>1. ReadyRow(q, "restore")
    BY <1>2, CommitReadyRow DEF CommitRestore, CommitsRow, RowOps
  <2>2. PICK h \in hist[s] : h.content = q.content
    BY <2>1 DEF AllCurrent, Current, Present, ReadyRow, Ready
  <2>3. rows' = [rows EXCEPT ![s] = [rows[s] EXCEPT !.content = h.content]]
    BY <1>2, <2>1, <2>2 DEF ReadyRow, CommitRestore
  <2>4. Serial!MayEdit(event, rows[s], hist[s], q.user)
    BY <2>1, SameGuards, GuardsOfCopies DEF ReadyRow, Ready, Permitted
  <2>5. Serial!Snapshot("restore", rows[s]) = Snapshot("restore", q.row)
    BY <2>1, SameGuards DEF ReadyRow, SameRow, Snapshot
  <2>6. Serial!Restore(q.user, s, h)
    BY <1>2, <2>1, <2>2, <2>3, <2>4, <2>5
    DEF CommitRestore, SaveHistory, Serial!Restore, Serial!Overwrite, ReadyRow
  <2> QED
    BY <2>1, <2>6, SerialRowStep DEF ReadyRow, Ready
<1>3. CASE CommitReplace(r)
  <2>1. ReadyRow(q, "replace")
    BY <1>3, CommitReadyRow DEF CommitReplace, CommitsRow, RowOps
  <2>2. PICK content \in Contents :
          /\ Serial!AddPlan(content.slots)
          /\ rows' = [rows EXCEPT ![s].plan = nextPlan, ![s].content = content]
    BY <1>3 DEF CommitReplace
  <2>3. /\ content.day \in Days /\ content.slots \in Shapes
        /\ content = [day |-> content.day, slots |-> content.slots]
    BY DEF Contents
  <2> DEFINE row == [rows[s] EXCEPT !.plan = nextPlan,
                       !.content = [day |-> content.day, slots |-> content.slots]]
  <2>4. rows' = [rows EXCEPT ![s] = row]
    BY <2>1, <2>2, <2>3 DEF ReadyRow
  <2>5. Serial!MayReplace(rows[s], hist[s], q.user)
    BY <2>1, SameGuards, GuardsOfCopies DEF ReadyRow, Ready, Permitted
  <2>6. Serial!Snapshot("patch", rows[s]) = Snapshot("patch", q.row)
    BY <2>1, SameGuards DEF ReadyRow, SameRow, Snapshot
  <2>7. Serial!Overwrite(s, "patch", row)
    BY <1>3, <2>1, <2>4, <2>6
    DEF CommitReplace, SaveHistory, Serial!Overwrite, ReadyRow
  <2>8. Serial!ImportReplace(q.user, s, content.slots, content.day)
    BY <2>1, <2>2, <2>5, <2>7 DEF Serial!ImportReplace, ReadyRow
  <2> QED
    BY <2>1, <2>3, <2>8, SerialRowStep DEF ReadyRow, Ready
<1> QED
  BY <1>1, <1>2, <1>3

LEMMA LockIsSerial ==
  ASSUME Inv, AllCurrent, NEW r \in Slots, CommitLock(r) \/ CommitUnlock(r) \/ CommitUnmark(r)
  PROVE  Serial!Next
<1> DEFINE q == reqs[r]
           s == q.s
<1>1. CASE CommitLock(r)
  <2>1. ReadyRow(q, "lock")
    BY <1>1, CommitReadyRow DEF CommitLock, CommitsRow, RowOps
  <2>2. Serial!MayLock(event, rows[s], q.user)
    BY <2>1, SameGuards, GuardsOfCopies DEF ReadyRow, Ready, Permitted
  <2>3. Serial!Lock(q.user, s)
    BY <1>1, <2>1, <2>2 DEF CommitLock, Serial!Lock, ReadyRow
  <2> QED
    BY <2>1, <2>3, SerialRowStep DEF ReadyRow, Ready
<1>2. CASE CommitUnlock(r)
  <2>1. ReadyRow(q, "unlock")
    BY <1>2, CommitReadyRow DEF CommitUnlock, CommitsRow, RowOps
  <2>2. Serial!MayUnlock(event, rows[s], q.user)
    BY <2>1, SameGuards, GuardsOfCopies DEF ReadyRow, Ready, Permitted
  <2>3. Serial!Unlock(q.user, s)
    BY <1>2, <2>1, <2>2 DEF CommitUnlock, Serial!Unlock, ReadyRow
  <2> QED
    BY <2>1, <2>3, SerialRowStep DEF ReadyRow, Ready
<1>3. CASE CommitUnmark(r)
  <2>1. ReadyRow(q, "unmark")
    BY <1>3, CommitReadyRow DEF CommitUnmark, CommitsRow, RowOps
  <2>2. Serial!MayUnmark(event, rows[s], q.user)
    BY <2>1, SameGuards, GuardsOfCopies DEF ReadyRow, Ready, Permitted
  <2>3. Serial!UnmarkOfficial(q.user, s)
    BY <1>3, <2>1, <2>2 DEF CommitUnmark, Serial!UnmarkOfficial, ReadyRow
  <2> QED
    BY <2>1, <2>3, SerialRowStep DEF ReadyRow, Ready
<1> QED
  BY <1>1, <1>2, <1>3

LEMMA MarkIsSerial ==
  ASSUME Inv, AllCurrent, NEW r \in Slots, CommitMark(r)
  PROVE  Serial!Next
<1> DEFINE q == reqs[r]
           s == q.s
<1>1. ReadyRow(q, "mark")
  BY CommitReadyRow DEF CommitMark, CommitsRow, RowOps
<1>2. Serial!MayMark(event, rows[s], \E t \in live \ {s} : Serial!IsOfficial(rows[t]), q.user)
  <2>1. OfficialNow \ {s} # {} <=> \E t \in live \ {s} : Serial!IsOfficial(rows[t])
    BY SameGuards DEF OfficialNow
  <2>2. MayMark(event, q.row, OfficialNow \ {s} # {}, q.user)
    BY <1>1 DEF ReadyRow, Ready, Permitted
  <2> QED
    BY <1>1, <2>1, <2>2
    DEF ReadyRow, SameRow, MayMark, IsOfficial, IsEventFrozenFor, IsFrozen, CanBypassFreeze,
      IsAdmin, Serial!MayMark, Serial!IsOfficial, Serial!IsEventFrozenFor, Serial!IsFrozen,
      Serial!CanBypassFreeze, Serial!IsAdmin
<1>3. hist' = [hist EXCEPT ![s] = @ \cup {Serial!Snapshot("mark-official", rows[s])}]
  BY <1>1, SameGuards DEF CommitMark, SaveHistory, ReadyRow, SameRow, Snapshot
<1>4. Serial!IsLocked(rows[s]) <=> IsLocked(q.row)
  BY <1>1, SameGuards, GuardsOfCopies DEF ReadyRow
<1>5. /\ UNCHANGED <<live, plans, event, nextId, nextPlan, freezes>>
      /\ AutoLockEvent(q)
      /\ rows' = [rows EXCEPT ![s].officialBy = q.user,
                             ![s].lockedBy = IF IsLocked(q.row) THEN @ ELSE q.user]
  BY DEF CommitMark
<1>6. CASE ~IsLocked(q.row)
  <2>1. rows' = [rows EXCEPT ![s].officialBy = q.user, ![s].lockedBy = q.user]
    BY <1>5, <1>6
  <2> QED
    BY <1>1, <1>2, <1>3, <1>4, <1>5, <1>6, <2>1, SerialRowStep
    DEF Serial!MarkOfficial, AutoLockEvent, ReadyRow, Ready
<1>7. CASE IsLocked(q.row)
  <2>1. rows' = [rows EXCEPT ![s].officialBy = q.user]
    BY <1>1, <1>5, <1>7 DEF ReadyRow, Rows
  <2> QED
    BY <1>1, <1>2, <1>3, <1>4, <1>5, <1>7, <2>1, SerialRowStep
    DEF Serial!MarkOfficial, AutoLockEvent, ReadyRow, Ready
<1> QED
  BY <1>6, <1>7

\* The bulk UPDATE of a lone request demotes every schedule.
LEMMA DemotesAll ==
  ASSUME Inv, NEW r \in Slots, live \subseteq reqs[r].seen
  PROVE  Demoted(r) = Serial!AllInactive
<1>1. ASSUME NEW t \in ScheduleIds
      PROVE  Demoted(r)[t] = [rows[t] EXCEPT !.active = FALSE]
  <2>1. CASE t \in reqs[r].seen
    BY <1>1, <2>1 DEF Demoted
  <2>2. CASE t \notin reqs[r].seen
    <3>1. rows[t] = Facts!BlankRow
      BY <1>1, <2>2, SameRows DEF Inv, Typed, Facts!Stored, Facts!TypeOK
    <3>2. [Facts!BlankRow EXCEPT !.active = FALSE] = Facts!BlankRow
      BY ConstantsAssumption, Facts!BlankCleared
    <3>3. Demoted(r)[t] = rows[t]
      BY <1>1, <2>2 DEF Demoted
    <3> QED
      BY <3>1, <3>2, <3>3
  <2> QED
    BY <2>1, <2>2
<1>2. Demoted(r) = [t \in ScheduleIds |-> Demoted(r)[t]]
  BY DEF Demoted
<1>3. Serial!AllInactive = [t \in ScheduleIds |-> [rows[t] EXCEPT !.active = FALSE]]
  BY DEF Serial!AllInactive, Serial!ScheduleIds, ScheduleIds
<1> HIDE DEF Demoted
<1> QED
  BY <1>1, <1>2, <1>3

LEMMA BulkDemotesAll ==
  ASSUME Inv, AllCurrent, NEW r \in Slots, NEW op \in BulkOps, Commits(r, op)
  PROVE  Demoted(r) = Serial!AllInactive
<1>1. live \subseteq reqs[r].seen
  BY DEF AllCurrent, Current, Commits
<1> QED
  BY <1>1, DemotesAll

LEMMA ActivateIsSerial ==
  ASSUME Inv, AllCurrent, NEW r \in Slots, CommitActivate(r)
  PROVE  Serial!Next
<1> DEFINE q == reqs[r]
           s == q.s
           active == {t \in live \ {s} : rows[t].active}
<1>1. ReadyRow(q, "activate")
  BY CommitReadyRow DEF CommitActivate, CommitsRow, RowOps
<1>2. Demoted(r) = Serial!AllInactive
  BY BulkDemotesAll DEF CommitActivate, CommitsRow, BulkOps
<1>3. Serial!MayActivate(event, rows[s], {rows[t] : t \in active}, q.user)
  <2>1. MayActivate(event, q.row, {rows[t] : t \in ActiveNow \ {s}}, q.user)
    BY <1>1 DEF ReadyRow, Ready, Permitted
  <2>2. ActiveNow \ {s} = active
    BY DEF ActiveNow
  <2>3. MayActivate(event, q.row, {rows[t] : t \in active}, q.user)
    BY <2>1, <2>2
  <2> QED
    BY <1>1, <2>3, SameGuards, GuardsOfCopies DEF ReadyRow
<1>4. Serial!Activate(q.user, s)
  BY <1>1, <1>2, <1>3 DEF CommitActivate, Serial!Activate, ReadyRow
<1> QED
  BY <1>1, <1>4, SerialRowStep DEF ReadyRow, Ready

LEMMA CopyIsSerial ==
  ASSUME Inv, AllCurrent, NEW r \in Slots, CommitDelete(r) \/ CommitDuplicate(r)
  PROVE  Serial!Next
<1> DEFINE q == reqs[r]
           s == q.s
<1>1. CASE CommitDelete(r)
  <2>1. ReadyRow(q, "delete")
    BY <1>1, CommitReadyRow DEF CommitDelete, CommitsRow, RowOps
  <2>2. Serial!MayDelete(event, rows[s], q.user)
    BY <2>1, SameGuards, GuardsOfCopies DEF ReadyRow, Ready, Permitted
  <2>3. Serial!Delete(q.user, s)
    BY <1>1, <2>1, <2>2 DEF CommitDelete, Serial!Delete, ReadyRow
  <2> QED
    BY <2>1, <2>3, SerialRowStep DEF ReadyRow, Ready
<1>2. CASE CommitDuplicate(r)
  <2>1. ReadyRow(q, "duplicate")
    BY <1>2, CommitReadyRow DEF CommitDuplicate, ParentStored, Commits, RowOps
  <2>2. plans[rows[s].plan] = q.shape /\ q.row.content = rows[s].content
    BY <2>1 DEF AllCurrent, Current, Present, ReadyRow, Ready, SameRow
  <2>3. Serial!Duplicate(q.user, s)
    BY <1>2, <2>1, <2>2 DEF CommitDuplicate, Serial!Duplicate, ReadyRow
  <2> QED
    BY <2>1, <2>3, SerialRowStep DEF ReadyRow, Ready
<1> QED
  BY <1>1, <1>2

LEMMA InsertIsSerial ==
  ASSUME Inv, AllCurrent, NEW r \in Slots, CommitAssign(r) \/ CommitImport(r)
  PROVE  Serial!Next
<1> DEFINE q == reqs[r]
<1>1. CASE CommitAssign(r)
  <2>1. Ready(q, "assign") /\ Demoted(r) = Serial!AllInactive
    BY <1>1, CommitReady, BulkDemotesAll DEF CommitAssign, RowOps, BulkOps
  <2>2. q.plan \in Serial!LivePlans /\ q.plan \in PlanIds /\ q.shape = plans[q.plan]
    BY <1>1, <2>1
    DEF CommitAssign, PlanStored, Serial!LivePlans, Serial!PlanIds, PlanIds, Ready,
        AllCurrent, Current
  <2>3. ~Serial!IsEventFrozen(event)
    BY <2>1, SameGuards DEF Ready, Permitted
  <2>4. PICK day \in Days :
          Serial!Insert(Demoted(r), Serial!NewRow(q.plan, [day |-> day, slots |-> q.shape],
                                                  q.user, TRUE, NoSchedule))
    BY <1>1 DEF CommitAssign
  <2>5. UNCHANGED <<plans, nextPlan>>
    BY <1>1 DEF CommitAssign
  <2>6. Serial!Assign(q.user, q.plan, day)
    BY <2>1, <2>2, <2>3, <2>4, <2>5 DEF Serial!Assign, Serial!NoSchedule, NoSchedule
  <2> QED
    BY <2>1, <2>2, <2>6, SerialEventStep DEF Ready
<1>2. CASE CommitImport(r)
  <2>1. Ready(q, "import") /\ Demoted(r) = Serial!AllInactive
    BY <1>2, CommitReady, BulkDemotesAll DEF CommitImport, RowOps, BulkOps
  <2>2. PICK content \in Contents :
          /\ Serial!AddPlan(content.slots)
          /\ Serial!Insert(Demoted(r), Serial!NewRow(nextPlan, content, q.user, TRUE,
                                                     NoSchedule))
    BY <1>2 DEF CommitImport
  <2>3. /\ content.day \in Days /\ content.slots \in Shapes
        /\ content = [day |-> content.day, slots |-> content.slots]
    BY DEF Contents
  <2>4. Serial!ImportNew(q.user, content.slots, content.day)
    BY <2>1, <2>2, <2>3 DEF Serial!ImportNew, Serial!NoSchedule, NoSchedule
  <2> QED
    BY <2>1, <2>3, <2>4, SerialEventStep DEF Ready
<1> QED
  BY <1>1, <1>2

LEMMA FreezeIsSerial ==
  ASSUME Inv, AllCurrent, NEW r \in Slots, CommitFreeze(r) \/ CommitUnfreeze(r)
  PROVE  Serial!Next
<1> DEFINE q == reqs[r]
<1>1. CASE CommitFreeze(r)
  <2>1. Ready(q, "freeze")
    BY <1>1, CommitReady DEF CommitFreeze, RowOps
  <2>2. ~Serial!IsFrozen(event)
    BY <2>1, SameGuards DEF Ready, Permitted
  <2>3. Serial!Freeze(q.user)
    BY <1>1, <2>2 DEF CommitFreeze, Serial!Freeze, Serial!tables
  <2> QED
    BY <2>1, <2>3, SerialEventStep DEF Ready
<1>2. CASE CommitUnfreeze(r)
  <2>1. Ready(q, "unfreeze")
    BY <1>2, CommitReady DEF CommitUnfreeze, RowOps
  <2>2. Serial!IsFrozen(event) /\ (event.freezer = q.user \/ Serial!IsAdmin(q.user))
    BY <2>1, SameGuards DEF Ready, Permitted
  <2>3. Serial!Unfreeze(q.user)
    BY <1>2, <2>2 DEF CommitUnfreeze, Serial!Unfreeze, Serial!tables
  <2> QED
    BY <2>1, <2>3, SerialEventStep DEF Ready
<1> QED
  BY <1>1, <1>2

LEMMA SerialStep ==
  ASSUME NEW one, Slots = {one}, Inv, AllCurrent, [Next]_vars
  PROVE  [Serial!Next]_(Serial!vars)
<1>1. UNCHANGED tables => UNCHANGED Serial!vars
  BY DEF tables, Serial!vars
<1>2. ASSUME Commit(one)
      PROVE  Serial!Next \/ UNCHANGED tables
  BY <1>2, EditIsSerial, LockIsSerial, MarkIsSerial, ActivateIsSerial, CopyIsSerial,
    InsertIsSerial, FreezeIsSerial DEF Commit, CommitFails
<1>3. ASSUME Advance(one)
      PROVE  Serial!Next \/ UNCHANGED tables
  BY <1>2, <1>3, ReadsTyped DEF Advance, Inv
<1>4. ASSUME NEW u \in Users, Arrive(one, u)
      PROVE  UNCHANGED tables
  BY <1>4, ReadsTyped DEF Inv
<1>5. ASSUME NEW u \in Users, NEW shape \in Shapes, GenerateAbstract(u, shape)
      PROVE  Serial!Next
  BY <1>5, SerialEventStep DEF GenerateAbstract
<1>6. ASSUME NEW p \in PlanIds, DeleteAbstract(p)
      PROVE  Serial!Next
  BY <1>6 DEF DeleteAbstract, Serial!Next, Serial!PlanIds, PlanIds
<1>7. CASE UNCHANGED vars
  BY <1>7 DEF vars, tables, Serial!vars
<1> QED
  BY <1>1, <1>3, <1>4, <1>5, <1>6, <1>7 DEF Next

\* With one request in flight at a time the handlers, reads and all, are the
\* steps of ScheduleLifecycle: its theorems hold of them.
THEOREM SerialWhenAlone ==
  ASSUME NEW one, Slots = {one}
  PROVE  Spec => RefinesSerial
<1>1. Init => Inv /\ AllCurrent /\ Serial!Init
  <2>1. Init => AllCurrent
    BY DEF Init, AllCurrent, Current, Idle
  <2> QED
    BY <2>1, InvInit DEF Init
<1>2. Inv /\ AllCurrent /\ [Next]_vars => (Inv /\ AllCurrent)'
  BY InvStep, CurrentStep
<1>3. Inv /\ AllCurrent /\ [Next]_vars => [Serial!Next]_(Serial!vars)
  BY SerialStep
<1> QED
  BY <1>1, <1>2, <1>3, PTL DEF Spec, RefinesSerial, Serial!Spec
=============================================================================
