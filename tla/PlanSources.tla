----------------------------- MODULE PlanSources -----------------------------
(***************************************************************************)
(* Where day plans come from and where they are read: the blocks a language *)
(* model extracts from a PDF day plan (app/pdf_dayplan.py), the plan guessed *)
(* from a bare list of match times (app/schedule_derive.py), and the start   *)
(* times the live simulation computes from a plan (app/live.py).             *)
(***************************************************************************)
EXTENDS DayPlans

CONSTANTS
  DayLength,             \* the minutes of a day
  OpenTime, CloseTime,   \* 08:30 and 17:00, the window assumed where none is given
  NoonFrom, NoonTo,      \* 11:30 and 13:30: a derived break touching it is a lunch
  LiveCycle, LiveBuffer  \* what a simulation takes for a cycle or buffer of 0

ASSUME HoursAssumption ==
  /\ {OpenTime, CloseTime, NoonFrom, NoonTo, LiveCycle, LiveBuffer} \subseteq Nat \ {0}
  /\ OpenTime < CloseTime /\ CloseTime <= DayLength /\ DayLength \in Nat

(* --- PDF day plans: x is a sequence of [kind, day, start, end, name]. ---- *)
FileKinds == {"practice", "qual", "playoff", "lunch", "break", "ceremony"}
FileBlocks == [kind : FileKinds, day : Nat, start : Nat, end : Nat, name : Names]
SameBlock(a, b) == a.kind = b.kind /\ a.day = b.day /\ a.start = b.start /\ a.end = b.end
Deduped(x) ==
  Picked(x, {k \in DOMAIN x : \A j \in 1 .. k - 1 : ~SameBlock(x[j], x[k])})
Kinds(x, kinds) == Where(x, LAMBDA b : b.kind \in kinds)
Ascending(S) ==
  [k \in 1 .. Cardinality(S) |-> CHOOSE d \in S : Cardinality({e \in S : e <= d}) = k]
OnDay(x, d) == Where(x, LAMBDA b : b.day = d)

(* Input days with a qualification block, in order; those whose times the    *)
(* scrub left valid become days of the plan.                                 *)
QualDays(x) == Ascending({b.day : b \in ToSet(Kinds(x, {"qual"}))})
TimedQuals(x, d) == ByStart(Timely(OnDay(Kinds(x, {"qual"}), d)))
PlannedDays(x) == Where(QualDays(x), LAMBDA d : TimedQuals(x, d) # <<>>)

\* Faulty: the playoffs are looked up by output day.
Capped_OutputDay(x, d, end) ==
  LET day == MinOf({k \in DOMAIN QualDays(x) : QualDays(x)[k] = d}) - 1
      starts == {b.start : b \in ToSet(OnDay(Kinds(x, {"playoff"}), day))} \ {0}
  IN  IF starts # {} /\ end > MinOf(starts) THEN MinOf(starts) ELSE end

Capped(x, d, end) ==
  LET starts == {b.start : b \in ToSet(OnDay(Kinds(x, {"playoff"}), d))} \ {0}
  IN  IF starts # {} /\ end > MinOf(starts) THEN MinOf(starts) ELSE end

LegacyDay(x, d) ==
  LET quals == TimedQuals(x, d)
      start == Head(quals).start
      end == Last(quals).end
      Inside(b) == HasWindow(b) /\ b.start >= start /\ b.end <= end
  IN  [start |-> start, end |-> Capped(x, d, end), ct |-> 0, changes |-> <<>>, earlyEnd |-> 0,
       breaks |-> Mapped(LAMBDA b : [start |-> b.start, end |-> b.end, name |->
                                      IF b.name = "" THEN b.kind ELSE b.name],
                         Where(ByStart(OnDay(Kinds(x, {"lunch", "break"}), d)), Inside))]
EmptyDay == [start |-> 0, end |-> 0, ct |-> 0, changes |-> <<>>, earlyEnd |-> 0, breaks |-> <<>>]

LegacyPractice(x) ==
  LET p == Kinds(x, {"practice"})
  IN  IF p = <<>> THEN NoPractice
      ELSE [start |-> Head(p).start, end |-> Head(p).end, ct |-> DefaultCycle + 2,
            changes |-> <<>>, breaks |-> <<>>]

(* A playoff or ceremony moves to the position of its day among the days     *)
(* that have a qualification, to the first one when its day has none.        *)
OutputDay(x, d) ==
  LET at == {k \in DOMAIN QualDays(x) : QualDays(x)[k] = d}
  IN  IF at = {} THEN 0 ELSE MinOf(at) - 1
ToLegacyDayConfig(x) ==
  LET days == Mapped(LAMBDA d : LegacyDay(x, d), PlannedDays(x))
  IN  [v |-> 1, ct |-> DefaultCycle, buffer |-> DefaultBuffer, practice |-> LegacyPractice(x),
       playoffs |-> <<>>, days |-> IF days = <<>> THEN <<EmptyDay>> ELSE days]
AddedBreaks(x, i) ==
  Mapped(LAMBDA b : [start |-> b.start, end |-> b.end,
                     name |-> IF b.name = "" THEN "ceremony" ELSE b.name],
         Where(Kinds(x, {"ceremony"}), LAMBDA b : HasWindow(b) /\ OutputDay(x, b.day) = i - 1))
FilePlayoffs(x) ==
  Mapped(LAMBDA b : [day |-> OutputDay(x, b.day), start |-> b.start, end |-> b.end, ct |-> 0],
         Timely(Kinds(x, {"playoff"})))
WithCeremonies(x, day, i) == [day EXCEPT !.breaks = @ \o AddedBreaks(x, i)]
WithTimeline(x, legacy) ==
  [legacy EXCEPT !.days = [i \in DOMAIN @ |-> WithCeremonies(x, @[i], i)],
                 !.playoffs = FilePlayoffs(x)]
ToV2DayConfig(x) ==
  LET blocks == Deduped(x)
  IN  MigrateV1ToV2(WithTimeline(blocks, ToLegacyDayConfig(blocks)))

-----------------------------------------------------------------------------
(* --- A plan derived from match times, in the order of match numbers. ----- *)
(* Times are read up to 47:59 and written modulo a day.                      *)
Clock(t) == 1 + ((t - 1) % DayLength)
Timed(times) == Where(times, LAMBDA t : t # 0)
Deltas(times) ==
  LET t == Timed(times)
      Near(k) == k < Len(t) /\ t[k] < t[k + 1] /\ t[k + 1] - t[k] <= BreakGap
  IN  Mapped(LAMBDA k : t[k + 1] - t[k], Where([k \in DOMAIN t |-> k], Near))
Count(x, s) == Cardinality({k \in DOMAIN s : s[k] = x})
(* Counter.most_common: the most frequent, the first seen among equals.      *)
ModeOf(s, otherwise) ==
  IF s = <<>> THEN otherwise
  ELSE LET most == MaxOf({Count(x, s) : x \in ToSet(s)})
       IN  s[MinOf({k \in DOMAIN s : Count(s[k], s) = most})]

DerivedBreaks(t, cycle) ==
  LET Gap(k) == k < Len(t) /\ t[k + 1] - t[k] > BreakGap /\ t[k] + cycle < t[k + 1]
      Lunch(k) == t[k] + cycle <= NoonTo /\ t[k + 1] >= NoonFrom
  IN  Mapped(LAMBDA k : Leaf("break", [start |-> Clock(t[k] + cycle), end |-> Clock(t[k + 1]),
                                       name |-> IF Lunch(k) THEN "lunch" ELSE "break"],
                             IF Lunch(k) THEN "lunch" ELSE "break"),
             Where([k \in DOMAIN t |-> k], Gap))
DerivedWindow(t, cycle) ==
  IF t = <<>> THEN [start |-> OpenTime, end |-> CloseTime]
  ELSE [start |-> Clock(Head(t)), end |-> Clock(Last(t) + cycle)]
DerivedPractice(practice, cycle) ==
  IF practice = <<>> THEN <<>>
  ELSE LET ct == ModeOf(Deltas(practice), cycle)
       IN  << << MatchBlock("practice", DerivedWindow(Timed(practice), ct), ct, <<>>, <<>>) >> >>
DeriveParameters(times, practice) ==
  LET cycle == ModeOf(Deltas(times), DefaultCycle)
      t == Timed(times)
  IN  [v |-> 2, ct |-> cycle, buffer |-> DefaultBuffer,
       days |-> DerivedPractice(practice, cycle) \o
                << << MatchBlock("qualification", DerivedWindow(t, cycle), cycle, <<>>,
                                 DerivedBreaks(t, cycle)) >> >>]

-----------------------------------------------------------------------------
(* --- Start times for a simulation. Only the keys of a V1 day are read, so  *)
(* a day of a V2 plan is one that gives nothing; no days at all are one.     *)
Simulated(plan) ==
  LET days == IF plan.v = 1 THEN plan.days ELSE [i \in DOMAIN plan.days |-> EmptyDay]
  IN  [v |-> 1, ct |-> plan.ct, buffer |-> plan.buffer, practice |-> NoPractice,
       playoffs |-> <<>>, days |-> IF days = <<>> THEN <<EmptyDay>> ELSE days]
DayKeys(day) ==
  [day EXCEPT !.start = OrElse(@, OpenTime), !.end = OrElse(@, CloseTime),
              !.breaks = ByStart(Timely(@))]
(* The last change that applies; n is the match's position in the event.     *)
CycleFor(day, plan, n) ==
  LET applied == Where(day.changes,
                       LAMBDA c : c.time # 0 /\ (c.isStart \/ (c.after # 0 /\ n > c.after)))
  IN  IF applied = <<>> THEN OrElse(plan.ct, LiveCycle) ELSE Last(applied).time
\* Faulty: a break that starts now is missed.
Flushed_Before(day, cursor) ==
  LET c[k \in 0 .. Len(day.breaks)] ==
        IF k = 0 THEN cursor
        ELSE LET now == c[k - 1]
                 b == day.breaks[k]
             IN  IF b.start < now /\ now < b.end THEN b.end ELSE now
  IN  c[Len(day.breaks)]
(* The cursor after the breaks that start at or before it.                   *)
Flushed(day, cursor) ==
  LET c[k \in 0 .. Len(day.breaks)] ==
        IF k = 0 THEN cursor
        ELSE LET now == c[k - 1]
                 b == day.breaks[k]
             IN  IF b.start <= now /\ now < b.end THEN b.end ELSE now
  IN  c[Len(day.breaks)]
Buffer(plan) == OrElse(plan.buffer, LiveBuffer)
SkippedBreak(day, plan, cursor) ==
  LET ahead == Where(day.breaks, LAMBDA b : b.start > cursor)
  IN  IF ahead # <<>> /\ Head(ahead).start - cursor < Buffer(plan)
      THEN MaxOf({cursor, Head(ahead).end}) ELSE cursor

(* One turn of the loop over a day: the cursor, the matches placed and how    *)
(* many are left to place, none when the day is over.                        *)
Turn(plan, i, day, s) ==
  LET at == Flushed(day, s.cursor)
      after == SkippedBreak(day, plan, at)
      end == at + CycleFor(day, plan, Len(s.placed) + 1)
  IN  IF s.left = 0 THEN s
      ELSE IF after # at THEN [s EXCEPT !.cursor = after]
      ELSE IF end > day.end THEN [s EXCEPT !.left = 0]
      ELSE [cursor |-> end, left |-> s.left - 1,
            placed |-> Append(s.placed, [day |-> i, start |-> at, end |-> end])]

(* The matches placed after the i-th day: a turn that places none skips one   *)
(* break for good.                                                           *)
FillDay(plan, i, placed, left) ==
  LET day == DayKeys(plan.days[i])
      turns == left + Len(day.breaks)
      state[n \in 0 .. turns] ==
        IF n = 0 THEN [cursor |-> day.start, placed |-> placed, left |-> left]
        ELSE Turn(plan, i, day, state[n - 1])
  IN  state[turns].placed

PlacedOn(plan, matches) ==
  LET after[i \in 0 .. Len(plan.days)] ==
        IF i = 0 THEN <<>>
        ELSE LET placed == after[i - 1]
                 left == matches - Len(placed)
                 early == DayKeys(plan.days[i]).earlyEnd
             IN  FillDay(plan, i, placed, IF early # 0 /\ early < left THEN early ELSE left)
  IN  after[Len(plan.days)]
ComputeScheduledStarts(plan, matches) == PlacedOn(Simulated(plan), matches)
=============================================================================
