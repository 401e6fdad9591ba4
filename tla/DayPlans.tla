------------------------------ MODULE DayPlans ------------------------------
(***************************************************************************)
(* The day plan of a schedule in its two shapes and the conversions between *)
(* them (app/day_config_v2.py, app/pdf_dayplan.py, app/schedule_derive.py). *)
(* V1 keeps a practice slot, regular days with a flat list of breaks, and   *)
(* playoffs in a list of their own that names the day by position; V2 is a  *)
(* list of days, each a list of typed blocks whose breaks are nested.       *)
(* Times number the minutes of a day from 1, 0 is "no time given"; dates,   *)
(* labels that no property reads and the counts of practice matches are     *)
(* left out.                                                                *)
(***************************************************************************)
EXTENDS Integers, Sequences, SequencesExt, FiniteSets

CONSTANTS
  DefaultCycle,   \* DEFAULT_CYCLE_TIME
  PlayoffCycle,   \* DEFAULT_PLAYOFF_CT
  PracticeCycle,  \* DEFAULT_PRACTICE_CT
  DefaultBuffer,  \* DEFAULT_BREAK_BUFFER
  BreakGap,       \* the 30 minutes above which a gap between matches is a break
  NoPractice      \* a V1 plan without an enabled practice day

ASSUME CyclesAssumption ==
  {DefaultCycle, PlayoffCycle, PracticeCycle, DefaultBuffer, BreakGap} \subseteq Nat \ {0}

Tier2 == {"practice", "qualification", "playoff"}
Tier3 == {"break", "awards", "alliance_selection", "ceremony"}
MatchTypes == {"practice", "qualification"}

MinOf(S) == CHOOSE x \in S : \A y \in S : x <= y
MaxOf(S) == CHOOSE x \in S : \A y \in S : x >= y
Mapped(op(_), s) == [k \in DOMAIN s |-> op(s[k])]

(* The elements of s at the positions of I, in their order; those that pass  *)
(* a test; and a stable sort.                                                *)
Picked(s, I) ==
  LET upTo[k \in 0 .. Len(s)] ==
        IF k = 0 THEN <<>>
        ELSE IF k \in I THEN Append(upTo[k - 1], s[k]) ELSE upTo[k - 1]
  IN  upTo[Len(s)]
Where(s, Test(_)) == Picked(s, {k \in DOMAIN s : Test(s[k])})

Inserted(blocks, b) ==
  LET before == Cardinality({k \in DOMAIN blocks : blocks[k].start <= b.start})
  IN  SubSeq(blocks, 1, before) \o <<b>> \o SubSeq(blocks, before + 1, Len(blocks))
ByStart(blocks) ==
  LET upTo[k \in 0 .. Len(blocks)] ==
        IF k = 0 THEN <<>> ELSE Inserted(upTo[k - 1], blocks[k])
  IN  upTo[Len(blocks)]

(* The names a break can carry, by the keyword the classifiers look for.    *)
Names == {"", "awards ceremony", "alliance selection", "opening", "closing",
          "ceremony", "lunch", "break", "setup"}

DetectSubtype(name) ==
  CASE name = "awards ceremony" -> "awards"
    [] name = "alliance selection" -> "alliance_selection"
    [] name \in {"opening", "closing", "ceremony"} -> "ceremony"
    [] OTHER -> "break"

DetectCeremonyKind(name, hint) ==
  CASE name = "opening" -> "opening"
    [] name = "closing" -> "closing"
    [] OTHER -> IF hint = "last" THEN "closing" ELSE "opening"

DetectBreakKind(name) ==
  CASE name = "lunch" -> "lunch"
    [] name \in {"", "break"} -> "break"
    [] OTHER -> "other"

-----------------------------------------------------------------------------
(* The plans of either shape.                                                *)
ChangesV1 == [isStart : BOOLEAN, after : Nat, time : Nat]
BreaksV1 == [name : Names, start : Nat, end : Nat]
PracticesV1 == [start : Nat, end : Nat, ct : Nat, changes : Seq(ChangesV1), breaks : Seq(BreaksV1)]
DaysV1 == [start : Nat, end : Nat, ct : Nat, changes : Seq(ChangesV1), breaks : Seq(BreaksV1),
           earlyEnd : Nat]
PlayoffsV1 == [day : Nat, start : Nat, end : Nat, ct : Nat]
PlansV1 == [v : {1}, ct : Nat, buffer : Nat, practice : PracticesV1 \cup {NoPractice},
            days : Seq(DaysV1), playoffs : Seq(PlayoffsV1)]

BlockKinds == {"", "lunch", "break", "other", "opening", "closing"}
ChangesV2 == [after : Nat, time : Nat]
NestedV2 == [type : Tier2 \cup Tier3, start : Nat, end : Nat, kind : BlockKinds, name : Names,
             ct : Nat, changes : Seq(ChangesV2), breaks : {<<>>}]
BlocksV2 == [type : Tier2 \cup Tier3, start : Nat, end : Nat, kind : BlockKinds, name : Names,
             ct : Nat, changes : Seq(ChangesV2), breaks : Seq(NestedV2)]
PlansV2 == [v : {2}, ct : Nat, buffer : Nat, days : Seq(Seq(BlocksV2))]

ASSUME PracticeAssumption == NoPractice \notin PracticesV1

-----------------------------------------------------------------------------
(* V2: every block has the same fields; a leaf leaves the later ones empty.  *)
Leaf(type, b, kind) ==
  [type |-> type, start |-> b.start, end |-> b.end, kind |-> kind,
   name |-> IF b.name = "" THEN "break" ELSE b.name,
   ct |-> 0, changes |-> <<>>, breaks |-> <<>>]
MatchBlock(type, w, ct, changes, breaks) ==
  [type |-> type, start |-> w.start, end |-> w.end, kind |-> "", name |-> "",
   ct |-> ct, changes |-> changes, breaks |-> breaks]

HasWindow(b) == b.start # 0 /\ b.end # 0
WindowOk(b) == HasWindow(b) /\ b.start < b.end
ChangesOk(b) == \A c \in ToSet(b.changes) : c.after >= 1 /\ c.time > 0
\* Faulty: any block may be nested.
TierRule_AnyChild(b) == b.breaks # <<>> => b.type \in Tier2
TierRule(b) == \A c \in ToSet(b.breaks) : b.type \in Tier2 /\ c.type \in Tier3
BlockOk(b) ==
  /\ WindowOk(b) /\ ChangesOk(b) /\ TierRule(b)
  /\ \A c \in ToSet(b.breaks) : WindowOk(c) /\ c.breaks = <<>>
Validates(plan) == \A d \in DOMAIN plan.days : \A b \in ToSet(plan.days[d]) : BlockOk(b)

(* The defaults validation fills in; the result is what is stored.          *)
Filled(b) ==
  CASE b.type = "playoff" /\ b.ct = 0 -> [b EXCEPT !.ct = PlayoffCycle]
    [] b.type = "practice" /\ b.ct = 0 -> [b EXCEPT !.ct = PracticeCycle]
    [] b.type = "qualification" /\ b.ct = 0 -> [b EXCEPT !.ct = DefaultCycle]
    [] b.type = "break" /\ b.kind = "" -> [b EXCEPT !.kind = "break"]
    [] b.type = "ceremony" /\ b.kind = "" -> [b EXCEPT !.kind = "opening"]
    [] OTHER -> b
Dumped(plan) ==
  [plan EXCEPT !.days = Mapped(LAMBDA d : Mapped(Filled, d), plan.days)]

-----------------------------------------------------------------------------
(* V1 to V2.                                                                 *)
BaseCycle(changes, otherwise) ==
  LET starts == Where(changes, LAMBDA c : c.isStart /\ c.time # 0)
  IN  IF starts = <<>> THEN otherwise ELSE Last(starts).time
LaterChanges(changes) ==
  Mapped(LAMBDA c : [after |-> c.after, time |-> c.time],
         Where(changes, LAMBDA c : ~c.isStart /\ c.after # 0 /\ c.time # 0))
OrElse(x, y) == IF x # 0 THEN x ELSE y

Timely(blocks) == Where(blocks, HasWindow)
BreakLeaves(breaks) ==
  Mapped(LAMBDA b : Leaf("break", b, DetectBreakKind(b.name)), breaks)

PracticeDays(plan) ==
  LET p == plan.practice
  IN  IF p = NoPractice \/ ~HasWindow(p) THEN <<>>
      ELSE << << MatchBlock("practice", p,
                   BaseCycle(p.changes, OrElse(p.ct, plan.ct)), LaterChanges(p.changes),
                   BreakLeaves(Timely(p.breaks))) >> >>

NestedBreaks(day) ==
  Where(day.breaks, LAMBDA b : HasWindow(b) /\ DetectSubtype(b.name) = "break")
HoistedBreaks(day) ==
  Where(day.breaks, LAMBDA b : HasWindow(b) /\ DetectSubtype(b.name) # "break")
(* The hint counts every hoisted block but compares with the ceremonies.     *)
Hoisted(day) ==
  LET up == HoistedBreaks(day)
      ceremonies ==
        Cardinality({k \in DOMAIN day.breaks : DetectSubtype(day.breaks[k].name) = "ceremony"})
      Hint(k) == IF k = 1 THEN "first" ELSE IF k = ceremonies THEN "last" ELSE "none"
      Kind(k) == IF DetectSubtype(up[k].name) = "ceremony"
                 THEN DetectCeremonyKind(up[k].name, Hint(k)) ELSE ""
  IN  [k \in DOMAIN up |-> Leaf(DetectSubtype(up[k].name), up[k], Kind(k))]

QualOf(plan, day) ==
  MatchBlock("qualification", day, BaseCycle(day.changes, OrElse(day.ct, plan.ct)),
    LaterChanges(day.changes), BreakLeaves(NestedBreaks(day)))
PlayoffsOf(plan, i) ==
  Mapped(LAMBDA p : MatchBlock("playoff", p, OrElse(p.ct, PlayoffCycle), <<>>, <<>>),
         Where(plan.playoffs, LAMBDA p : p.day = i - 1 /\ HasWindow(p)))
RegularDay(plan, i) ==
  ByStart(<<QualOf(plan, plan.days[i])>> \o Hoisted(plan.days[i]) \o PlayoffsOf(plan, i))

MigrateV1ToV2(plan) ==
  IF plan.v = 2 THEN plan
  ELSE [v |-> 2, ct |-> plan.ct, buffer |-> plan.buffer,
        days |-> PracticeDays(plan) \o [i \in DOMAIN plan.days |-> RegularDay(plan, i)]]

-----------------------------------------------------------------------------
(* V2 to V1.                                                                 *)
OfType(blocks, types) == Where(blocks, LAMBDA b : b.type \in types)
BreakName(b) ==
  IF b.name # "" THEN b.name
  ELSE CASE b.type = "ceremony" -> IF b.kind = "closing" THEN "closing" ELSE "opening"
         [] b.type = "alliance_selection" -> "alliance selection"
         [] b.type = "awards" -> "awards ceremony"
         [] OTHER -> IF b.kind = "lunch" THEN "lunch" ELSE "break"
V1Break(b) == [name |-> BreakName(b), start |-> b.start, end |-> b.end]
V1Changes(b, offset) ==
  Mapped(LAMBDA c : [isStart |-> FALSE, after |-> c.after + offset, time |-> c.time],
         Where(b.changes, LAMBDA c : c.after # 0 /\ c.time # 0))
StartAt(time) == [isStart |-> TRUE, after |-> 0, time |-> time]

V1Practice(p) ==
  [start |-> p.start, end |-> p.end, ct |-> p.ct, breaks |-> Mapped(V1Break, p.breaks),
   changes |-> (IF p.ct # 0 THEN <<StartAt(p.ct)>> ELSE <<>>) \o V1Changes(p, 0)]

(* Matches a block has room for, and the matches before the k-th of a day.   *)
Room(b) == (b.end - b.start) \div OrElse(b.ct, DefaultCycle)
OffsetAt(blocks, k, base) ==
  LET before[n \in 0 .. k - 1] == IF n = 0 THEN base ELSE before[n - 1] + Room(blocks[n])
  IN  before[k - 1]

(* The gap after the k-th match block, when no break spans it, is an Idle.   *)
IdleGaps(blocks, breaks) ==
  LET Open(k) == /\ k < Len(blocks) /\ blocks[k].end < blocks[k + 1].start
                 /\ \A b \in ToSet(breaks) :
                      ~(b.start <= blocks[k].end /\ b.end >= blocks[k + 1].start)
      idle == Where([k \in DOMAIN blocks |-> k], Open)
  IN  Mapped(LAMBDA k : [name |-> "break", start |-> blocks[k].end,
                         end |-> blocks[k + 1].start], idle)

DayBreaks(day) ==
  LET matchBlocks == ByStart(OfType(day, {"practice"}) \o OfType(day, {"qualification"}))
      flat == Mapped(V1Break, FlattenSeq(Mapped(LAMBDA b : b.breaks, matchBlocks))
                                \o OfType(day, Tier3))
  IN  ByStart(flat \o IdleGaps(matchBlocks, flat))

DayChanges(day, base, cycle) ==
  LET matchBlocks == ByStart(OfType(day, {"practice"}) \o OfType(day, {"qualification"}))
      Boundary(k) ==
        IF k > 1 THEN <<[isStart |-> FALSE, after |-> OffsetAt(matchBlocks, k, base),
                         time |-> OrElse(matchBlocks[k].ct, DefaultCycle)]>>
        ELSE IF OrElse(matchBlocks[k].ct, DefaultCycle) = cycle THEN <<>>
        ELSE <<StartAt(OrElse(matchBlocks[k].ct, DefaultCycle))>>
  IN  FlattenSeq([k \in DOMAIN matchBlocks |->
        Boundary(k) \o V1Changes(matchBlocks[k], OffsetAt(matchBlocks, k, base))])

(* The window of a regular day: its first qualification, else its first     *)
(* practice block, else all its blocks together.                            *)
DayWindow(day, cycle) ==
  LET match == OfType(day, {"qualification"}) \o OfType(day, {"practice"})
  IN  IF match # <<>>
      THEN [start |-> Head(match).start, end |-> Head(match).end, ct |-> OrElse(Head(match).ct, cycle)]
      ELSE [start |-> MinOf({b.start : b \in ToSet(day)}),
            end |-> MaxOf({b.end : b \in ToSet(day)}), ct |-> cycle]

\* Faulty: the practice day counts.
PlayoffIndex_Input(out) == Len(out.days) + (IF out.practice = NoPractice THEN 0 ELSE 1)

(* Playoffs name their day by its place in the list, which has no practice day. *)
PlayoffIndex(out) == Len(out.days)

DowngradeDay(plan, out, day) ==
  LET practices == OfType(day, {"practice"})
      quals == OfType(day, {"qualification"})
      window == DayWindow(day, plan.ct)
      matchBlocks == ByStart(practices \o quals)
  IN  CASE practices # <<>> /\ quals = <<>> /\ out.practice = NoPractice ->
             [out EXCEPT !.practice = V1Practice(Head(practices))]
        [] day = <<>> -> out
        [] OTHER ->
             [out EXCEPT
                !.days = Append(@, [start |-> window.start, end |-> window.end,
                   ct |-> window.ct, earlyEnd |-> 0, breaks |-> DayBreaks(day),
                   changes |-> DayChanges(day, out.offset, plan.ct)]),
                !.playoffs = @ \o Mapped(LAMBDA b : [day |-> PlayoffIndex(out),
                   start |-> b.start, end |-> b.end, ct |-> OrElse(b.ct, PlayoffCycle)],
                   OfType(day, {"playoff"})),
                !.offset = OffsetAt(matchBlocks, Len(matchBlocks) + 1, out.offset)]

DowngradeV2ToV1(plan) ==
  IF plan.v = 1 THEN plan
  ELSE LET none == [days |-> <<>>, playoffs |-> <<>>, practice |-> NoPractice, offset |-> 0]
           after[i \in 0 .. Len(plan.days)] ==
             IF i = 0 THEN none ELSE DowngradeDay(plan, after[i - 1], plan.days[i])
           out == after[Len(plan.days)]
       IN  [v |-> 1, ct |-> plan.ct, buffer |-> plan.buffer, days |-> out.days,
            playoffs |-> out.playoffs, practice |-> out.practice]
=============================================================================
