------------------------------ MODULE PlanStore ------------------------------
(***************************************************************************)
(* The day plans the database keeps: the writes that normalise and validate *)
(* them (app/main.py), the history a write leaves and a restore takes back,  *)
(* and the script that rewrites V1 rows table by table while it may crash    *)
(* (scripts/migrate_db_to_v2.py). One row of each table is followed.         *)
(***************************************************************************)
EXTENDS PlanSources

CONSTANTS
  OldPlans,       \* V1 plans rows were stored with before V2
  Typed,          \* plans the editor or an API client sends, of either shape
  DayPlanFiles,   \* what the model extracted from PDF day plans
  MatchFiles,     \* match times of a schedule file: [times, practice]
  MaxSaves,       \* bound: writes to the schedule in a behaviour
  MaxRuns,        \* bound: starts of the script
  Traffic,        \* does the server accept writes while the script runs?
  NoPlan,         \* the row is not there
  Matches         \* number of matches a simulation places

(* Every window that is given ends after it starts; a day's is given.        *)
Forward(b) == HasWindow(b) => b.start < b.end
WellTimed(plan) ==
  /\ \A i \in DOMAIN plan.days :
       WindowOk(plan.days[i]) /\ \A b \in ToSet(plan.days[i].breaks) : Forward(b)
  /\ \A p \in ToSet(plan.playoffs) : Forward(p)
  /\ plan.practice # NoPractice =>
       Forward(plan.practice) /\ \A b \in ToSet(plan.practice.breaks) : Forward(b)

ASSUME PlansAssumption ==
  /\ OldPlans \subseteq PlansV1 /\ \A plan \in OldPlans : WellTimed(plan)
  /\ Typed \subseteq PlansV1 \cup PlansV2
  /\ DayPlanFiles \subseteq Seq(FileBlocks)
  /\ \A f \in MatchFiles : {f.times, f.practice} \subseteq Seq(0 .. 2 * DayLength)
  /\ NoPlan \notin PlansV1 \cup PlansV2
  /\ MaxSaves \in Nat /\ MaxRuns \in Nat /\ Traffic \in BOOLEAN
  /\ Matches \in Nat

Tables == <<"abstract", "assigned", "history">>
Rows == ToSet(Tables)

VARIABLES
  rows,      \* the stored day plan of each table's row
  wanted,    \* what the row was last given: [from, plan | file]
  script,    \* the migration: [at: 0 or table, read, copy, late, runs]; late: the
             \* row was written after the script had read it
  saves
vars == <<rows, wanted, script, saves>>

From(kind, what) == [from |-> kind, what |-> what]

Init ==
  \E old \in OldPlans :
    /\ rows = [r \in Rows |-> IF r = "history" THEN NoPlan ELSE old]
    /\ wanted = [r \in Rows |-> From("client", old)]
    /\ script = [at |-> 0, read |-> FALSE, copy |-> NoPlan, late |-> FALSE, runs |-> 0]
    /\ saves = 0

Serving == (Traffic \/ script.at = 0) /\ saves < MaxSaves
ReadByScript(r) == script.read /\ Tables[script.at] = r
Written ==
  script' = [script EXCEPT !.late = @ \/ ReadByScript("assigned") \/ ReadByScript("history")]

(* A write endpoint: the plan is migrated and validated, else refused with   *)
(* 400; the row's earlier plan is kept as it was.                            *)
NormalizeDc(plan) == Dumped(MigrateV1ToV2(plan))
\* Faulty: the snapshot is taken of the new plan.
Save_SnapshotAfter(plan, origin) ==
  /\ Serving /\ rows["assigned"] # NoPlan
  /\ Validates(MigrateV1ToV2(plan))
  /\ rows' = [rows EXCEPT !["assigned"] = NormalizeDc(plan), !["history"] = NormalizeDc(plan)]
  /\ wanted' = [wanted EXCEPT !["assigned"] = origin, !["history"] = wanted["assigned"]]
  /\ saves' = saves + 1
  /\ Written
Save(plan, origin) ==
  /\ Serving /\ rows["assigned"] # NoPlan
  /\ Validates(MigrateV1ToV2(plan))
  /\ rows' = [rows EXCEPT !["assigned"] = NormalizeDc(plan), !["history"] = rows["assigned"]]
  /\ wanted' = [wanted EXCEPT !["assigned"] = origin, !["history"] = wanted["assigned"]]
  /\ saves' = saves + 1
  /\ Written
SaveTyped == \E plan \in Typed : Save(plan, From("client", plan))
SaveDayPlan == \E x \in DayPlanFiles : Save(ToV2DayConfig(x), From("pdf", x))
SaveDerived ==
  \E f \in MatchFiles : Save(DeriveParameters(f.times, f.practice), From("times", f))

(* A restore stores the history row's plan as it is, after a snapshot.       *)
Restore ==
  /\ Serving /\ rows["history"] # NoPlan /\ rows["assigned"] # NoPlan
  /\ rows' = [rows EXCEPT !["assigned"] = rows["history"], !["history"] = rows["assigned"]]
  /\ wanted' = [wanted EXCEPT !["assigned"] = wanted["history"],
                              !["history"] = wanted["assigned"]]
  /\ saves' = saves + 1
  /\ Written
Delete ==
  /\ Serving /\ rows["assigned"] # NoPlan
  /\ rows' = [rows EXCEPT !["assigned"] = NoPlan, !["history"] = NoPlan]
  /\ saves' = saves + 1
  /\ Written /\ UNCHANGED wanted

-----------------------------------------------------------------------------
(* The script: each table is read as a whole, then its V1 rows are written   *)
(* and committed; a crash or an error ends it between any two steps.         *)
StartScript ==
  /\ script.at = 0 /\ script.runs < MaxRuns
  /\ script' = [script EXCEPT !.at = 1, !.runs = @ + 1]
  /\ UNCHANGED <<rows, wanted, saves>>
ReadTable ==
  /\ script.at # 0 /\ ~script.read
  /\ script' = [script EXCEPT !.read = TRUE, !.copy = rows[Tables[script.at]]]
  /\ UNCHANGED <<rows, wanted, saves>>
NextTable == IF script.at = Len(Tables) THEN 0 ELSE script.at + 1
Unread(at) == [script EXCEPT !.at = at, !.read = FALSE, !.copy = NoPlan, !.late = FALSE]
ToWrite(copy) == copy # NoPlan /\ copy.v # 2
(* A write to the assigned row since then is overwritten; in the history it  *)
(* was an insert, so the row the script has read is no longer the last one.  *)
CommitTable ==
  LET row == Tables[script.at]
      writes == ToWrite(script.copy) /\ (script.late => row # "history")
  IN  /\ script.at # 0 /\ script.read
      /\ ToWrite(script.copy) => rows[row] # NoPlan
      /\ rows' = IF writes THEN [rows EXCEPT ![row] = MigrateV1ToV2(script.copy)] ELSE rows
      /\ wanted' = IF writes /\ script.late
                   THEN [wanted EXCEPT ![row] = From("script", script.copy)] ELSE wanted
      /\ script' = Unread(NextTable)
      /\ UNCHANGED saves
(* Also what an update of a row that is gone does: the flush raises.         *)
ScriptDies ==
  /\ script.at # 0
  /\ script' = Unread(0)
  /\ UNCHANGED <<rows, wanted, saves>>

Next ==
  \/ SaveTyped \/ SaveDayPlan \/ SaveDerived \/ Restore \/ Delete
  \/ StartScript \/ ReadTable \/ CommitTable \/ ScriptDies

Spec == Init /\ [][Next]_vars
-----------------------------------------------------------------------------
(* What a plan says, in either shape: <<day, type, start, end>> of every     *)
(* window. Days are counted with the practice day as the first.              *)
Window(i, type, b) == <<i, type, b.start, b.end>>
WindowsV2(plan) ==
  UNION {{Window(i, b.type, b) : b \in ToSet(plan.days[i])}
           \cup UNION {{Window(i, c.type, c) : c \in ToSet(b.breaks)} : b \in ToSet(plan.days[i])}
         : i \in DOMAIN plan.days}
WindowsV1(plan) ==
  LET practising == plan.practice # NoPractice /\ HasWindow(plan.practice)
      At(i) == IF practising THEN i + 1 ELSE i
  IN  (IF ~practising THEN {}
       ELSE {Window(1, "practice", plan.practice)}
              \cup {Window(1, "break", b) : b \in ToSet(Timely(plan.practice.breaks))})
      \cup UNION {{Window(At(i), "qualification", plan.days[i])}
                    \cup {Window(At(i), DetectSubtype(b.name), b) : b \in ToSet(Timely(plan.days[i].breaks))}
                    \cup {Window(At(i), "playoff", p) :
                            p \in {q \in ToSet(Timely(plan.playoffs)) : q.day = i - 1}}
                  : i \in DOMAIN plan.days}
Windows(plan) == IF plan.v = 2 THEN WindowsV2(plan) ELSE WindowsV1(plan)
Given(origin) ==
  CASE origin.from = "pdf" -> ToV2DayConfig(origin.what)
    [] origin.from = "times" -> DeriveParameters(origin.what.times, origin.what.practice)
    [] OTHER -> origin.what

(* Every row holds a plan of one of the two shapes, and a V2 plan in use is  *)
(* one the schema accepts: the script, which does not validate, writes no    *)
(* plan that a later save would refuse.                                      *)
TypeOK ==
  /\ script.at \in 0 .. Len(Tables) /\ script.read \in BOOLEAN /\ script.runs \in 0 .. MaxRuns
  /\ saves \in 0 .. MaxSaves
  /\ \A r \in Rows : rows[r] # NoPlan => rows[r].v \in {1, 2} /\
       (rows[r].v = 2 => \A i \in DOMAIN rows[r].days : \A b \in ToSet(rows[r].days[i]) :
          /\ 0 < b.start /\ b.start < b.end
          /\ \A c \in ToSet(b.breaks) : 0 < c.start /\ c.start < c.end /\ c.type \in Tier3
          /\ b.type \in Tier3 => b.breaks = <<>>)

(* No window a user gave is lost, or moved to another day or another kind:   *)
(* whatever saves, restores, script runs and script crashes a row went       *)
(* through, it says what it was last given (migrate_v1_to_v2 and             *)
(* migrate_table against the PATCH, import and restore endpoints).  Of all   *)
(* saves only those that reach the assigned row between the script's read of *)
(* its table and the commit are lost, and the row then says what the script  *)
(* had read; that takes a server that accepts writes meanwhile.              *)
SavesAreKept ==
  \A r \in Rows : rows[r] # NoPlan =>
    /\ Windows(rows[r]) = Windows(Given(wanted[r]))
    /\ wanted[r].from = "script" => Traffic /\ r # "abstract"

(* A plan of a V1 client's kind survives being shown in V1 shape and saved   *)
(* again from there: every V1 plan does, and a V2 plan of a practice day     *)
(* first if at all and days of one qualification block each, whose breaks    *)
(* have names that tell their types, since V1 keeps the name only, and are   *)
(* plain ones within practice and none within playoffs.  Every window        *)
(* returns to its day, though the days are renumbered when the practice day  *)
(* leaves the list and playoffs find their day by number                     *)
(* (downgrade_v2_to_v1, then migrate_v1_to_v2).  And in V1 shape nothing is  *)
(* scheduled between two match blocks of one day: the V1 day a V2 day became *)
(* has, for every such gap, a break of its own that spans it, a real one or  *)
(* the Idle break the downgrade adds.  The first day of practice alone       *)
(* becomes the practice slot instead, which keeps its first block only.      *)
PlainPractice(blocks) ==
  \E p \in blocks : /\ blocks = {p} /\ p.type = "practice"
                    /\ \A c \in ToSet(p.breaks) : c.type = "break"
NameTells(b) == DetectSubtype(BreakName(b)) = b.type
PlainDay(blocks) ==
  /\ \E q \in blocks : q.type = "qualification" /\ \A b \in blocks : b.type \in MatchTypes => b = q
  /\ \A b \in blocks : /\ b.type = "playoff" => b.breaks = <<>>
                       /\ b.type \in Tier3 => NameTells(b)
                       /\ \A c \in ToSet(b.breaks) : NameTells(c)
Plain(plan) ==
  \A i \in DOMAIN plan.days :
    (i = 1 /\ PlainPractice(ToSet(plan.days[i]))) \/ PlainDay(ToSet(plan.days[i]))
RoundTripKeepsWindows ==
  \A r \in Rows : rows[r] # NoPlan /\ (rows[r].v = 2 => Plain(rows[r])) =>
    Windows(MigrateV1ToV2(DowngradeV2ToV1(MigrateV1ToV2(rows[r])))) = Windows(rows[r])

PracticeOnly(blocks) ==
  OfType(blocks, {"practice"}) # <<>> /\ OfType(blocks, {"qualification"}) = <<>>
TakenAsPractice(plan, i) ==
  PracticeOnly(plan.days[i]) /\ \A j \in 1 .. i - 1 : ~PracticeOnly(plan.days[j])
ShownDays(plan) == {i \in DOMAIN plan.days : plan.days[i] # <<>> /\ ~TakenAsPractice(plan, i)}
Spanned(breaks, from, to) == \E idle \in ToSet(breaks) : idle.start <= from /\ to <= idle.end
GapsStayIdle ==
  \A r \in Rows : rows[r] # NoPlan /\ rows[r].v = 2 =>
    \A i \in ShownDays(rows[r]) :
      LET blocks == {b \in ToSet(rows[r].days[i]) : b.type \in MatchTypes}
          shownAs == Cardinality({j \in ShownDays(rows[r]) : j <= i})
          view == DowngradeV2ToV1(rows[r])
      IN  /\ shownAs \in DOMAIN view.days
          /\ \A b, c \in blocks :
               b.end < c.start /\ (\A o \in blocks : o.end <= b.end \/ o.start >= c.start)
                 => Spanned(view.days[shownAs].breaks, b.end, c.start)
V1ViewIsFaithful == RoundTripKeepsWindows /\ GapsStayIdle

(* Qualifications stop for the playoffs of their day (the auto-cap of        *)
(* to_legacy_day_config, through the renumbering of to_v2_day_config): in a  *)
(* plan extracted from a PDF the qualification window of a day ends before   *)
(* any playoff the PDF gives for that day.  The plan's own playoffs start    *)
(* after it too, if the PDF times some qualification on every day of         *)
(* qualifications and has playoffs on such days only; else a playoff may be  *)
(* moved to another day, and PlayoffsAreClearOfQuals does not hold.          *)
OnQualDays(x) ==
  \A b \in ToSet(x) : b.kind = "playoff" => \E d \in ToSet(PlannedDays(x)) : d = b.day
Overlaps(blocks) ==
  \E b, c \in ToSet(blocks) : b.type = "qualification" /\ c.type = "playoff" /\ b.end > c.start
QualsStopForPlayoffs ==
  \A r \in Rows : rows[r] # NoPlan /\ wanted[r].from = "pdf" =>
    LET x == wanted[r].what
        days == rows[r].days
        practice == Len(days) - Len(PlannedDays(x))
    IN  /\ \A i \in DOMAIN PlannedDays(x) : \A b \in ToSet(days[practice + i]), p \in ToSet(x) :
             b.type = "qualification" /\ p.kind = "playoff" /\ p.day = PlannedDays(x)[i]
               /\ p.start # 0 => b.end <= p.start
        /\ OnQualDays(x) /\ PlannedDays(x) = QualDays(x)
             => \A i \in DOMAIN days : ~Overlaps(days[i])

(* What pdf_dayplan.py:321-324 says of the auto-cap: "This prevents the      *)
(* scheduler from placing quals into the playoff window."                    *)
PlayoffsAreClearOfQuals ==
  \A r \in Rows : rows[r] # NoPlan /\ wanted[r].from = "pdf" =>
    \A i \in DOMAIN rows[r].days : ~Overlaps(rows[r].days[i])

(* A plan guessed from match times has room for those matches: each lies in  *)
(* the qualification window and in none of its breaks, for a file whose      *)
(* matches are in the order of their times within one calendar day           *)
(* (derive_parameters; a list of several days, whose times start over, gets  *)
(* a window from its first match to its last, not from the earliest to the   *)
(* latest).  And a simulation starts no match inside a break or within the   *)
(* buffer before one, ends none after its day, and lets no two matches of a  *)
(* day overlap (_compute_scheduled_starts), in the days as it reads them:    *)
(* those of a V1 plan, and for a V2 plan days of the default hours without   *)
(* breaks.                                                                   *)
OneCalendarDay(t, cycle) ==
  /\ \A j, k \in DOMAIN t : j < k => t[j] <= t[k]
  /\ \A k \in DOMAIN t : t[k] + cycle <= DayLength
DerivedPlanHoldsItsMatches ==
  \A r \in Rows : rows[r] # NoPlan /\ wanted[r].from = "times" =>
    LET t == Timed(wanted[r].what.times)
        qual == Last(rows[r].days)[1]
    IN  OneCalendarDay(t, qual.ct) => \A k \in DOMAIN t :
          /\ qual.start <= t[k] /\ t[k] + qual.ct <= qual.end
          /\ \A b \in ToSet(qual.breaks) : t[k] + qual.ct <= b.start \/ b.end <= t[k]

MatchesKeepToTheDay ==
  \A r \in Rows : rows[r] # NoPlan =>
    LET placed == ComputeScheduledStarts(rows[r], Matches)
    IN  \A k \in DOMAIN placed :
          LET m == placed[k]
              day == DayKeys(Simulated(rows[r]).days[m.day])
          IN  /\ day.start <= m.start /\ m.end <= day.end
              /\ \A j \in 1 .. k - 1 : placed[j].day = m.day => placed[j].end <= m.start
              /\ \A b \in ToSet(day.breaks) :
                   b.end <= m.start \/ m.start + Buffer(rows[r]) <= b.start

ClocksHoldTheMatches == DerivedPlanHoldsItsMatches /\ MatchesKeepToTheDay
=============================================================================
