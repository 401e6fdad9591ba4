------------------------------ MODULE Quality ------------------------------
(***************************************************************************)
(* How the server grades a schedule: the floors of app/quality_floors.py,  *)
(* the observed metrics of app/quality_report.py and the curves, weights   *)
(* and composite of app/quality_scoring.py, over the schedules of          *)
(* Annealer.  Scores are in thousandths of a point where the code has      *)
(* floats.                                                                 *)
(***************************************************************************)
EXTENDS Annealer

CONSTANTS
    Quota,        \* matches_per_team the report is asked for
    Weights,      \* organiser's weights, in tenths, possibly out of range
    BestKnown     \* what the canonical library's entry for this shape achieves

Criteria == {"cooldown", "partner", "opponent", "surrogate", "color", "station"}

ASSUME QuotaAssumption ==
    /\ Quota \in Nat \ {0} /\ Cardinality(Teams) >= 2
    /\ Weights \in [Criteria -> Int]
    /\ DOMAIN BestKnown \subseteq Criteria
    /\ \A c \in DOMAIN BestKnown : BestKnown[c] \in Nat

CeilDiv(x, y) == (x + y - 1) \div y
TotalSlots    == Cardinality(Teams) * Quota
TotalMatches  == CeilDiv(TotalSlots, 2 * Alliance)

(* The construction hands over as many matches as the quota needs          *)
(* (Construction, EveryoneIsSeated).                                       *)
ASSUME MatchesAssumption == \A w \in Starts : Len(w) = TotalMatches

(* A team plays its quota and once more for each surrogate appearance.     *)
(* Not every schedule is like that: with a quota of one the teams that     *)
(* play twice are not flagged, and where the construction of the FIRST     *)
(* model runs out of teams under their target it takes teams that reached  *)
(* it (scheduler.py:702-728), so that some play once too often without a   *)
(* flag and others once too seldom.                                        *)
QuotaIsPlayed(w) ==
    \A t \in Teams : Count(Plays(w, t)) = Quota + Count({i \in DOMAIN w : t \in w[i].sur})

\* Faulty: the floor rounded up.
QuadFloor_Ceil(perTeam) ==
    LET pairs == Cardinality(Pairs)
        total == (Cardinality(Teams) * perTeam) \div 2
        high  == CeilDiv(total, pairs) IN
    pairs * high * high

(* _pair_count_floors: encounters spread as evenly as pairs allow.         *)
QuadFloor(perTeam) ==
    LET pairs == Cardinality(Pairs)
        total == (Cardinality(Teams) * perTeam) \div 2
        low   == total \div pairs
        high  == total - low * pairs IN
    high * (low + 1) * (low + 1) + (pairs - high) * low * low

Floor ==
    [cooldown  |-> 0,
     partner   |-> QuadFloor(Quota * (Alliance - 1)),
     opponent  |-> QuadFloor(Quota * Alliance),
     surrogate |-> TotalMatches * 2 * Alliance - TotalSlots,
     color     |-> Quota % 2,
     station   |-> IF Quota % (2 * Alliance) = 0 THEN 0 ELSE 1]

(* compute_metrics: what the schedule achieves, on the same criteria.      *)
Metric(w) ==
    LET built == Built(w)
        lean  == Imbalance(built.st) IN
    [cooldown  |-> Violations(built.plays),
     partner   |-> Squares(built.par),
     opponent  |-> Squares(built.opp),
     surrogate |-> Sum(built.sur),
     color     |-> Max({lean[t] : t \in Teams}),
     station   |-> Max({Spread(built.st[t]) : t \in Teams})]

-----------------------------------------------------------------------------
Above(value, floor) == Max({0, value - floor})
Full == 100000

(* The curves: binary for the paramount criterion, quadratic decay for the *)
(* pair criteria, 25 points per unit for the others.                       *)
Curve(c, value, floor) ==
    LET d == Above(value, floor) IN
    CASE c = "cooldown" -> IF d = 0 THEN Full ELSE 0
      [] c \in {"partner", "opponent"} /\ floor = 0 -> IF d = 0 THEN Full ELSE 0
      [] c \in {"partner", "opponent"} /\ floor > 0 ->
           Max({0, (Full * (floor * floor - d * d)) \div (floor * floor)})
      [] OTHER -> Max({0, Full - d * 25000})

(* _normalize_weights: 0 to 5, and cooldown at least 1.                    *)
Weight(c) ==
    LET clamped == Max({0, Min({50, Weights[c]})}) IN
    IF c = "cooldown" THEN Max({10, clamped}) ELSE clamped

(* compute_scores: what the library has achieved replaces the floor; the   *)
(* uncapped composite, and the paramount gate.                             *)
Against(c) == IF c \in DOMAIN BestKnown THEN BestKnown[c] ELSE Floor[c]
Uncapped(m) ==
    Sum([c \in Criteria |-> Weight(c) * Curve(c, m[c], Against(c))])
      \div Sum([c \in Criteria |-> Weight(c)])
Composite(m) == IF m["cooldown"] > 0 THEN 0 ELSE Uncapped(m)

-----------------------------------------------------------------------------
(* No schedule the searches reach, surrogates included, is graded below a  *)
(* floor quality_floors.py calls proven.  The floors of cooldown, partners *)
(* and opponents hold whatever the construction hands over; those of       *)
(* surrogates, colours and stations, which quality_floors.py derives from  *)
(* the quota, where every team plays it but for its flagged appearances.   *)
(* A composite is a number of points from 0 to 100 whatever the weights;   *)
(* and the schedule a search hands on, when it is at least as good on      *)
(* every criterion as the one it was given, has no fewer points.           *)
FloorsHold ==
    LET m == Metric(work) IN
    \A c \in Criteria :
        c \in {"cooldown", "partner", "opponent"} \/ QuotaIsPlayed(start) => m[c] >= Floor[c]
GradesAreFair ==
    phase \in {"rb", "station", "polish"} =>
        LET m == Metric(work)
            n == Metric(start) IN
        /\ Composite(m) \in 0 .. Full /\ Uncapped(m) \in 0 .. Full
        /\ (\A c \in Criteria : m[c] <= n[c]) => Uncapped(m) >= Uncapped(n)
GradesStand == FloorsHold /\ GradesAreFair
=============================================================================
