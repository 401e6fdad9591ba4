------------------------------ MODULE Annealer ------------------------------
(***************************************************************************)
(* What generate_matches and assign_teams do to a built schedule: the      *)
(* simulated annealing of app/scheduler.py (_sa_optimize), the red/blue    *)
(* and station post passes of app/post_passes, and the optional CP-SAT     *)
(* polish.  Each search works on a schedule and, beside it, on tables it   *)
(* updates move by move instead of recomputing them.                       *)
(*                                                                         *)
(* A match is its seats in order, the first half red and the second blue,  *)
(* and the set of its teams that play it as surrogates.  Which move is     *)
(* proposed and whether a worse one is accepted is random in the code and  *)
(* free here; the iteration counts are the bounds Moves.                   *)
(***************************************************************************)
EXTENDS Integers, FiniteSets, Sequences, FiniteSetsExt, SequencesExt

CONSTANTS
    Teams,
    Alliance,     \* teams per alliance: 3 in the code
    Starts,       \* schedules the construction may hand over
    Gap,          \* ideal_gap
    LargeEvent,   \* teams from which criterion 5 is the imbalance: 24
    Moves,        \* iterations of each search
    PolishMatches \* matches the CP-SAT polish flips, and reseats, at most

ASSUME BoundsAssumption ==
    /\ IsFiniteSet(Teams) /\ Teams # {} /\ Alliance \in Nat \ {0}
    /\ Gap \in Nat \ {0} /\ LargeEvent \in Nat
    /\ PolishMatches \in Nat
    /\ Moves \in [{"sa", "rb", "station"} -> Nat]

VARIABLES
    start,        \* the schedule this call began with
    phase,        \* the search that is running
    work,         \* the schedule being changed
    tables,       \* the tables of the running search
    cur,          \* objective of work, as the search tracks it
    best,         \* best snapshot and its objective
    moves         \* iterations left

vars == <<start, phase, work, tables, cur, best, moves>>

Seats == 1 .. 2 * Alliance
Red   == 1 .. Alliance
Blue  == Seats \ Red
Pairs == kSubset(2, Teams)

InMatch(m)    == {m.seats[k] : k \in Seats}
SideOf(m, half) == {m.seats[k] : k \in half}
Partners(m, pair)  == pair \subseteq SideOf(m, Red) \/ pair \subseteq SideOf(m, Blue)
Opponents(m, pair) == pair \subseteq InMatch(m) /\ ~Partners(m, pair)

(* Nobody sits twice in a match, and its surrogates play it.               *)
Matches ==
    {m \in [seats : [Seats -> Teams], sur : SUBSET Teams] :
        IsInjective(m.seats) /\ m.sur \subseteq InMatch(m)}

ASSUME StartsAssumption == Starts \subseteq Seq(Matches)

Plays(w, t)   == {i \in DOMAIN w : t \in InMatch(w[i])}
IsRed(w, t, i) == t \in SideOf(w[i], Red)
Count(S)      == Cardinality(S)
Sum(f)        == FoldFunction(LAMBDA x, y : x + y, 0, f)
Abs(x)        == IF x < 0 THEN -x ELSE x
Spread(c)     == Max({c[k] : k \in Seats}) - Min({c[k] : k \in Seats})

-----------------------------------------------------------------------------
(* _build_match_state: the tables, counted from the schedule.              *)
StationTable(w) ==
    [t \in Teams |-> [k \in Seats |-> Count({i \in DOMAIN w : w[i].seats[k] = t})]]

Built(w) ==
    [plays |-> [t \in Teams |-> Plays(w, t)],
     par   |-> [p \in Pairs |-> Count({i \in DOMAIN w : Partners(w[i], p)})],
     opp   |-> [p \in Pairs |-> Count({i \in DOMAIN w : Opponents(w[i], p)})],
     st    |-> StationTable(w),
     colour |-> [t \in Teams |-> [i \in Plays(w, t) |-> IsRed(w, t, i)]],
     sur   |-> [t \in Teams |-> Count({i \in DOMAIN w : t \in w[i].sur})]]

(* Gaps below ideal_gap between consecutive matches of a team.             *)
TooClose(S) ==
    Count({i \in S : \E j \in S : j > i /\ j - i < Gap /\ \A k \in S : k <= i \/ k >= j})
Violations(plays) == Sum([t \in Teams |-> TooClose(plays[t])])

(* Criterion 5 of a small event, from team_matches and team_match_color.   *)
ColourSwaps(s) ==
    Sum([t \in Teams |->
        Count({i \in s.plays[t] : \E j \in s.plays[t] :
                 /\ j > i /\ \A k \in s.plays[t] : k <= i \/ k >= j
                 /\ s.colour[t][i] # s.colour[t][j]})])

(* |rc - bc|: the code counts them in the lines that count the stations.   *)
Imbalance(st) == [t \in Teams |-> Abs(Sum([k \in Red |-> st[t][k]])
                                      - Sum([k \in Blue |-> st[t][k]]))]

Squares(table) == Sum([p \in DOMAIN table |-> table[p] * table[p]])

(* _score_from_state: lower is better, compared lexicographically.  The    *)
(* surrogate total and match equity never change and are left out; the     *)
(* last element orders as the spread of surrogates per team does.          *)
Score(s) ==
    <<Violations(s.plays),
      Squares(s.par), Squares(s.opp),
      IF Cardinality(Teams) >= LargeEvent
          THEN Max({Imbalance(s.st)[t] : t \in Teams}) ELSE ColourSwaps(s),
      Sum([t \in Teams |-> Spread(s.st[t])]),
      Cardinality(Teams) * Sum([t \in Teams |-> s.sur[t] * s.sur[t]])
          - Sum(s.sur) * Sum(s.sur)>>

FirstDifference(a, b) == {i \in DOMAIN a : a[i] # b[i] /\ \A j \in 1 .. i - 1 : a[j] = b[j]}
LexLess(a, b)    == \E i \in FirstDifference(a, b) : a[i] < b[i]
LexAtMost(a, b)  == a = b \/ LexLess(a, b)

-----------------------------------------------------------------------------
(* _match_swap_apply_delta: the teams at two positions change places, each *)
(* taking its surrogate flag along.                                        *)
Positions(w) == (DOMAIN w) \X Seats
TeamAt(w, p) == w[p[1]].seats[p[2]]
Flag(w, p)   == TeamAt(w, p) \in w[p[1]].sur

Move(m, k, t, out, flagged) ==
    [seats |-> [m.seats EXCEPT ![k] = t],
     sur   |-> (m.sur \ {out}) \cup (IF flagged THEN {t} ELSE {})]

Swapped(w, p, q) ==
    LET a == TeamAt(w, p)
        b == TeamAt(w, q) IN
    IF p[1] = q[1]
    THEN [w EXCEPT ![p[1]].seats = [@ EXCEPT ![p[2]] = b, ![q[2]] = a]]
    ELSE [w EXCEPT ![p[1]] = Move(@, p[2], b, a, Flag(w, q)),
                   ![q[1]] = Move(@, q[2], a, b, Flag(w, p))]

One(b) == IF b THEN 1 ELSE 0

(* process_match, for each match the swap touches: its old contributions   *)
(* leave the tables and the new ones enter.                                *)
Counted(m, pair, together) == IF together THEN Partners(m, pair) ELSE Opponents(m, pair)
Retabled(table, together, old, new, touched) ==
    [x \in DOMAIN table |->
        table[x] + Count({i \in touched : Counted(new[i], x, together)})
                 - Count({i \in touched : Counted(old[i], x, together)})]

\* Faulty: the colour of the match left behind stays in the table.
Recoloured_Kept(colours, from, to, red) ==
    [i \in DOMAIN colours \cup {to} |-> IF i = to THEN red ELSE colours[i]]

(* A team leaves one match and has a colour in the other, or in the same.  *)
Recoloured(colours, from, to, red) ==
    [i \in (DOMAIN colours \ {from}) \cup {to} |-> IF i = to THEN red ELSE colours[i]]

SwappedTables(w, s, p, q) ==
    LET a == TeamAt(w, p)
        b == TeamAt(w, q)
        new == Swapped(w, p, q)
        touched == {p[1], q[1]}
        same == p[1] = q[1] IN
    [plays |-> IF same THEN s.plays
               ELSE [s.plays EXCEPT ![a] = (@ \ {p[1]}) \cup {q[1]},
                                    ![b] = (@ \ {q[1]}) \cup {p[1]}],
     par   |-> Retabled(s.par, TRUE, w, new, touched),
     opp   |-> Retabled(s.opp, FALSE, w, new, touched),
     st    |-> [t \in Teams |-> [k \in Seats |->
                  s.st[t][k] + Count({i \in touched : new[i].seats[k] = t})
                             - Count({i \in touched : w[i].seats[k] = t})]],
     colour |-> [s.colour EXCEPT ![a] = Recoloured(@, p[1], q[1], q[2] \in Red),
                                 ![b] = Recoloured(@, q[1], p[1], p[2] \in Red)],
     sur   |-> IF ~same THEN s.sur
               ELSE [s.sur EXCEPT ![a] = @ + One(Flag(w, q)) - One(Flag(w, p)),
                                  ![b] = @ + One(Flag(w, p)) - One(Flag(w, q))]]

\* Faulty: only one of the two matches is looked at.
IsValidSwap_OneWay(w, p, q) ==
    p[1] = q[1] \/ TeamAt(w, p) \notin InMatch(w[q[1]])

(* _is_valid_swap: nobody twice in a match.                                *)
IsValidSwap(w, p, q) ==
    \/ p[1] = q[1]
    \/ /\ TeamAt(w, p) \notin InMatch(w[q[1]])
       /\ TeamAt(w, q) \notin InMatch(w[p[1]])

(* _swap_preserves_cooldown, decided on the tables.                        *)
PreservesCooldown(w, s, p, q) ==
    LET a == TeamAt(w, p)
        b == TeamAt(w, q) IN
    \/ p[1] = q[1]
    \/ TooClose((s.plays[a] \ {p[1]}) \cup {q[1]}) + TooClose((s.plays[b] \ {q[1]}) \cup {p[1]})
         <= TooClose(s.plays[a]) + TooClose(s.plays[b])

\* Faulty: the last schedule instead of the best.
Improved_Last(w, score) == [work |-> w, score |-> score]

Improved(w, score) ==
    IF LexLess(score, best.score) THEN [work |-> w, score |-> score] ELSE best

\* Faulty: neither the cooldown filter nor the rule that criterion 1 is never traded.
Anneal_AnyUphill ==
    \E p, q \in Positions(work) :
      LET w == Swapped(work, p, q)
          s == SwappedTables(work, tables, p, q)
          score == Score(s) IN
      /\ phase = "sa" /\ moves > 0 /\ p # q
      /\ IsValidSwap(work, p, q)
      /\ \/ /\ LexAtMost(score, cur)
            /\ work' = w /\ tables' = s /\ cur' = score
            /\ best' = Improved(w, score)
         \/ /\ LexLess(cur, score)
            /\ work' = w /\ tables' = s /\ cur' = score
            /\ UNCHANGED best
         \/ /\ LexLess(cur, score)
            /\ work' = Swapped(w, p, q)
            /\ tables' = SwappedTables(w, s, p, q)
            /\ UNCHANGED <<cur, best>>
      /\ moves' = moves - 1
      /\ UNCHANGED <<start, phase>>

(* One iteration that reaches the score.  A swap that is not worse is      *)
(* kept; a worse one may be kept, unless it worsens the cooldown; it is    *)
(* undone by swapping the same two positions again.                        *)
Anneal ==
    \E p, q \in Positions(work) :
      LET w == Swapped(work, p, q)
          s == SwappedTables(work, tables, p, q)
          score == Score(s) IN
      /\ phase = "sa" /\ moves > 0 /\ p # q
      /\ IsValidSwap(work, p, q)
      /\ PreservesCooldown(work, tables, p, q)
      /\ \/ /\ LexAtMost(score, cur)
            /\ work' = w /\ tables' = s /\ cur' = score
            /\ best' = Improved(w, score)
         \/ /\ LexLess(cur, score) /\ 1 \notin FirstDifference(cur, score)
            /\ work' = w /\ tables' = s /\ cur' = score
            /\ UNCHANGED best
         \/ /\ LexLess(cur, score)
            /\ work' = Swapped(w, p, q)
            /\ tables' = SwappedTables(w, s, p, q)
            /\ UNCHANGED <<cur, best>>
      /\ moves' = moves - 1
      /\ UNCHANGED <<start, phase>>

-----------------------------------------------------------------------------
(* Red/blue post pass: flip whole matches to even out red against blue.    *)
Flipped(m) ==
    [m EXCEPT !.seats = [k \in Seats |-> IF k \in Red THEN m.seats[k + Alliance]
                                         ELSE m.seats[k - Alliance]]]

(* rc - bc of every team.                                                  *)
Lean(w) ==
    [t \in Teams |-> Count({i \in Plays(w, t) : IsRed(w, t, i)})
                     - Count({i \in Plays(w, t) : ~IsRed(w, t, i)})]
TotalLean(lean) == Sum([t \in Teams |-> Abs(lean[t])])

\* Faulty: a flip counted as one appearance.
LeanAfter_Once(lean, m) ==
    [t \in Teams |-> lean[t] + CASE t \in SideOf(m, Red)  -> -1
                                 [] t \in SideOf(m, Blue) -> 1
                                 [] OTHER -> 0]

LeanAfter(lean, m) ==
    [t \in Teams |-> lean[t] + CASE t \in SideOf(m, Red)  -> -2
                                 [] t \in SideOf(m, Blue) -> 2
                                 [] OTHER -> 0]

(* The common step of both post passes: cur tracks the objective by its    *)
(* deltas, a move that does not raise it is kept, any other may be.        *)
Take(w, s, objective) ==
    /\ work' = w /\ tables' = s /\ cur' = objective
    /\ best' = IF objective < best.score THEN [work |-> w, score |-> objective] ELSE best
    /\ moves' = moves - 1
    /\ UNCHANGED <<start, phase>>

BalanceColours ==
    /\ phase = "rb" /\ moves > 0
    /\ \E i \in DOMAIN work :
         LET lean == LeanAfter(tables, work[i]) IN
         Take([work EXCEPT ![i] = Flipped(@)], lean,
              cur + TotalLean(lean) - TotalLean(tables))

(* Station post pass: permute the seats of one alliance.                   *)
Reseatings(half) == {f \in [half -> half] : \A k \in half : \E j \in half : f[j] = k}

Reseated(m, f) ==
    [m EXCEPT !.seats = [k \in Seats |-> IF k \in DOMAIN f THEN m.seats[f[k]] ELSE m.seats[k]]]

StationsAfter(st, m, f) ==
    [t \in Teams |-> [k \in Seats |->
        st[t][k] + IF k \in DOMAIN f
                   THEN One(m.seats[f[k]] = t) - One(m.seats[k] = t) ELSE 0]]

StationPenalty(st) == Sum([t \in Teams |-> Spread(st[t])])

BalanceStations ==
    /\ phase = "station" /\ moves > 0
    /\ \E i \in DOMAIN work, half \in {Red, Blue} : \E f \in Reseatings(half) :
         LET st == StationsAfter(tables, work[i], f) IN
         /\ \E k \in half : f[k] # k
         /\ Take([work EXCEPT ![i] = Reseated(@, f)], st, cur + StationPenalty(st) - StationPenalty(tables))

-----------------------------------------------------------------------------
Begin(p, w, s, objective) ==
    /\ phase' = p
    /\ work' = w /\ tables' = s /\ cur' = objective
    /\ best' = [work |-> w, score |-> objective]
    /\ moves' = IF p = "polish" THEN 0 ELSE Moves[p]
    /\ UNCHANGED start

(* Each search returns its best snapshot to the next one; a post pass that *)
(* is switched off hands its input on.                                     *)
EndAnneal ==
    /\ phase = "sa"
    /\ Begin("rb", best.work, Lean(best.work), TotalLean(Lean(best.work)))

EndColours ==
    /\ phase = "rb"
    /\ LET st == StationTable(best.work) IN
       Begin("station", best.work, st, StationPenalty(st))

EndStations ==
    /\ phase = "station"
    /\ Begin("polish", best.work, <<>>, 0)

(* CP-SAT polish: the solver flips any matches, then permutes the seats of *)
(* both alliances of any matches, each by a permutation of its own;        *)
(* UNKNOWN leaves its input, an exception or a missing library the input   *)
(* of both.  It is given neither a hint nor a bound, so a FEASIBLE answer  *)
(* can be any of them.                                                     *)
Changed(w) == {F \in SUBSET DOMAIN w : Count(F) <= PolishMatches}

PolishColours ==
    /\ phase = "polish"
    /\ \E F \in Changed(work) :
         /\ phase' = "polish2"
         /\ work' = [i \in DOMAIN work |-> IF i \in F THEN Flipped(work[i]) ELSE work[i]]
    /\ UNCHANGED <<start, tables, cur, best, moves>>

PolishStations ==
    /\ phase = "polish2"
    /\ phase' = "done"
    /\ \/ \E F \in Changed(work) : \E f \in [F -> Reseatings(Red)], g \in [F -> Reseatings(Blue)] :
             work' = [i \in DOMAIN work |->
                        IF i \in F THEN Reseated(Reseated(work[i], f[i]), g[i]) ELSE work[i]]
       \/ work' = best.work
    /\ best' = [work |-> work', score |-> 0]
    /\ UNCHANGED <<start, tables, cur, moves>>

Init ==
    /\ start \in Starts
    /\ phase = "sa" /\ moves = Moves["sa"]
    /\ work = start
    /\ tables = Built(start)
    /\ cur = Score(Built(start))
    /\ best = [work |-> start, score |-> cur]

Next ==
    \/ Anneal \/ EndAnneal
    \/ BalanceColours \/ EndColours
    \/ BalanceStations \/ EndStations
    \/ PolishColours \/ PolishStations

Spec == Init /\ [][Next]_vars

-----------------------------------------------------------------------------
Encounters(w) ==
    [i \in DOMAIN w |-> [sides |-> {SideOf(w[i], Red), SideOf(w[i], Blue)}, sur |-> w[i].sur]]

(* The type of the schedule: distinct teams in the seats of every match.   *)
TypeOK ==
    /\ phase \in {"sa", "rb", "station", "polish", "polish2", "done"}
    /\ work \in [DOMAIN start -> Matches]

(* The tables a search updates move by move, and undoes by repeating the   *)
(* move, are those of its schedule: matches, partners, opponents, stations *)
(* and colours of every team.  The count of surrogates per team is not     *)
(* among them: a swap within a match moves it though the flags do not move *)
(* (scheduler.py:1819-1823), so it drifts from the schedule.               *)
(* And whatever is swapped, flipped, reseated or undone, every team plays  *)
(* as often as in the schedule handed over and as often as a surrogate.    *)
TablesAgree ==
    CASE phase = "sa" ->
           LET built == Built(work) IN
           /\ tables.plays = built.plays /\ tables.st = built.st
           /\ tables.par = built.par     /\ tables.opp = built.opp
           /\ tables.colour = built.colour
      [] phase = "rb"      -> tables = Lean(work) /\ cur = TotalLean(tables)
      [] phase = "station" -> tables = StationTable(work) /\ cur = StationPenalty(tables)
      [] OTHER -> TRUE
NobodyLosesAMatch ==
    \A t \in Teams :
        /\ Count(Plays(work, t)) = Count(Plays(start, t))
        /\ Count({i \in DOMAIN work : t \in work[i].sur})
             = Count({i \in DOMAIN start : t \in start[i].sur})
SearchKeepsTheBooks == TablesAgree /\ NobodyLosesAMatch

Strict(w) == SubSeq(Score(Built(w)), 1, 5)

(* FRC 10.5.2 order: the schedule the annealing returns is at most its     *)
(* input on criteria 1 to 6, wherever the walk went in between; each post  *)
(* pass returns a schedule at most its input on its own criterion.         *)
NeverWorse ==
    /\ phase = "sa" => /\ LexAtMost(Strict(best.work), Strict(start))
                       /\ LexAtMost(best.score, cur)
    /\ phase = "rb"      => best.score = TotalLean(Lean(best.work)) /\ best.score <= cur
    /\ phase = "station" => /\ best.score = StationPenalty(StationTable(best.work))
                            /\ best.score <= cur

(* FRC 10.5.2 #1: no step brings two matches of a team closer than the     *)
(* cooldown, counted over the schedule; and the post passes and the polish *)
(* change no partner, opponent, match or surrogate of anybody              *)
(* (post_passes/rb_balance.py, station_balance.py).                        *)
HigherCriteriaStand ==
    [][/\ Violations(Built(work').plays) <= Violations(Built(work).plays)
       /\ phase # "sa" => Encounters(work') = Encounters(work)]_vars

(* Claim at docs/workstreams/scheduler-quality.md:123: "Surrogate          *)
(* placement follows FRC 10.5.2 (3rd appearance for pre-picked surrogate   *)
(* teams)".                                                                *)
IsThird(w, t, i) == Count({j \in Plays(w, t) : j <= i}) = 3
SurrogatesStayThird ==
    (\A i \in DOMAIN start : \A t \in start[i].sur : IsThird(start, t, i))
      => \A i \in DOMAIN work : \A t \in work[i].sur : IsThird(work, t, i)
=============================================================================
