---------------------------- MODULE Construction ----------------------------
(***************************************************************************)
(* The greedy construction of app/scheduler.py generate_matches: round 1,  *)
(* open scheduling, the post-generation sweeps, the integrity check.       *)
(*                                                                         *)
(* A match is the set of its teams and the subset flagged as surrogates.   *)
(* Who is sampled among the eligible teams depends on scores (gap, repeat, *)
(* station balance) and on the seed: the model takes any sample.  The      *)
(* split of six teams into alliances and stations changes no count and no  *)
(* flag; only the order of the last match matters, to the sweep, and is    *)
(* chosen there.                                                           *)
(***************************************************************************)
EXTENDS Integers, FiniteSets, Sequences, FiniteSetsExt, SequencesExt

CONSTANTS
    Shapes,       \* calls made: pairs of a set of slot numbers and a quota
    Slots         \* teams in a match: 6 in the code

ASSUME ShapeAssumption ==
    /\ Slots \in Nat \ {0}
    /\ \A s \in Shapes : /\ IsFiniteSet(s[1]) /\ Cardinality(s[1]) >= Slots
                         /\ s[2] \in Nat \ {0}

VARIABLES
    teams,        \* the slots 1..num_teams of this call
    quota,        \* matches_per_team of this call
    phase,        \* where generate_matches stands
    matches,      \* the matches appended so far
    picked,       \* surrogate_team_set
    mc,           \* appearances of each team, as commit_match counts them
    sc,           \* surrogate_count of each team, as commit_match counts it
    row,          \* the last match in slot order, while the sweep runs
    pending       \* sur_slots: flagged teams of the last match still to move

vars == <<teams, quota, phase, matches, picked, mc, sc, row, pending>>

N == Cardinality(teams)
CeilDiv(a, b) == (a + b - 1) \div b

TotalMatches == CeilDiv(N * quota, Slots)
PerRound     == CeilDiv(N, Slots)
Surplus      == TotalMatches * Slots - N * quota
RoundSurplus == PerRound * Slots - N
FairCap      == IF Surplus = 0 THEN 0 ELSE Max({1, CeilDiv(Surplus, N)})
FirstModel   == quota >= 3 /\ Surplus > 0

Target(t) == IF t \in picked THEN quota + 1 ELSE quota

Played(t)  == {i \in DOMAIN matches : t \in matches[i].players}
Flagged(t) == {i \in Played(t) : t \in matches[i].sur}

-----------------------------------------------------------------------------
Init ==
    /\ \E s \in Shapes : teams = s[1] /\ quota = s[2]
    /\ phase = "round1"
    /\ matches = <<>>
    /\ picked \in IF FirstModel THEN kSubset(Surplus, teams) ELSE {{}}
    /\ mc = [t \in teams |-> 0]
    /\ sc = [t \in teams |-> 0]
    /\ row = <<>>
    /\ pending = {}

\* Faulty: the count is read after it was raised.
CountsAsSurrogate_Late(t) ==
    IF FirstModel THEN t \in picked /\ mc[t] = 3 ELSE mc[t] >= quota

(* commit_match before mc is raised: does this appearance count as a       *)
(* surrogate one?                                                          *)
CountsAsSurrogate(t) ==
    IF FirstModel THEN t \in picked /\ mc[t] + 1 = 3 ELSE mc[t] >= quota

Commit(six, sur) ==
    /\ matches' = Append(matches, [players |-> six, sur |-> sur])
    /\ mc' = [t \in teams |-> mc[t] + IF t \in six THEN 1 ELSE 0]
    /\ sc' = [t \in teams |->
                sc[t] + IF t \in six /\ CountsAsSurrogate(t) THEN 1 ELSE 0]

Sample(k, pool) == kSubset(Min({k, Cardinality(pool)}), pool)

(* Round 1: everybody once; the last match of the round is topped up with  *)
(* teams that already played.  No surrogate flag is ever set here.         *)
RoundOne ==
    LET last  == Len(matches) = PerRound - 1
        extra == IF last THEN RoundSurplus ELSE 0 IN
    /\ phase = "round1"
    /\ \E fp \in Sample(Slots - extra, {t \in teams : mc[t] = 0}),
          sp \in Sample(extra, {t \in teams : mc[t] = 1}) :
            Commit(fp \cup sp, {})
    /\ phase' = IF last THEN "open" ELSE "round1"
    /\ UNCHANGED <<teams, quota, picked, row, pending>>

UnderQuota == {t \in teams : mc[t] < Target(t)}

(* The pool of the FIRST model: teams under their target or, when fewer    *)
(* than six are left, every team.                                          *)
FirstPool == IF Cardinality(UnderQuota) < Slots THEN teams ELSE UnderQuota

\* Faulty: one team too many is sampled.
OpenFirst_TooMany ==
    /\ phase = "open" /\ FirstModel /\ Len(matches) <= TotalMatches
    /\ \E six \in kSubset(Slots, FirstPool) :
            Commit(six, {t \in six : t \in picked /\ mc[t] + 1 = 3})
    /\ UNCHANGED <<teams, quota, phase, picked, row, pending>>

OpenFirst ==
    /\ phase = "open" /\ FirstModel /\ Len(matches) < TotalMatches
    /\ \E six \in kSubset(Slots, FirstPool) :
            Commit(six, {t \in six : t \in picked /\ mc[t] + 1 = 3})
    /\ UNCHANGED <<teams, quota, phase, picked, row, pending>>

(* Teams at quota that the fair cap still admits as surrogates.            *)
AtQuota == {t \in teams : mc[t] = quota /\ sc[t] < FairCap}

OpenLegacy ==
    LET needed == Max({0, Slots - Cardinality(UnderQuota)}) IN
    /\ phase = "open" /\ ~FirstModel /\ Len(matches) < TotalMatches
    /\ \E fp \in Sample(Slots - needed, UnderQuota), sp \in Sample(needed, AtQuota) :
            Commit(fp \cup sp, {t \in fp \cup sp : mc[t] >= quota})
    /\ UNCHANGED <<teams, quota, phase, picked, row, pending>>

-----------------------------------------------------------------------------
LastMatch == matches[Len(matches)]

(* End of the open phase: the FIRST model skips the sweeps; the legacy one *)
(* lists the surrogates of the last match in slot order.                   *)
EndOpen ==
    /\ phase = "open" /\ Len(matches) = TotalMatches
    /\ IF FirstModel
       THEN phase' = "check" /\ UNCHANGED <<row, pending>>
       ELSE /\ phase' = "sweep1"
            /\ row' \in SetToSeqs(LastMatch.players)
            /\ pending' = LastMatch.sur
    /\ UNCHANGED <<teams, quota, matches, picked, mc, sc>>

(* The first team of the last match that is still to move, and the first   *)
(* unflagged one other than the surrogate.                                 *)
NextSurrogate == row[Min({i \in DOMAIN row : row[i] \in pending})]
Substitute(s) ==
    LET free == {i \in DOMAIN row : row[i] \notin LastMatch.sur /\ row[i] # s} IN
    IF free = {} THEN {} ELSE {row[Min(free)]}

FirstAppearance(t) == Min(Played(t))

\* Faulty: a team may lose its first match.
EarlierSeats_First(s, x) ==
    {i \in Played(s) : i < Len(matches) /\ x \notin matches[i].players}

(* Earlier matches, past its first one, in which s plays and x does not.   *)
EarlierSeats(s, x) ==
    {i \in Played(s) : /\ i < Len(matches) /\ i > FirstAppearance(s)
                       /\ x \notin matches[i].players}

Exchange(s, x) ==
    [i \in DOMAIN row |-> CASE row[i] = s -> x [] row[i] = x -> s [] OTHER -> row[i]]

(* Rules 1+2, one surrogate of the last match: the substitute takes its    *)
(* earliest eligible seat as a surrogate, and the two exchange their seats *)
(* in the last match, unflagged.  sc and mc keep what commit_match counted.*)
SweepLastMatch ==
    LET s     == NextSurrogate
        moves == {m \in Substitute(s) \X DOMAIN matches :
                     /\ EarlierSeats(s, m[1]) # {}
                     /\ m[2] = Min(EarlierSeats(s, m[1]))} IN
    /\ phase = "sweep1" /\ pending # {}
    /\ pending' = pending \ {s}
    /\ IF moves = {} THEN UNCHANGED <<matches, row>>
       ELSE \E m \in moves :
              LET x == m[1]
                  i == m[2]
                  seat == [players |-> (matches[i].players \ {s}) \cup {x},
                           sur   |-> (matches[i].sur \ {s}) \cup {x}] IN
              /\ matches' = [matches EXCEPT ![i] = seat,
                                            ![Len(matches)].sur = @ \ {s}]
              /\ row' = Exchange(s, x)
    /\ UNCHANGED <<teams, quota, phase, picked, mc, sc>>

(* Rule 3: a team flagged in its last match is flagged instead in the      *)
(* latest earlier match, not its first, where it plays unflagged.  teams   *)
(* do not disturb each other and a second pass finds nothing to do.        *)
NewFlag(t) ==
    LET between == {i \in Played(t) \ Flagged(t) : i # FirstAppearance(t)} IN
    IF Played(t) # {} /\ Max(Played(t)) \in Flagged(t) /\ between # {}
    THEN (Flagged(t) \ {Max(Played(t))}) \cup {Max(between)}
    ELSE Flagged(t)

SweepLastAppearance ==
    /\ phase = "sweep1" /\ pending = {}
    /\ matches' = [i \in DOMAIN matches |->
                     [matches[i] EXCEPT !.sur = {t \in matches[i].players : i \in NewFlag(t)}]]
    /\ phase' = "check"
    /\ row' = <<>>
    /\ UNCHANGED <<teams, quota, picked, mc, sc, pending>>

(* A match short of six teams raises ConstructionMalformedError.           *)
IntegrityCheck ==
    /\ phase = "check"
    /\ phase' = IF \E i \in DOMAIN matches : Cardinality(matches[i].players) # Slots
                THEN "malformed" ELSE "built"
    /\ UNCHANGED <<teams, quota, matches, picked, mc, sc, row, pending>>

Next ==
    \/ RoundOne \/ OpenFirst \/ OpenLegacy \/ EndOpen
    \/ SweepLastMatch \/ SweepLastAppearance \/ IntegrityCheck

Spec == Init /\ [][Next]_vars

-----------------------------------------------------------------------------
Count(t) == Cardinality(Played(t))

(* Types, and the counters never run ahead of the matches appended.        *)
TypeOK ==
    /\ phase \in {"round1", "open", "sweep1", "check", "malformed", "built"}
    /\ matches \in Seq([players : SUBSET teams, sur : SUBSET teams])
    /\ Len(matches) <= TotalMatches
    /\ mc \in [teams -> 0 .. TotalMatches] /\ sc \in [teams -> 0 .. TotalMatches]

(* FIRST 10.5.2 as the code promises it.  In the FIRST model a surrogate    *)
(* appearance is the third of its team, which has one only, and            *)
(* surrogate_count agrees with the flags at every step.  In the legacy     *)
(* model nobody is short of its quota, and from a quota of 2 on every      *)
(* appearance above the quota, and no other, carries a flag: the sweeps    *)
(* move an extra appearance from one team to another with its flag.        *)
SurrogateIsThird ==
    FirstModel =>
        \A t \in teams :
            /\ Cardinality(Flagged(t)) = sc[t] /\ sc[t] <= 1
            /\ \A i \in Flagged(t) : Cardinality({j \in Played(t) : j <= i}) = 3
ExtrasAreFlagged ==
    phase = "built" /\ ~FirstModel =>
        \A t \in teams :
            /\ Count(t) >= quota
            /\ quota >= 2 => Count(t) = quota + Cardinality(Flagged(t))
FlagsAreRight == SurrogateIsThird /\ ExtrasAreFlagged

(* A schedule that passes the integrity check has distinct teams in all the *)
(* seats of every match and has every team in round 1: whatever seats the  *)
(* sweeps exchange, nobody loses its first match or is seated twice in     *)
(* one.  The check only ever rejects a legacy construction in which a team *)
(* was dealt out of its quota; the sweeps never spoil a complete match.    *)
EveryoneIsSeated ==
    phase = "built" =>
        /\ \A i \in DOMAIN matches : Cardinality(matches[i].players) = Slots
        /\ Len(matches) = TotalMatches
        /\ \A t \in teams : \E i \in Played(t) : i <= PerRound
MalformedMeansShort ==
    phase = "malformed" =>
        /\ ~FirstModel
        /\ \E t \in teams : mc[t] < quota
BuiltOrShort == EveryoneIsSeated /\ MalformedMeansShort
=============================================================================
