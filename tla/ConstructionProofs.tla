------------------------- MODULE ConstructionProofs -------------------------
(***************************************************************************)
(* What the greedy construction keeps for any roster, quota and size of a  *)
(* match: where surrogate flags are, that nobody is left out, and when a   *)
(* construction may be malformed.                                          *)
(***************************************************************************)
EXTENDS Construction, FiniteSetTheorems, TLAPS

-----------------------------------------------------------------------------
\* The inductive invariant.

Games == [players : SUBSET teams, sur : SUBSET teams]

Tables ==
  /\ IsFiniteSet(teams) /\ Cardinality(teams) >= Slots /\ quota \in Nat \ {0}
  /\ phase \in {"round1", "open", "sweep1", "check", "malformed", "built"}
  /\ matches \in Seq(Games)
  /\ \A i \in DOMAIN matches : matches[i].sur \subseteq matches[i].players
  /\ mc \in [teams -> Nat] /\ sc \in [teams -> Nat]
  /\ \A t \in teams : sc[t] <= mc[t] /\ mc[t] <= TotalMatches
  /\ picked \in SUBSET teams /\ (~FirstModel => picked = {})

\* Until the sweeps, mc counts the matches of a team.
Counted == \A t \in teams : mc[t] = Cardinality(Played(t))

IsFull(i) == Cardinality(matches[i].players) = Slots
Full    == \A i \in DOMAIN matches : IsFull(i)
NoFlags == \A i \in DOMAIN matches : matches[i].sur = {}
With(k) == {t \in teams : mc[t] = k}
\* The appearances the teams are short of.
Owed == {x \in teams \X (1 .. quota) : mc[x[1]] < x[2]}

Seated == \A t \in teams : \E i \in Played(t) : i <= PerRound

InRoundOne ==
  /\ Len(matches) < PerRound /\ Full /\ NoFlags
  /\ \A t \in teams : mc[t] \in 0 .. 1 /\ sc[t] = 0
  /\ Cardinality(With(0)) = N - Slots * Len(matches)
  /\ quota >= 2 => Cardinality(Owed) = N * quota - Slots * Len(matches)

\* The FIRST model: only the third appearance of a picked team is flagged.
ThirdIsFlagged ==
  /\ Full
  /\ \A t \in teams :
       /\ sc[t] = IF t \in picked /\ mc[t] >= 3 THEN 1 ELSE 0
       /\ Cardinality(Flagged(t)) = sc[t]
       /\ \A i \in Flagged(t) : Cardinality({j \in Played(t) : j <= i}) = 3

\* The legacy model with a quota of 2: once fewer teams than seats are under it,
\* everybody else sits in the last match as a surrogate.
TwoLeft ==
  /\ NoFlags /\ \A t \in teams : mc[t] \in 1 .. 2 /\ sc[t] = 0
  /\ Cardinality(With(1)) = N * quota - Slots * Len(matches)
TwoDone ==
  /\ Len(matches) = TotalMatches
  /\ \A t \in teams : /\ mc[t] = quota + Cardinality(Flagged(t))
                      /\ Flagged(t) \subseteq {Len(matches)}
\* With a greater quota it runs only if the seats come out even, and flags nobody.
ExactSeats ==
  /\ NoFlags /\ \A t \in teams : mc[t] <= quota
  /\ Full  => Cardinality(Owed) = N * quota - Slots * Len(matches)
  /\ ~Full => Cardinality(Owed) > N * quota - Slots * Len(matches)

InOpen ==
  /\ Len(matches) <= TotalMatches /\ Seated
  /\ FirstModel => ThirdIsFlagged
  /\ ~FirstModel /\ quota = 1 => Len(matches) = TotalMatches /\ Full /\ NoFlags
  /\ ~FirstModel /\ quota = 2 => Full /\ (TwoLeft \/ TwoDone)
  /\ ~FirstModel /\ quota >= 3 => ExactSeats

\* What the sweeps keep.
ExtrasFlagged ==
  quota >= 2 /\ Full => \A t \in teams : Count(t) = quota + Cardinality(Flagged(t))
ShortIsOwed == (\A t \in teams : mc[t] >= quota) => Full
InSweep ==
  /\ ~FirstModel /\ row \in Seq(teams)
  /\ {row[i] : i \in DOMAIN row} = LastMatch.players
  /\ pending \subseteq LastMatch.sur
  /\ \A t \in LastMatch.sur : Flagged(t) = {Len(matches)}
Closing ==
  /\ Len(matches) = TotalMatches /\ Seated
  /\ FirstModel => ThirdIsFlagged /\ phase # "malformed"
  /\ ~FirstModel => ExtrasFlagged /\ ShortIsOwed
  /\ phase = "sweep1" => InSweep
  /\ phase = "built" => Full
  /\ phase = "malformed" => ~Full

Inv ==
  /\ Tables
  /\ phase \in {"round1", "open"} \/ FirstModel => Counted
  /\ phase = "round1" => InRoundOne
  /\ phase = "open" => InOpen
  /\ phase \in {"sweep1", "check", "malformed", "built"} => Closing

-----------------------------------------------------------------------------
\* Sizes.

LEMMA DivisionIs ==
  ASSUME NEW x \in Nat, NEW b \in Nat \ {0}
  PROVE  /\ x \div b \in Nat /\ b * (x \div b) \in Nat
         /\ x - (b - 1) <= b * (x \div b) /\ b * (x \div b) <= x
<1>1. /\ x \div b \in Nat /\ x = b * (x \div b) + (x % b)
      /\ x % b \in Nat /\ x % b <= b - 1
  OBVIOUS
<1>2. ASSUME NEW p \in Nat, x = p + (x % b)
      PROVE  x - (b - 1) <= p /\ p <= x
  BY <1>1, <1>2
<1>3. b * (x \div b) \in Nat
  BY <1>1
<1> QED BY <1>1, <1>2, <1>3

LEMMA CeilIs ==
  ASSUME NEW a \in Nat, NEW b \in Nat \ {0}
  PROVE  /\ CeilDiv(a, b) \in Nat /\ b * CeilDiv(a, b) \in Nat
         /\ a <= b * CeilDiv(a, b) /\ b * CeilDiv(a, b) <= a + b - 1
<1>1. a + b - 1 \in Nat /\ (a + b - 1) - (b - 1) = a
  OBVIOUS
<1> QED BY <1>1, DivisionIs DEF CeilDiv

\* Products with a positive factor keep the order.
LEMMA Scaled ==
  ASSUME NEW k \in Nat \ {0}, NEW a \in Int, NEW b \in Int
  PROVE  /\ k * a \in Int
         /\ a <= b <=> k * a <= k * b
         /\ a < b <=> k * a < k * b
         /\ k * (a + 1) = k * a + k
OBVIOUS

LEMMA MinOfTwo ==
  ASSUME NEW a \in Int, NEW b \in Int
  PROVE  Min({a, b}) = IF a <= b THEN a ELSE b
BY DEF Min

LEMMA MaxOfTwo ==
  ASSUME NEW a \in Int, NEW b \in Int
  PROVE  Max({a, b}) = IF a >= b THEN a ELSE b
BY DEF Max

\* A sample is a part of its pool, of as many teams as asked for if there are.
LEMMA SampleIs ==
  ASSUME NEW k \in Nat, NEW pool, IsFiniteSet(pool), NEW p \in Sample(k, pool)
  PROVE  /\ p \subseteq pool /\ IsFiniteSet(p) /\ Cardinality(p) \in Nat
         /\ Cardinality(p) <= k
         /\ k <= Cardinality(pool) => Cardinality(p) = k
         /\ Cardinality(pool) <= k => p = pool
<1>1. Cardinality(pool) \in Nat
  BY FS_CardinalityType
<1>2. p \in SUBSET pool /\ Cardinality(p) = IF k <= Cardinality(pool) THEN k ELSE Cardinality(pool)
  BY <1>1, MinOfTwo DEF Sample, kSubset
<1>3. IsFiniteSet(p)
  BY <1>2, FS_Subset
<1>4. Cardinality(p) = Cardinality(pool) => p = pool
  BY <1>2, FS_Subset
<1>5. Cardinality(pool) <= k => Cardinality(p) = Cardinality(pool)
  BY <1>1, <1>2
<1> QED BY <1>1, <1>2, <1>3, <1>4, <1>5

\* The sizes of a call.
LEMMA Sizes ==
  ASSUME IsFiniteSet(teams), Cardinality(teams) >= Slots, quota \in Nat \ {0}
  PROVE  /\ Slots \in Nat \ {0} /\ N \in Nat /\ N >= Slots /\ N * quota \in Nat /\ N <= N * quota
         /\ PerRound \in Nat /\ PerRound >= 1 /\ PerRound <= TotalMatches
         /\ N <= Slots * PerRound /\ Slots * PerRound <= N + Slots - 1
         /\ RoundSurplus = Slots * PerRound - N
         /\ TotalMatches \in Nat
         /\ N * quota <= Slots * TotalMatches /\ Slots * TotalMatches <= N * quota + Slots - 1
         /\ Surplus = Slots * TotalMatches - N * quota
         /\ quota = 1 => PerRound = TotalMatches
<1>1. Slots \in Nat \ {0} /\ N \in Nat /\ N >= Slots
  BY ShapeAssumption, FS_CardinalityType DEF N
<1> DEFINE n == N
           nq == n * quota
<1>2. nq \in Nat /\ n <= nq /\ (quota = 1 => nq = n)
  BY <1>1
<1> HIDE DEF n, nq
<1>3. /\ PerRound \in Nat /\ n <= Slots * PerRound /\ Slots * PerRound <= n + Slots - 1
  BY <1>1, CeilIs DEF PerRound, n
<1>4. /\ TotalMatches \in Nat /\ nq <= Slots * TotalMatches /\ Slots * TotalMatches <= nq + Slots - 1
  BY <1>1, <1>2, CeilIs DEF TotalMatches, n, nq
<1>5. PerRound # 0
  <2>1. Slots * 0 = 0 /\ n # 0
    BY <1>1 DEF n
  <2> QED BY <1>1, <1>3, <2>1 DEF n
<1>6. PerRound <= TotalMatches
  <2>1. PerRound - 1 \in Int /\ PerRound - 1 + 1 = PerRound
    BY <1>3
  <2>2. Slots * PerRound = Slots * (PerRound - 1) + Slots /\ Slots * (PerRound - 1) \in Int
    BY <1>1, <1>3, <2>1, Scaled
  <2>3. Slots * (PerRound - 1) < Slots * TotalMatches
    <3>1. Slots * TotalMatches \in Int /\ n \in Int
      BY <1>1, <1>4 DEF n
    <3> QED BY <1>1, <1>2, <1>3, <1>4, <2>2, <3>1
  <2>4. PerRound - 1 < TotalMatches
    BY <1>1, <1>4, <2>1, <2>3, Scaled
  <2> QED BY <1>3, <1>4, <2>4
<1>7. PerRound * Slots = Slots * PerRound /\ TotalMatches * Slots = Slots * TotalMatches
  BY <1>1, <1>3, <1>4
<1>8. RoundSurplus = Slots * PerRound - n /\ Surplus = Slots * TotalMatches - nq
  BY <1>7 DEF RoundSurplus, Surplus, n, nq
<1>9. quota = 1 => PerRound = TotalMatches
  BY <1>2 DEF PerRound, TotalMatches, n, nq
<1> QED BY <1>1, <1>2, <1>3, <1>4, <1>5, <1>6, <1>8, <1>9 DEF n, nq

-----------------------------------------------------------------------------
\* One more match.

\* The appearances of a team are numbers of matches, those it is flagged in
\* among them.
LEMMA Appearances ==
  ASSUME NEW t, Tables
  PROVE  /\ Len(matches) \in Nat /\ DOMAIN matches = 1 .. Len(matches)
         /\ Played(t) \subseteq 1 .. Len(matches) /\ Flagged(t) \subseteq Played(t)
         /\ IsFiniteSet(Played(t)) /\ IsFiniteSet(Flagged(t))
         /\ Count(t) \in Nat /\ Cardinality(Flagged(t)) \in Nat /\ Count(t) <= Len(matches)
<1>1. Len(matches) \in Nat /\ DOMAIN matches = 1 .. Len(matches)
  BY DEF Tables
<1>2. Played(t) \in SUBSET (1 .. Len(matches)) /\ Flagged(t) \in SUBSET Played(t)
  BY <1>1 DEF Played, Flagged
<1>3. IsFiniteSet(1 .. Len(matches)) /\ Cardinality(1 .. Len(matches)) = Len(matches)
  <2>1. 1 \in Int /\ Len(matches) \in Int
    BY <1>1
  <2>2. /\ IsFiniteSet(1 .. Len(matches))
        /\ Cardinality(1 .. Len(matches)) = IF 1 > Len(matches) THEN 0 ELSE Len(matches) - 1 + 1
    BY <2>1, FS_Interval
  <2> QED BY <1>1, <2>2
<1>4. IsFiniteSet(Played(t)) /\ Cardinality(Played(t)) <= Len(matches)
  BY <1>2, <1>3, FS_Subset
<1>5. IsFiniteSet(Flagged(t))
  BY <1>2, <1>4, FS_Subset
<1> QED BY <1>1, <1>2, <1>4, <1>5, FS_CardinalityType DEF Count

\* What commit_match does to the schedule and to the counters.
Appended(six, sur) ==
  /\ Len(matches') = Len(matches) + 1
  /\ \A i \in DOMAIN matches : i \in DOMAIN matches' /\ matches'[i] = matches[i]
  /\ matches'[Len(matches')].players = six /\ matches'[Len(matches')].sur = sur
  /\ \A t \in teams :
       /\ Played(t)' = Played(t) \cup (IF t \in six THEN {Len(matches')} ELSE {})
       /\ Flagged(t)' = Flagged(t) \cup (IF t \in sur THEN {Len(matches')} ELSE {})
       /\ mc'[t] = mc[t] + (IF t \in six THEN 1 ELSE 0)
       /\ sc'[t] = sc[t] + (IF t \in six /\ CountsAsSurrogate(t) THEN 1 ELSE 0)
       /\ Cardinality(Flagged(t)') = Cardinality(Flagged(t)) + (IF t \in sur THEN 1 ELSE 0)

LEMMA CommitAppends ==
  ASSUME Tables, Counted, Len(matches) < TotalMatches,
         NEW six \in SUBSET teams, NEW sur \in SUBSET six, Commit(six, sur),
         UNCHANGED <<teams, quota, picked>>,
         phase' \in {"round1", "open", "sweep1", "check", "malformed", "built"}
  PROVE  Tables' /\ Counted' /\ Appended(six, sur)
<1> DEFINE game == [players |-> six, sur |-> sur]
           L == Len(matches)
<1>1. /\ Len(matches) \in Nat /\ DOMAIN matches = 1 .. Len(matches)
      /\ matches \in Seq(Games) /\ game \in Games
  BY DEF Tables, Games
<1>2. matches' = Append(matches, game)
  BY DEF Commit
<1>3. /\ matches' \in Seq(Games) /\ Len(matches') = L + 1 /\ DOMAIN matches' = 1 .. L + 1
      /\ \A i \in 1 .. L : matches'[i] = matches[i]
      /\ matches'[L + 1] = game
  <2> HIDE DEF game
  <2> QED BY <1>1, <1>2
<1>4. Games' = Games /\ N' = N /\ TotalMatches' = TotalMatches /\ FirstModel' = FirstModel
  BY DEF Games, N, TotalMatches, FirstModel, Surplus
<1>5. ASSUME NEW t \in teams
      PROVE  /\ Played(t)' = Played(t) \cup (IF t \in six THEN {L + 1} ELSE {})
             /\ Flagged(t)' = Flagged(t) \cup (IF t \in sur THEN {L + 1} ELSE {})
             /\ Cardinality(Played(t)') = Cardinality(Played(t)) + (IF t \in six THEN 1 ELSE 0)
             /\ Cardinality(Flagged(t)') = Cardinality(Flagged(t)) + (IF t \in sur THEN 1 ELSE 0)
  <2>1. /\ Played(t) \subseteq 1 .. L /\ Flagged(t) \subseteq Played(t)
        /\ IsFiniteSet(Played(t)) /\ IsFiniteSet(Flagged(t))
        /\ Cardinality(Played(t)) \in Nat /\ Cardinality(Flagged(t)) \in Nat
    BY Appearances DEF Count
  <2>2. Played(t)' = Played(t) \cup (IF t \in six THEN {L + 1} ELSE {})
    <3>1. ASSUME NEW i PROVE i \in Played(t)' <=> i \in Played(t) \/ (t \in six /\ i = L + 1)
      BY <1>1, <1>3 DEF Played
    <3> QED BY <3>1
  <2>3. Flagged(t)' = Flagged(t) \cup (IF t \in sur THEN {L + 1} ELSE {})
    <3>1. ASSUME NEW i \in Played(t) PROVE i \in Flagged(t)' <=> i \in Flagged(t)
      BY <1>1, <1>3, <2>1, <2>2 DEF Flagged
    <3>2. t \in six => (L + 1 \in Flagged(t)' <=> t \in sur)
      BY <1>3, <2>2 DEF Flagged
    <3>3. Flagged(t)' \subseteq Played(t)'
      BY DEF Flagged
    <3>4. t \in sur => t \in six
      OBVIOUS
    <3> QED BY <2>1, <2>2, <3>1, <3>2, <3>3, <3>4
  <2>4. L + 1 \notin Played(t) /\ L + 1 \notin Flagged(t)
    BY <1>1, <2>1
  <2> HIDE DEF L
  <2> DEFINE l == L + 1
  <2>5. l \notin Played(t) /\ l \notin Flagged(t)
    BY <2>4
  <2> HIDE DEF l
  <2>6. Cardinality(Played(t) \cup {l}) = Cardinality(Played(t)) + 1
    <3> DEFINE A == Played(t)
    <3>1. IsFiniteSet(A) /\ l \notin A
      BY <2>1, <2>5
    <3> HIDE DEF A
    <3>2. Cardinality(A \cup {l}) = IF l \in A THEN Cardinality(A) ELSE Cardinality(A) + 1
      BY <3>1, FS_AddElement
    <3> QED BY <3>1, <3>2 DEF A
  <2>7. Cardinality(Flagged(t) \cup {l}) = Cardinality(Flagged(t)) + 1
    <3> DEFINE A == Flagged(t)
    <3>1. IsFiniteSet(A) /\ l \notin A
      BY <2>1, <2>5
    <3> HIDE DEF A
    <3>2. Cardinality(A \cup {l}) = IF l \in A THEN Cardinality(A) ELSE Cardinality(A) + 1
      BY <3>1, FS_AddElement
    <3> QED BY <3>1, <3>2 DEF A
  <2>8. Cardinality(Played(t)') = Cardinality(Played(t)) + (IF t \in six THEN 1 ELSE 0)
    <3>1. CASE t \in six
      BY <2>2, <2>6, <3>1 DEF l
    <3>2. CASE t \notin six
      <4>1. Played(t)' = Played(t)
        BY <2>2, <3>2
      <4> QED BY <2>1, <3>2, <4>1
    <3> QED BY <3>1, <3>2
  <2>9. Cardinality(Flagged(t)') = Cardinality(Flagged(t)) + (IF t \in sur THEN 1 ELSE 0)
    <3>1. CASE t \in sur
      BY <2>3, <2>7, <3>1 DEF l
    <3>2. CASE t \notin sur
      <4>1. Flagged(t)' = Flagged(t)
        BY <2>3, <3>2
      <4> QED BY <2>1, <3>2, <4>1
    <3> QED BY <3>1, <3>2
  <2> QED BY <2>2, <2>3, <2>8, <2>9 DEF L
<1>6. ASSUME NEW t \in teams
      PROVE  /\ mc'[t] = mc[t] + (IF t \in six THEN 1 ELSE 0)
             /\ sc'[t] = sc[t] + (IF t \in six /\ CountsAsSurrogate(t) THEN 1 ELSE 0)
  BY DEF Commit
<1>7. Counted'
  BY <1>5, <1>6 DEF Counted
<1>8. mc' \in [teams -> Nat] /\ sc' \in [teams -> Nat]
  <2>1. \A t \in teams : mc[t] \in Nat /\ sc[t] \in Nat
    BY DEF Tables
  <2>2. mc' = [t \in teams |-> mc[t] + IF t \in six THEN 1 ELSE 0]
    BY DEF Commit
  <2>3. sc' = [t \in teams |-> sc[t] + IF t \in six /\ CountsAsSurrogate(t) THEN 1 ELSE 0]
    BY DEF Commit
  <2> QED BY <2>1, <2>2, <2>3
<1>9. \A i \in DOMAIN matches' : matches'[i].sur \subseteq matches'[i].players
  <2>1. game.sur \subseteq game.players
    OBVIOUS
  <2> HIDE DEF game
  <2>2. \A i \in 1 .. L : matches[i].sur \subseteq matches[i].players
    BY <1>1 DEF Tables
  <2> QED BY <1>1, <1>3, <2>1, <2>2
<1>10. \A t \in teams : sc'[t] <= mc'[t] /\ mc'[t] <= TotalMatches
  <2> SUFFICES ASSUME NEW t \in teams PROVE sc'[t] <= mc'[t] /\ mc'[t] <= TotalMatches
    OBVIOUS
  <2>1. mc[t] \in Nat /\ sc[t] \in Nat /\ sc[t] <= mc[t]
    BY DEF Tables
  <2>2. mc[t] <= L
    BY Appearances DEF Counted, Count
  <2>3. TotalMatches \in Nat
    BY Sizes DEF Tables
  <2> QED BY <1>1, <1>6, <2>1, <2>2, <2>3
<1>11. Tables'
  BY <1>3, <1>4, <1>8, <1>9, <1>10 DEF Tables
<1>12. Appended(six, sur)
  <2>1. matches'[Len(matches')].players = six /\ matches'[Len(matches')].sur = sur
    BY <1>3
  <2>2. \A i \in DOMAIN matches : i \in DOMAIN matches' /\ matches'[i] = matches[i]
    BY <1>1, <1>3
  <2> QED BY <1>3, <1>5, <1>6, <2>1, <2>2 DEF Appended
<1> QED BY <1>7, <1>11, <1>12

\* A committed match leaves the others as they were.
LEMMA AppendKeeps ==
  ASSUME Tables, Tables', NEW six \in SUBSET teams, NEW sur \in SUBSET six, Appended(six, sur),
         UNCHANGED teams
  PROVE  /\ Full' <=> Full /\ Cardinality(six) = Slots
         /\ NoFlags' <=> NoFlags /\ sur = {}
         /\ UNCHANGED quota /\ Seated => Seated'
<1>1. /\ Len(matches) \in Nat /\ DOMAIN matches = 1 .. Len(matches)
      /\ DOMAIN matches' = 1 .. Len(matches) + 1
  BY DEF Tables, Appended
<1>2. /\ \A i \in 1 .. Len(matches) : matches'[i] = matches[i]
      /\ matches'[Len(matches) + 1].players = six /\ matches'[Len(matches) + 1].sur = sur
  BY <1>1 DEF Appended
<1>3. Full' <=> Full /\ Cardinality(six) = Slots
  BY <1>1, <1>2 DEF Full, IsFull
<1>4. NoFlags' <=> NoFlags /\ sur = {}
  BY <1>1, <1>2 DEF NoFlags
<1>5. UNCHANGED quota /\ Seated => Seated'
  BY DEF Seated, Appended, PerRound, N
<1> QED BY <1>3, <1>4, <1>5

-----------------------------------------------------------------------------
\* What the teams are short of.

LEMMA OwedFalls ==
  ASSUME Tables, NEW six \in SUBSET teams, NEW sur, Appended(six, sur),
         \A t \in six : mc[t] < quota, UNCHANGED <<teams, quota>>
  PROVE  /\ IsFiniteSet(Owed) /\ Cardinality(Owed) \in Nat
         /\ Cardinality(six) \in Nat
         /\ Cardinality(Owed') = Cardinality(Owed) - Cardinality(six)
<1> DEFINE f    == [t \in six |-> <<t, mc[t] + 1>>]
           paid == {f[t] : t \in six}
<1>1. quota \in Nat /\ IsFiniteSet(teams) /\ \A t \in teams : mc[t] \in Nat
  BY DEF Tables
<1>2. IsFiniteSet(six)
  BY <1>1, FS_Subset
<1>3. IsFiniteSet(Owed)
  <2>1. IsFiniteSet(1 .. quota)
    BY <1>1, FS_Interval
  <2>2. IsFiniteSet(teams \X (1 .. quota))
    BY <1>1, <2>1, FS_Product
  <2>3. Owed \in SUBSET (teams \X (1 .. quota))
    BY DEF Owed
  <2> QED BY <2>2, <2>3, FS_Subset
<1>4. f \in Bijection(six, paid)
  <2>1. \A t \in six, u \in six : f[t] = f[u] => t = u
    OBVIOUS
  <2>2. f \in [six -> paid]
    OBVIOUS
  <2>3. \A y \in paid : \E t \in six : f[t] = y
    OBVIOUS
  <2> HIDE DEF f, paid
  <2> QED BY <2>1, <2>2, <2>3 DEF Bijection, Injection, Surjection, IsInjective
<1>5. IsFiniteSet(paid) /\ Cardinality(paid) = Cardinality(six)
  <2> HIDE DEF f, paid
  <2>1. ExistsBijection(six, paid)
    BY <1>4 DEF ExistsBijection
  <2> QED BY <1>2, <2>1, FS_Bijection
<1>6. paid \subseteq Owed
  <2> SUFFICES ASSUME NEW t \in six PROVE f[t] \in Owed
    OBVIOUS
  <2>1. mc[t] + 1 \in 1 .. quota /\ mc[t] < mc[t] + 1
    BY <1>1
  <2>2. <<t, mc[t] + 1>> \in teams \X (1 .. quota)
    BY <2>1
  <2> QED BY <2>1, <2>2 DEF Owed
<1>7. Owed' = Owed \ paid
  <2> SUFFICES ASSUME NEW t \in teams, NEW k \in 1 .. quota
               PROVE  <<t, k>> \in Owed' <=> <<t, k>> \in Owed \ paid
    BY DEF Owed
  <2>1. mc'[t] = mc[t] + (IF t \in six THEN 1 ELSE 0)
    BY DEF Appended
  <2>2. <<t, k>> \in Owed' <=> mc'[t] < k
    BY DEF Owed
  <2>3. <<t, k>> \in Owed <=> mc[t] < k
    BY DEF Owed
  <2>4. <<t, k>> \in paid <=> t \in six /\ k = mc[t] + 1
    OBVIOUS
  <2> QED BY <1>1, <2>1, <2>2, <2>3, <2>4
<1> HIDE DEF paid
<1>8. Cardinality(Owed \ paid) = Cardinality(Owed) - Cardinality(Owed \cap paid)
  BY <1>3, FS_Difference
<1>9. Owed \cap paid = paid
  BY <1>6
<1> QED BY <1>2, <1>3, <1>5, <1>7, <1>8, <1>9, FS_CardinalityType

\* A part and the rest of a finite set.
LEMMA Rest ==
  ASSUME NEW S, IsFiniteSet(S), NEW T \in SUBSET S
  PROVE  /\ IsFiniteSet(T) /\ IsFiniteSet(S \ T)
         /\ Cardinality(S) \in Nat /\ Cardinality(T) \in Nat /\ Cardinality(S \ T) \in Nat
         /\ Cardinality(S \ T) = Cardinality(S) - Cardinality(T)
         /\ Cardinality(T) <= Cardinality(S)
<1>1. Cardinality(S \ T) = Cardinality(S) - Cardinality(S \cap T) /\ IsFiniteSet(S \ T)
  BY FS_Difference
<1>2. S \cap T = T
  OBVIOUS
<1>3. IsFiniteSet(T) /\ Cardinality(T) <= Cardinality(S)
  BY FS_Subset
<1> QED BY <1>1, <1>2, <1>3, FS_CardinalityType

LEMMA TwoParts ==
  ASSUME NEW S, NEW T, IsFiniteSet(S), IsFiniteSet(T), S \cap T = {}
  PROVE  /\ IsFiniteSet(S \cup T) /\ Cardinality(S) \in Nat /\ Cardinality(T) \in Nat
         /\ Cardinality(S \cup T) = Cardinality(S) + Cardinality(T)
<1>1. Cardinality(S \cup T) = Cardinality(S) + Cardinality(T) - Cardinality(S \cap T)
  BY FS_Union
<1>2. Cardinality(S \cap T) = 0
  BY FS_EmptySet
<1> QED BY <1>1, <1>2, FS_Union, FS_CardinalityType

LEMMA ConstructionStarts == Init => Inv
<1> SUFFICES ASSUME Init PROVE Inv
  OBVIOUS
<1>1. PICK s \in Shapes : teams = s[1] /\ quota = s[2]
  BY DEF Init
<1>2. IsFiniteSet(teams) /\ Cardinality(teams) >= Slots /\ quota \in Nat \ {0}
  BY <1>1, ShapeAssumption
<1>3. picked \in SUBSET teams /\ (~FirstModel => picked = {})
  <2>1. CASE FirstModel
    BY <2>1 DEF Init, kSubset
  <2>2. CASE ~FirstModel
    BY <2>2 DEF Init
  <2> QED BY <2>1, <2>2
<1>4. /\ matches = <<>> /\ Len(matches) = 0 /\ DOMAIN matches = {} /\ phase = "round1"
      /\ mc = [t \in teams |-> 0] /\ sc = [t \in teams |-> 0]
  BY DEF Init
<1>5. TotalMatches \in Nat /\ PerRound >= 1 /\ N \in Nat /\ Slots \in Nat /\ N * quota \in Nat
  BY <1>2, Sizes
<1>6. Tables
  <2>1. matches \in Seq(Games)
    BY <1>4
  <2>2. /\ mc \in [teams -> Nat] /\ sc \in [teams -> Nat]
        /\ \A t \in teams : sc[t] <= mc[t] /\ mc[t] <= TotalMatches
    BY <1>4, <1>5
  <2> QED BY <1>2, <1>3, <1>4, <2>1, <2>2 DEF Tables
<1>7. Counted
  <2>1. \A t \in teams : Played(t) = {}
    BY <1>4 DEF Played
  <2> QED BY <1>4, <2>1, FS_EmptySet DEF Counted
<1>8. InRoundOne
  <2>1. With(0) = teams
    BY <1>4 DEF With
  <2>2. Cardinality(Owed) = N * quota
    <3>1. Owed = teams \X (1 .. quota)
      <4>1. \A x \in teams \X (1 .. quota) : mc[x[1]] < x[2]
        <5> TAKE x \in teams \X (1 .. quota)
        <5>1. x[1] \in teams /\ x[2] \in 1 .. quota
          OBVIOUS
        <5>2. mc[x[1]] = 0
          BY <1>4, <5>1
        <5> QED BY <1>2, <5>1, <5>2
      <4> QED BY <4>1 DEF Owed
    <3>2. IsFiniteSet(1 .. quota) /\ Cardinality(1 .. quota) = quota
      <4>1. 1 \in Int /\ quota \in Int /\ quota >= 1
        BY <1>2
      <4>2. /\ IsFiniteSet(1 .. quota)
            /\ Cardinality(1 .. quota) = IF 1 > quota THEN 0 ELSE quota - 1 + 1
        BY <4>1, FS_Interval
      <4> QED BY <4>1, <4>2
    <3> QED BY <1>2, <3>1, <3>2, FS_Product DEF N
  <2>3. Slots * Len(matches) = 0
    BY <1>4, <1>5
  <2>4. Full /\ NoFlags
    BY <1>4 DEF Full, NoFlags
  <2>5. \A t \in teams : mc[t] \in 0 .. 1 /\ sc[t] = 0
    BY <1>4
  <2>6. Len(matches) < PerRound
    BY <1>2, <1>4, Sizes
  <2>7. Cardinality(With(0)) = N - Slots * Len(matches)
    BY <1>5, <2>1, <2>3 DEF N
  <2>8. Cardinality(Owed) = N * quota - Slots * Len(matches)
    BY <1>5, <2>2, <2>3
  <2> QED BY <2>4, <2>5, <2>6, <2>7, <2>8 DEF InRoundOne
<1> QED BY <1>4, <1>6, <1>7, <1>8 DEF Inv

-----------------------------------------------------------------------------
\* Round 1.

\* Nobody's appearance counts as a surrogate one before its quota, or, in the
\* FIRST model, before the third.
LEMMA NotYet ==
  ASSUME NEW t \in teams, mc[t] \in Nat, quota \in Nat \ {0},
         FirstModel => mc[t] < 2, ~FirstModel => mc[t] < quota
  PROVE  ~CountsAsSurrogate(t)
<1>1. CASE FirstModel
  BY <1>1 DEF CountsAsSurrogate
<1>2. CASE ~FirstModel
  BY <1>2 DEF CountsAsSurrogate
<1> QED BY <1>1, <1>2

\* The teams that have not played are as many as the seats left, so every match
\* of round 1 is full: the last one takes them all, and as many of the others as
\* it has seats to spare.
LEMMA SeatsOfRoundOne ==
  ASSUME Tables, InRoundOne, NEW extra,
         extra = IF Len(matches) = PerRound - 1 THEN RoundSurplus ELSE 0,
         NEW fp \in Sample(Slots - extra, {t \in teams : mc[t] = 0}),
         NEW sp \in Sample(extra, {t \in teams : mc[t] = 1})
  PROVE  /\ fp \subseteq With(0) /\ sp \subseteq With(1) /\ fp \cap sp = {}
         /\ IsFiniteSet(fp) /\ IsFiniteSet(sp)
         /\ Cardinality(fp) = Slots - extra /\ Cardinality(sp) = extra
         /\ Cardinality(fp \cup sp) = Slots
         /\ Slots * (Len(matches) + 1) = Slots * Len(matches) + Slots
         /\ Slots * Len(matches) \in Int
         /\ IF Len(matches) = PerRound - 1 THEN fp = With(0) ELSE sp = {}
<1> DEFINE L == Len(matches)
<1>1. IsFiniteSet(teams) /\ \A t \in teams : mc[t] \in 0 .. 1
  BY DEF Tables, InRoundOne
<1>2. /\ L \in Nat /\ PerRound \in Nat /\ L < PerRound /\ Slots \in Nat \ {0}
      /\ N \in Nat /\ N >= Slots
      /\ N <= Slots * PerRound /\ Slots * PerRound <= N + Slots - 1
      /\ RoundSurplus = Slots * PerRound - N
  BY Sizes DEF Tables, InRoundOne
<1>3. Cardinality(With(0)) = N - Slots * L
  BY DEF InRoundOne
<1>4. /\ IsFiniteSet(With(0)) /\ IsFiniteSet(With(1)) /\ With(0) \cap With(1) = {}
      /\ Cardinality(With(1)) = N - Cardinality(With(0))
      /\ Cardinality(With(0)) \in Nat /\ Cardinality(With(1)) \in Nat
  <2>1. With(0) \in SUBSET teams /\ With(1) = teams \ With(0)
    BY <1>1 DEF With
  <2> QED BY <1>1, <2>1, Rest DEF N
<1> HIDE DEF L
<1>5. /\ Slots * L \in Int /\ Slots * PerRound \in Int
      /\ Slots * (L + 1) = Slots * L + Slots
      /\ L # PerRound - 1 => Slots * (L + 1) + Slots <= Slots * PerRound
      /\ L = PerRound - 1 => Slots * L + Slots = Slots * PerRound
  <2>1. Slots * (L + 1) = Slots * L + Slots /\ Slots * L \in Int
    BY <1>2, Scaled
  <2>2. Slots * ((L + 1) + 1) = Slots * (L + 1) + Slots
    <3>1. L + 1 \in Int
      BY <1>2
    <3> HIDE DEF L
    <3> QED BY <1>2, <3>1, Scaled
  <2>3. ASSUME L # PerRound - 1 PROVE Slots * (L + 1) + Slots <= Slots * PerRound
    <3>1. (L + 1) + 1 \in Int /\ PerRound \in Int /\ (L + 1) + 1 <= PerRound
      BY <1>2, <2>3
    <3>2. Slots * ((L + 1) + 1) <= Slots * PerRound
      BY <1>2, <3>1, Scaled
    <3> QED BY <2>2, <3>2
  <2>4. L = PerRound - 1 => L + 1 = PerRound
    BY <1>2
  <2>5. Slots * PerRound \in Int
    BY <1>2
  <2> QED BY <2>1, <2>3, <2>4, <2>5
<1>6. /\ extra \in Nat /\ Slots - extra \in Nat
      /\ Slots - extra <= Cardinality(With(0)) /\ extra <= Cardinality(With(1))
      /\ L = PerRound - 1 => Cardinality(With(0)) = Slots - extra
      /\ L # PerRound - 1 => extra = 0
  <2>1. CASE L = PerRound - 1
    <3>1. extra = Slots * PerRound - N
      BY <1>2, <2>1 DEF L
    <3> QED BY <1>2, <1>3, <1>4, <1>5, <2>1, <3>1
  <2>2. CASE L # PerRound - 1
    <3>1. extra = 0
      BY <2>2 DEF L
    <3> QED BY <1>2, <1>3, <1>4, <1>5, <2>2, <3>1
  <2> QED BY <2>1, <2>2
<1>7. fp \in Sample(Slots - extra, With(0)) /\ sp \in Sample(extra, With(1))
  BY DEF With
<1>8. fp \subseteq With(0) /\ IsFiniteSet(fp) /\ Cardinality(fp) = Slots - extra
      /\ (L = PerRound - 1 => fp = With(0))
  <2>1. Cardinality(With(0)) <= Slots - extra => fp = With(0)
    BY <1>4, <1>6, <1>7, SampleIs
  <2> QED BY <1>4, <1>6, <1>7, <2>1, SampleIs
<1>9. sp \subseteq With(1) /\ IsFiniteSet(sp) /\ Cardinality(sp) = extra
  BY <1>4, <1>6, <1>7, SampleIs
<1>10. L # PerRound - 1 => sp = {}
  BY <1>6, <1>9, FS_EmptySet
<1>11. fp \cap sp = {}
  BY <1>4, <1>8, <1>9
<1>12. Cardinality(fp \cup sp) = Slots
  <2>1. Cardinality(fp \cup sp) = Cardinality(fp) + Cardinality(sp)
    BY <1>8, <1>9, <1>11, TwoParts
  <2> QED BY <1>2, <1>6, <1>8, <1>9, <2>1
<1> QED BY <1>5, <1>8, <1>9, <1>10, <1>11, <1>12 DEF L

LEMMA RoundOneKeeps == ASSUME Inv, RoundOne PROVE Inv'
<1> DEFINE L == Len(matches)
           last  == L = PerRound - 1
           extra == IF last THEN RoundSurplus ELSE 0
<1>1. Tables /\ Counted /\ InRoundOne
  BY DEF Inv, RoundOne
<1>2. PICK fp \in Sample(Slots - extra, {t \in teams : mc[t] = 0}),
           sp \in Sample(extra, {t \in teams : mc[t] = 1}) : Commit(fp \cup sp, {})
  BY DEF RoundOne
<1> DEFINE six == fp \cup sp
<1>3. /\ fp \subseteq With(0) /\ sp \subseteq With(1) /\ fp \cap sp = {}
      /\ IsFiniteSet(fp) /\ IsFiniteSet(sp)
      /\ Cardinality(fp) = Slots - extra /\ Cardinality(sp) = extra
      /\ Cardinality(six) = Slots
      /\ Slots * (L + 1) = Slots * L + Slots /\ Slots * L \in Int
      /\ IF last THEN fp = With(0) ELSE sp = {}
  BY <1>1, <1>2, SeatsOfRoundOne
<1>4. /\ UNCHANGED <<teams, quota, picked, row, pending>>
      /\ phase' = IF last THEN "open" ELSE "round1"
  BY DEF RoundOne
<1>5. /\ N' = N /\ TotalMatches' = TotalMatches /\ PerRound' = PerRound /\ Surplus' = Surplus
      /\ (FirstModel' <=> FirstModel)
  BY <1>4 DEF N, TotalMatches, PerRound, Surplus, FirstModel
<1>6. /\ L \in Nat /\ PerRound \in Nat /\ L < PerRound /\ PerRound <= TotalMatches
      /\ TotalMatches \in Nat /\ N \in Nat /\ Slots \in Nat \ {0} /\ N * quota \in Nat
      /\ RoundSurplus = Slots * PerRound - N /\ (quota = 1 => PerRound = TotalMatches)
      /\ quota \in Nat \ {0}
  BY <1>1, Sizes DEF Tables, InRoundOne
<1>7. six \in SUBSET teams /\ {} \in SUBSET six
  BY <1>3 DEF With
<1> HIDE DEF six, last, L, extra
<1>8. Tables' /\ Counted' /\ Appended(six, {})
  <2>1. Commit(six, {})
    BY <1>2 DEF six
  <2>2. phase' \in {"round1", "open", "sweep1", "check", "malformed", "built"}
    BY <1>4
  <2>3. Len(matches) < TotalMatches
    BY <1>6 DEF L
  <2> QED BY <1>1, <1>4, <1>7, <2>1, <2>2, <2>3, CommitAppends
<1>9. Full' /\ NoFlags'
  BY <1>1, <1>3, <1>4, <1>7, <1>8, AppendKeeps DEF InRoundOne
<1>10. Len(matches') = L + 1
  BY <1>8 DEF Appended, L
<1>11. /\ \A t \in teams : mc[t] \in 0 .. 1 /\ sc[t] = 0
       /\ Cardinality(With(0)) = N - Slots * L
       /\ quota >= 2 => Cardinality(Owed) = N * quota - Slots * L
  BY <1>1 DEF InRoundOne, L
<1>12. ASSUME NEW t \in teams
       PROVE  /\ mc'[t] = IF t \in six THEN mc[t] + 1 ELSE mc[t]
              /\ mc'[t] \in 0 .. 2
              /\ quota >= 2 => sc'[t] = 0
  <2>1. mc'[t] = mc[t] + (IF t \in six THEN 1 ELSE 0)
    BY <1>8 DEF Appended
  <2>2. sc'[t] = sc[t] + (IF t \in six /\ CountsAsSurrogate(t) THEN 1 ELSE 0)
    BY <1>8 DEF Appended
  <2>3. quota >= 2 => ~CountsAsSurrogate(t)
    BY <1>6, <1>11, NotYet
  <2> QED BY <1>11, <2>1, <2>2, <2>3
<1>13. quota >= 2 => Cardinality(Owed') = N * quota - Slots * (L + 1)
  <2> SUFFICES ASSUME quota >= 2 PROVE Cardinality(Owed') = N * quota - Slots * (L + 1)
    OBVIOUS
  <2>1. \A t \in six : mc[t] < quota
    BY <1>6, <1>7, <1>11
  <2>2. Cardinality(Owed) \in Nat /\ Cardinality(Owed') = Cardinality(Owed) - Cardinality(six)
    BY <1>1, <1>4, <1>7, <1>8, <2>1, OwedFalls
  <2> QED BY <1>3, <1>6, <1>11, <2>2
<1>14. CASE ~last
  <2>1. sp = {} /\ fp = six /\ Cardinality(fp) = Slots
    <3>1. sp = {}
      BY <1>3, <1>14
    <3> QED BY <1>3, <3>1 DEF six
  <2>2. With(0)' = With(0) \ fp
    <3>1. ASSUME NEW t \in teams PROVE mc'[t] = 0 <=> mc[t] = 0 /\ t \notin fp
      BY <1>3, <1>11, <1>12, <2>1 DEF With
    <3> QED BY <1>4, <3>1 DEF With
  <2>3. Cardinality(With(0)') = N - Slots * (L + 1)
    <3>1. IsFiniteSet(With(0))
      <4>1. With(0) \in SUBSET teams /\ IsFiniteSet(teams)
        BY <1>1 DEF With, Tables
      <4> QED BY <4>1, FS_Subset
    <3>2. Cardinality(With(0) \ fp) = Cardinality(With(0)) - Cardinality(fp)
      BY <1>3, <3>1, Rest
    <3> QED BY <1>3, <1>6, <1>11, <2>1, <2>2, <3>2
  <2>4. \A t \in teams : mc'[t] \in 0 .. 1
    <3> SUFFICES ASSUME NEW t \in teams PROVE mc'[t] \in 0 .. 1
      OBVIOUS
    <3>1. t \in six => mc[t] = 0
      BY <1>3, <2>1 DEF With
    <3> QED BY <1>11, <1>12, <3>1
  <2>5. \A t \in teams : sc'[t] = 0
    <3> SUFFICES ASSUME NEW t \in teams PROVE sc'[t] = 0
      OBVIOUS
    <3>1. sc'[t] = sc[t] + (IF t \in six /\ CountsAsSurrogate(t) THEN 1 ELSE 0)
      BY <1>8 DEF Appended
    <3>2. t \in six => ~CountsAsSurrogate(t)
      <4>1. t \in six => mc[t] = 0
        BY <1>3, <2>1 DEF With
      <4> QED BY <1>6, <4>1, NotYet
    <3> QED BY <1>11, <3>1, <3>2
  <2>6. Len(matches') < PerRound
    BY <1>6, <1>10, <1>14 DEF last
  <2>7. InRoundOne'
    BY <1>4, <1>5, <1>9, <1>10, <1>13, <2>3, <2>4, <2>5, <2>6 DEF InRoundOne
  <2>8. phase' = "round1"
    BY <1>4, <1>14
  <2> QED BY <1>8, <2>7, <2>8 DEF Inv
<1>15. CASE last
  <2>1. fp = With(0) /\ L + 1 = PerRound /\ extra = RoundSurplus
    BY <1>3, <1>6, <1>15 DEF last, extra
  <2>2. ASSUME NEW t \in teams PROVE mc'[t] = IF t \in sp THEN 2 ELSE 1
    <3>1. mc[t] = 0 => t \in six /\ t \notin sp
      BY <1>3, <2>1 DEF With, six
    <3>2. mc[t] = 1 => (t \in six <=> t \in sp)
      BY <2>1 DEF With, six
    <3> QED BY <1>11, <1>12, <3>1, <3>2
  <2>3. Seated'
    <3> SUFFICES ASSUME NEW t \in teams PROVE \E i \in Played(t)' : i <= PerRound
      BY <1>4, <1>5 DEF Seated
    <3>1. Played(t)' # {}
      <4>1. Cardinality(Played(t)') = mc'[t]
        BY <1>4, <1>8 DEF Counted
      <4>2. mc'[t] # 0
        BY <2>2
      <4> QED BY <4>1, <4>2, FS_EmptySet
    <3>2. Played(t)' \subseteq 1 .. PerRound
      <4>1. DOMAIN matches' = 1 .. Len(matches')
        BY <1>8 DEF Tables
      <4> QED BY <1>10, <2>1, <4>1 DEF Played
    <3> QED BY <1>6, <3>1, <3>2
  <2>4. ASSUME FirstModel PROVE ThirdIsFlagged'
    <3>1. quota >= 3
      BY <2>4 DEF FirstModel
    <3>2. ASSUME NEW t \in teams
          PROVE  sc'[t] = 0 /\ mc'[t] < 3 /\ Flagged(t)' = {}
      <4>1. Flagged(t)' = {}
        BY <1>9 DEF Flagged, NoFlags, Played
      <4> QED BY <1>6, <1>12, <2>2, <3>1, <4>1
    <3>3. ASSUME NEW t \in teams
          PROVE  /\ sc'[t] = IF t \in picked /\ mc'[t] >= 3 THEN 1 ELSE 0
                 /\ Cardinality(Flagged(t)') = sc'[t]
                 /\ \A i \in Flagged(t)' : Cardinality({j \in Played(t)' : j <= i}) = 3
      <4>1. sc'[t] = 0 /\ mc'[t] < 3 /\ mc'[t] \in Int /\ Flagged(t)' = {}
        BY <1>12, <3>2
      <4> QED BY <4>1, FS_EmptySet
    <3> QED BY <1>4, <1>9, <3>3 DEF ThirdIsFlagged
  <2>5. ASSUME quota = 2 PROVE TwoLeft'
    <3>1. Cardinality(With(1)') = N * quota - Slots * (L + 1)
      <4>1. With(1)' = teams \ sp
        BY <1>4, <2>2 DEF With
      <4>2. sp \in SUBSET teams /\ IsFiniteSet(teams)
        BY <1>1, <1>3 DEF With, Tables
      <4>3. Cardinality(teams \ sp) = N - Cardinality(sp)
        BY <4>2, Rest DEF N
      <4>4. N * quota = N + N
        BY <1>6, <2>5
      <4>5. Slots * PerRound \in Int
        BY <1>6
      <4>6. Slots * (L + 1) = Slots * PerRound
        BY <2>1
      <4>7. Cardinality(sp) = Slots * PerRound - N
        BY <1>3, <1>6, <2>1
      <4>8. Cardinality(With(1)') = N - Cardinality(sp)
        BY <4>1, <4>3
      <4>9. ASSUME NEW p \in Int, NEW c, c = p - N PROVE N - c = (N + N) - p
        BY <1>6, <4>9
      <4>10. N - Cardinality(sp) = (N + N) - Slots * PerRound
        BY <4>5, <4>7, <4>9
      <4> QED BY <4>4, <4>6, <4>8, <4>10
    <3>2. \A t \in teams : mc'[t] \in 1 .. 2 /\ sc'[t] = 0
      BY <1>12, <2>2, <2>5
    <3> QED BY <1>4, <1>5, <1>9, <1>10, <3>1, <3>2 DEF TwoLeft
  <2>6. ASSUME quota >= 3 PROVE ExactSeats'
    <3>1. \A t \in teams : mc'[t] <= quota
      BY <1>6, <2>2, <2>6
    <3>2. Cardinality(Owed') = N * quota - Slots * (L + 1)
      BY <1>6, <1>13, <2>6
    <3> QED BY <1>4, <1>5, <1>9, <1>10, <3>1, <3>2 DEF ExactSeats
  <2>7. InOpen'
    BY <1>4, <1>5, <1>6, <1>9, <1>10, <2>1, <2>3, <2>4, <2>5, <2>6 DEF InOpen
  <2>8. phase' = "open"
    BY <1>4, <1>15
  <2> QED BY <1>8, <2>7, <2>8 DEF Inv
<1> QED BY <1>14, <1>15

-----------------------------------------------------------------------------
\* Open scheduling.

\* The FIRST model deals full matches and flags third appearances.
LEMMA OpenFirstKeeps == ASSUME Inv, OpenFirst PROVE Inv'
<1> DEFINE L == Len(matches)
<1>1. Tables /\ Counted /\ InOpen /\ ThirdIsFlagged /\ FirstModel /\ L < TotalMatches
  BY DEF Inv, OpenFirst, InOpen
<1>2. PICK six \in kSubset(Slots, FirstPool) :
        Commit(six, {t \in six : t \in picked /\ mc[t] + 1 = 3})
  BY DEF OpenFirst
<1> DEFINE sur == {t \in six : t \in picked /\ mc[t] + 1 = 3}
<1>3. UNCHANGED <<teams, quota, phase, picked, row, pending>> /\ phase = "open"
  BY DEF OpenFirst
<1>4. /\ N' = N /\ TotalMatches' = TotalMatches /\ PerRound' = PerRound /\ Surplus' = Surplus
      /\ (FirstModel' <=> FirstModel)
  BY <1>3 DEF N, TotalMatches, PerRound, Surplus, FirstModel
<1>5. six \in SUBSET teams /\ Cardinality(six) = Slots
  BY DEF FirstPool, UnderQuota, kSubset
<1>6. sur \in SUBSET six
  OBVIOUS
<1>7. Tables' /\ Counted' /\ Appended(six, sur)
  BY <1>1, <1>2, <1>3, <1>5, <1>6, CommitAppends
<1>8. L \in Nat /\ TotalMatches \in Nat /\ Len(matches') = L + 1
  BY <1>1, <1>7, Sizes DEF Tables, Appended
<1>9. Full' /\ (Seated => Seated')
  BY <1>1, <1>3, <1>5, <1>6, <1>7, AppendKeeps DEF ThirdIsFlagged
<1>10. ASSUME NEW t \in teams
       PROVE  /\ sc'[t] = IF t \in picked /\ mc'[t] >= 3 THEN 1 ELSE 0
              /\ Cardinality(Flagged(t)') = sc'[t]
              /\ \A i \in Flagged(t)' : Cardinality({j \in Played(t)' : j <= i}) = 3
  <2>1. /\ Played(t)' = Played(t) \cup (IF t \in six THEN {L + 1} ELSE {})
        /\ Flagged(t)' = Flagged(t) \cup (IF t \in sur THEN {L + 1} ELSE {})
        /\ mc'[t] = mc[t] + (IF t \in six THEN 1 ELSE 0)
        /\ sc'[t] = sc[t] + (IF t \in six /\ CountsAsSurrogate(t) THEN 1 ELSE 0)
        /\ Cardinality(Flagged(t)') = Cardinality(Flagged(t)) + (IF t \in sur THEN 1 ELSE 0)
    BY <1>7, <1>8 DEF Appended
  <2>2. (t \in six /\ CountsAsSurrogate(t)) <=> t \in sur
    BY <1>1 DEF CountsAsSurrogate
  <2>3. /\ sc[t] = (IF t \in picked /\ mc[t] >= 3 THEN 1 ELSE 0) /\ mc[t] \in Nat
        /\ Cardinality(Flagged(t)) = sc[t]
        /\ \A i \in Flagged(t) : Cardinality({j \in Played(t) : j <= i}) = 3
    BY <1>1 DEF ThirdIsFlagged, Tables
  <2>4. t \in sur => t \in six /\ t \in picked /\ mc[t] = 2 /\ mc'[t] = 3
    BY <2>1, <2>3
  <2>5. t \in six /\ t \in picked /\ mc[t] = 2 => t \in sur
    OBVIOUS
  <2>6. Played(t) \subseteq 1 .. L /\ Flagged(t) \subseteq Played(t)
    BY <1>1, Appearances
  <2> HIDE DEF sur
  <2>7. Cardinality(Flagged(t)') = sc'[t]
    BY <2>1, <2>2, <2>3
  <2>8. sc'[t] = IF t \in picked /\ mc'[t] >= 3 THEN 1 ELSE 0
    <3>1. CASE t \in sur
      BY <2>1, <2>2, <2>3, <2>4, <3>1
    <3>2. CASE t \notin sur
      <4>1. sc'[t] = sc[t]
        BY <2>1, <2>2, <2>3, <3>2
      <4>2. t \in picked => (mc'[t] >= 3 <=> mc[t] >= 3)
        BY <2>1, <2>3, <2>5, <3>2
      <4> QED BY <2>3, <4>1, <4>2
    <3> QED BY <3>1, <3>2
  <2>9. ASSUME NEW i \in Flagged(t)'
        PROVE  Cardinality({j \in Played(t)' : j <= i}) = 3
    <3>1. CASE i \in Flagged(t)
      <4>1. i \in 1 .. L
        BY <2>6, <3>1
      <4>2. {j \in Played(t)' : j <= i} = {j \in Played(t) : j <= i}
        BY <1>8, <2>1, <2>6, <4>1
      <4> QED BY <2>3, <3>1, <4>2
    <3>2. CASE i \notin Flagged(t)
      <4>1. t \in sur /\ i = L + 1
        BY <2>1, <2>9, <3>2
      <4>2. {j \in Played(t)' : j <= i} = Played(t)'
        BY <1>8, <2>1, <2>6, <4>1
      <4>3. Cardinality(Played(t)') = 3
        BY <1>3, <1>7, <2>4, <4>1 DEF Counted
      <4> QED BY <4>2, <4>3
    <3> QED BY <3>1, <3>2
  <2> QED BY <2>7, <2>8, <2>9
<1>11. ThirdIsFlagged'
  BY <1>3, <1>9, <1>10 DEF ThirdIsFlagged
<1>12. InOpen'
  <2>1. Len(matches') <= TotalMatches'
    BY <1>1, <1>4, <1>8
  <2>2. Seated'
    BY <1>1, <1>9 DEF InOpen
  <2> QED BY <1>1, <1>4, <1>11, <2>1, <2>2 DEF InOpen
<1> QED BY <1>3, <1>7, <1>12 DEF Inv

\* With a quota of 2 the teams under it are as many as the seats left, less the
\* surplus, which only the last match takes from the others.
LEMMA TwoKeeps ==
  ASSUME Tables, TwoLeft, Full, quota = 2, picked = {}, Len(matches) < TotalMatches, NEW needed,
         needed = Max({0, Slots - Cardinality(UnderQuota)}),
         NEW fp \in Sample(Slots - needed, UnderQuota), NEW sp \in Sample(needed, AtQuota)
  PROVE  /\ fp \subseteq With(1) /\ sp \subseteq With(2) /\ fp \cap sp = {}
         /\ Cardinality(fp \cup sp) = Slots
         /\ \/ sp = {} /\ Cardinality(With(1) \ fp) = N * quota - Slots * (Len(matches) + 1)
            \/ fp = With(1) /\ Len(matches) + 1 = TotalMatches
<1> DEFINE L == Len(matches)
           U == UnderQuota
<1>1. IsFiniteSet(teams) /\ \A t \in teams : mc[t] \in 1 .. 2 /\ sc[t] = 0
  BY DEF Tables, TwoLeft
<1>2. /\ L \in Nat /\ Slots \in Nat \ {0} /\ N \in Nat /\ N >= Slots /\ TotalMatches \in Nat
      /\ N * quota \in Nat /\ Slots * TotalMatches <= N * quota + Slots - 1
      /\ Surplus = Slots * TotalMatches - N * quota
  BY Sizes DEF Tables
<1>3. U = With(1)
  BY <1>1 DEF UnderQuota, Target, With
<1>4. Cardinality(U) = N * quota - Slots * L
  BY <1>3 DEF TwoLeft
<1>5. /\ With(1) \cap With(2) = {} /\ IsFiniteSet(With(1)) /\ IsFiniteSet(With(2))
      /\ Cardinality(U) \in Nat /\ Cardinality(With(2)) \in Nat
      /\ Cardinality(With(2)) = N - Cardinality(U)
  <2>1. With(1) \in SUBSET teams /\ With(2) = teams \ With(1)
    BY <1>1 DEF With
  <2> QED BY <1>1, <1>3, <2>1, Rest DEF N
<1> HIDE DEF U
<1>6. needed = IF 0 >= Slots - Cardinality(U) THEN 0 ELSE Slots - Cardinality(U)
  <2>1. 0 \in Int /\ Slots - Cardinality(U) \in Int
    BY <1>2, <1>5
  <2> QED BY <2>1, MaxOfTwo DEF U
<1>7. needed \in Nat /\ Slots - needed \in Nat /\ Slots - needed <= Cardinality(U)
  BY <1>2, <1>5, <1>6
<1>8. fp \subseteq U /\ IsFiniteSet(fp) /\ Cardinality(fp) = Slots - needed
      /\ (Cardinality(U) <= Slots - needed => fp = U)
  <2>1. IsFiniteSet(U) /\ fp \in Sample(Slots - needed, U)
    BY <1>3, <1>5 DEF U
  <2>2. Cardinality(U) <= Slots - needed => fp = U
    BY <1>7, <2>1, SampleIs
  <2> QED BY <1>7, <2>1, <2>2, SampleIs
<1>9. AtQuota \subseteq With(2) /\ IsFiniteSet(AtQuota)
  <2>1. AtQuota \in SUBSET With(2)
    BY DEF AtQuota, With
  <2> QED BY <1>5, <2>1, FS_Subset
<1>10. sp \subseteq With(2) /\ IsFiniteSet(sp)
  BY <1>7, <1>9, SampleIs
<1>11. fp \cap sp = {}
  BY <1>3, <1>5, <1>8, <1>10
<1>12. Slots * (L + 1) = Slots * L + Slots /\ Slots * L \in Int /\ Slots * TotalMatches \in Int
  BY <1>2, Scaled
<1>13. CASE Cardinality(U) >= Slots
  <2>1. needed = 0
    BY <1>2, <1>5, <1>6, <1>13
  <2>2. sp = {} /\ Cardinality(fp) = Slots
    <3>1. Cardinality(sp) = 0
      <4>1. Cardinality(sp) \in Nat /\ Cardinality(sp) <= 0
        BY <1>9, <2>1, SampleIs
      <4> QED BY <4>1
    <3> QED BY <1>2, <1>8, <1>10, <2>1, <3>1, FS_EmptySet
  <2>3. fp \cup sp = fp
    BY <2>2
  <2>4. Cardinality(With(1) \ fp) = Cardinality(With(1)) - Cardinality(fp)
    BY <1>3, <1>5, <1>8, Rest
  <2>5. Cardinality(With(1) \ fp) = N * quota - Slots * (L + 1)
    BY <1>2, <1>3, <1>4, <1>5, <1>12, <2>2, <2>4
  <2> QED BY <1>3, <1>8, <1>10, <1>11, <2>2, <2>3, <2>5 DEF L
<1>14. CASE Cardinality(U) < Slots
  <2>1. needed = Slots - Cardinality(U) /\ needed > 0
    BY <1>2, <1>5, <1>6, <1>14
  <2>2. fp = U /\ Cardinality(fp) = Cardinality(U)
    BY <1>2, <1>5, <1>7, <1>8, <2>1
  <2>3. L + 1 = TotalMatches
    <3>1. Slots * TotalMatches < Slots * ((L + 1) + 1)
      <4>1. Slots * ((L + 1) + 1) = Slots * (L + 1) + Slots
        <5>1. L + 1 \in Int
          BY <1>2
        <5> HIDE DEF L
        <5> QED BY <1>2, <5>1, Scaled
      <4> HIDE DEF L
      <4> QED BY <1>2, <1>4, <1>5, <1>12, <1>14, <4>1
    <3>2. TotalMatches \in Int /\ (L + 1) + 1 \in Int
      BY <1>2
    <3>3. TotalMatches < (L + 1) + 1
      <4> HIDE DEF L
      <4> QED BY <1>2, <3>1, <3>2, Scaled
    <3> QED BY <1>2, <3>3 DEF L
  <2>4. Surplus # 0
    <3>1. Surplus = Slots * L + Slots - N * quota
      BY <1>2, <1>12, <2>3
    <3> HIDE DEF L
    <3> QED BY <1>2, <1>4, <1>5, <1>12, <1>14, <3>1
  <2>5. FairCap >= 1 /\ FairCap \in Int
    <3>1. CeilDiv(Surplus, N) \in Int
      <4>1. Surplus \in Int /\ N \in Int /\ N > 0
        BY <1>2, <1>12
      <4>2. ASSUME NEW a \in Int, NEW b \in Int, b > 0 PROVE (a + b - 1) \div b \in Int
        BY <4>2
      <4> QED BY <4>1, <4>2 DEF CeilDiv
    <3>2. FairCap = Max({1, CeilDiv(Surplus, N)})
      BY <2>4 DEF FairCap
    <3> QED BY <3>1, <3>2, MaxOfTwo
  <2>6. AtQuota = With(2)
    <3>1. \A t \in teams : mc[t] = quota => sc[t] < FairCap
      BY <1>1, <2>5
    <3> QED BY <3>1 DEF AtQuota, With
  <2>7. Cardinality(sp) = needed
    <3>1. needed <= Cardinality(AtQuota)
      BY <1>2, <1>5, <2>1, <2>6
    <3> QED BY <1>7, <1>9, <3>1, SampleIs
  <2>8. Cardinality(fp \cup sp) = Cardinality(fp) + Cardinality(sp)
    BY <1>8, <1>10, <1>11, TwoParts
  <2>9. Cardinality(fp \cup sp) = Slots
    BY <1>2, <1>5, <2>1, <2>2, <2>7, <2>8
  <2> QED BY <1>3, <1>8, <1>10, <1>11, <2>2, <2>3, <2>9 DEF L
<1> QED BY <1>2, <1>5, <1>13, <1>14

\* With a greater quota the legacy model has no surplus, so nobody may be a
\* surrogate, and a match takes what teams under their quota there are.
LEMMA ExactKeeps ==
  ASSUME Tables, Surplus = 0, picked = {}, NEW needed,
         needed = Max({0, Slots - Cardinality(UnderQuota)}),
         NEW fp \in Sample(Slots - needed, UnderQuota), NEW sp \in Sample(needed, AtQuota)
  PROVE  /\ sp = {} /\ fp \in SUBSET teams /\ \A t \in fp : mc[t] < quota
         /\ Cardinality(fp) \in Nat /\ Cardinality(fp) <= Slots
<1>1. /\ IsFiniteSet(teams) /\ \A t \in teams : mc[t] \in Nat /\ sc[t] \in Nat
      /\ Slots \in Nat \ {0}
  BY ShapeAssumption DEF Tables
<1>2. UnderQuota \in SUBSET teams /\ \A t \in UnderQuota : mc[t] < quota
  BY DEF UnderQuota, Target
<1>3. IsFiniteSet(UnderQuota) /\ Cardinality(UnderQuota) \in Nat
  BY <1>1, <1>2, FS_Subset, FS_CardinalityType
<1>4. needed \in Nat /\ Slots - needed \in Nat
  <2>1. 0 \in Int /\ Slots - Cardinality(UnderQuota) \in Int
    BY <1>1, <1>3
  <2>2. needed = IF 0 >= Slots - Cardinality(UnderQuota) THEN 0 ELSE Slots - Cardinality(UnderQuota)
    BY <2>1, MaxOfTwo
  <2> QED BY <1>1, <1>3, <2>2
<1>5. AtQuota = {}
  <2>1. FairCap = 0
    BY DEF FairCap
  <2> QED BY <1>1, <2>1 DEF AtQuota
<1>6. sp = {}
  BY <1>4, <1>5, SampleIs, FS_EmptySet
<1>7. fp \subseteq UnderQuota /\ Cardinality(fp) \in Nat /\ Cardinality(fp) <= Slots - needed
  BY <1>3, <1>4, SampleIs
<1> QED BY <1>1, <1>2, <1>4, <1>6, <1>7

LEMMA OpenLegacyKeeps == ASSUME Inv, OpenLegacy PROVE Inv'
<1> DEFINE L == Len(matches)
           needed == Max({0, Slots - Cardinality(UnderQuota)})
<1>1. Tables /\ Counted /\ InOpen /\ ~FirstModel /\ L < TotalMatches /\ picked = {}
  BY DEF Inv, OpenLegacy, Tables
<1>2. PICK fp \in Sample(Slots - needed, UnderQuota), sp \in Sample(needed, AtQuota) :
        Commit(fp \cup sp, {t \in fp \cup sp : mc[t] >= quota})
  BY DEF OpenLegacy
<1> DEFINE six == fp \cup sp
           sur == {t \in six : mc[t] >= quota}
<1>3. UNCHANGED <<teams, quota, phase, picked, row, pending>> /\ phase = "open"
  BY DEF OpenLegacy
<1>4. /\ N' = N /\ TotalMatches' = TotalMatches /\ PerRound' = PerRound /\ Surplus' = Surplus
      /\ (FirstModel' <=> FirstModel)
  BY <1>3 DEF N, TotalMatches, PerRound, Surplus, FirstModel
<1>5. /\ L \in Nat /\ TotalMatches \in Nat /\ Slots \in Nat \ {0} /\ quota \in Nat \ {0}
      /\ N * quota \in Nat /\ Slots * L \in Int /\ Slots * (L + 1) = Slots * L + Slots
      /\ N * quota <= Slots * TotalMatches
      /\ Surplus = Slots * TotalMatches - N * quota
  <2>1. L \in Nat /\ TotalMatches \in Nat /\ Slots \in Nat \ {0} /\ quota \in Nat \ {0}
        /\ N * quota \in Nat /\ N * quota <= Slots * TotalMatches
        /\ Surplus = Slots * TotalMatches - N * quota
    BY <1>1, Sizes DEF Tables
  <2>2. L \in Int
    BY <2>1
  <2> HIDE DEF L
  <2>3. Slots * L \in Int /\ Slots * (L + 1) = Slots * L + Slots
    BY <2>1, <2>2, Scaled
  <2> QED BY <2>1, <2>3
<1>6. quota # 1
  BY <1>1, <1>5 DEF InOpen
<1>7. sur \in SUBSET six
  OBVIOUS
<1>8. ASSUME six \in SUBSET teams
      PROVE  /\ Tables' /\ Counted' /\ Appended(six, sur) /\ Len(matches') = L + 1
             /\ (Full' <=> Full /\ Cardinality(six) = Slots)
             /\ (NoFlags' <=> NoFlags /\ sur = {}) /\ Seated'
  <2>1. Tables' /\ Counted' /\ Appended(six, sur)
    BY <1>1, <1>2, <1>3, <1>7, <1>8, CommitAppends
  <2>2. /\ (Full' <=> Full /\ Cardinality(six) = Slots)
        /\ (NoFlags' <=> NoFlags /\ sur = {}) /\ (Seated => Seated')
    BY <1>1, <1>3, <1>7, <1>8, <2>1, AppendKeeps
  <2> QED BY <1>1, <2>1, <2>2 DEF Appended, InOpen
<1> HIDE DEF needed
<1>9. CASE quota = 2
  <2>1. Full /\ TwoLeft
    BY <1>1, <1>5, <1>9 DEF InOpen, TwoDone
  <2>2. /\ fp \subseteq With(1) /\ sp \subseteq With(2) /\ fp \cap sp = {}
        /\ Cardinality(fp \cup sp) = Slots
        /\ \/ sp = {} /\ Cardinality(With(1) \ fp) = N * quota - Slots * (L + 1)
           \/ fp = With(1) /\ L + 1 = TotalMatches
    BY <1>1, <1>2, <1>9, <2>1, TwoKeeps DEF needed
  <2>3. six \in SUBSET teams
    BY <2>2 DEF With
  <2>4. /\ Tables' /\ Counted' /\ Appended(six, sur) /\ Len(matches') = L + 1
        /\ (NoFlags' <=> NoFlags /\ sur = {}) /\ Seated'
    BY <1>8, <2>3
  <2>5. Full'
    BY <1>8, <2>1, <2>2, <2>3
  <2>6. ASSUME NEW t \in teams
        PROVE  /\ mc'[t] = mc[t] + (IF t \in six THEN 1 ELSE 0) /\ mc[t] \in 1 .. 2
               /\ (t \in fp => mc[t] = 1) /\ (t \in sp => mc[t] = 2)
               /\ (t \in six <=> t \in fp \/ t \in sp)
               /\ (t \in sur <=> t \in sp)
    <3>1. mc'[t] = mc[t] + (IF t \in six THEN 1 ELSE 0)
      BY <2>4 DEF Appended
    <3>2. mc[t] \in 1 .. 2
      BY <2>1 DEF TwoLeft
    <3>3. (t \in fp => mc[t] = 1) /\ (t \in sp => mc[t] = 2)
      BY <2>2 DEF With
    <3> QED BY <1>9, <3>1, <3>2, <3>3
  <2>7. TwoLeft' \/ TwoDone'
    <3>1. CASE sp = {} /\ Cardinality(With(1) \ fp) = N * quota - Slots * (L + 1)
      <4>1. sur = {}
        BY <2>3, <2>6, <3>1
      <4>2. With(1)' = With(1) \ fp
        <5>1. ASSUME NEW t \in teams PROVE mc'[t] = 1 <=> mc[t] = 1 /\ t \notin fp
          BY <2>6, <3>1
        <5> QED BY <1>3, <5>1 DEF With
      <4>3. ASSUME NEW t \in teams PROVE mc'[t] \in 1 .. 2 /\ sc'[t] = 0
        <5>1. sc'[t] = sc[t] + (IF t \in six /\ CountsAsSurrogate(t) THEN 1 ELSE 0)
          BY <2>4 DEF Appended
        <5>2. t \in six => ~CountsAsSurrogate(t)
          BY <1>1, <1>9, <2>6, <3>1, NotYet
        <5>3. sc[t] = 0
          BY <2>1 DEF TwoLeft
        <5>4. sc'[t] = 0
          BY <5>1, <5>2, <5>3
        <5> QED BY <2>6, <3>1, <5>4
      <4>4. NoFlags'
        BY <2>1, <2>4, <4>1 DEF TwoLeft
      <4> QED BY <1>3, <1>4, <2>4, <3>1, <4>2, <4>3, <4>4 DEF TwoLeft
    <3>2. CASE fp = With(1) /\ L + 1 = TotalMatches
      <4>1. ASSUME NEW t \in teams
            PROVE  /\ mc'[t] = quota + Cardinality(Flagged(t)')
                   /\ Flagged(t)' \subseteq {L + 1}
        <5>1. Flagged(t) = {}
          BY <2>1 DEF TwoLeft, NoFlags, Flagged, Played
        <5>2. /\ Flagged(t)' = Flagged(t) \cup (IF t \in sur THEN {L + 1} ELSE {})
              /\ Cardinality(Flagged(t)') = Cardinality(Flagged(t)) + (IF t \in sur THEN 1 ELSE 0)
          BY <2>4 DEF Appended
        <5>3. t \in fp <=> mc[t] = 1
          BY <3>2 DEF With
        <5>4. Cardinality(Flagged(t)') = IF t \in sp THEN 1 ELSE 0
          BY <2>6, <5>1, <5>2, FS_EmptySet
        <5>5. mc'[t] = 2 + Cardinality(Flagged(t)')
          BY <2>6, <5>3, <5>4
        <5> QED BY <1>9, <5>1, <5>2, <5>5
      <4> QED BY <1>3, <1>4, <2>4, <3>2, <4>1 DEF TwoDone
    <3> QED BY <2>2, <3>1, <3>2
  <2>8. InOpen'
    BY <1>1, <1>3, <1>4, <1>5, <1>9, <2>4, <2>5, <2>7 DEF InOpen
  <2> QED BY <1>3, <2>4, <2>8 DEF Inv
<1>10. CASE quota >= 3
  <2>1. ExactSeats /\ Surplus = 0
    <3>1. ExactSeats
      BY <1>1, <1>10 DEF InOpen
    <3>2. ~(Surplus > 0)
      BY <1>1, <1>10 DEF FirstModel
    <3> QED BY <1>5, <3>1, <3>2
  <2>2. /\ sp = {} /\ fp \in SUBSET teams /\ \A t \in fp : mc[t] < quota
        /\ Cardinality(fp) \in Nat /\ Cardinality(fp) <= Slots
    BY <1>1, <1>2, <2>1, ExactKeeps DEF needed
  <2>3. six = fp /\ six \in SUBSET teams
    BY <2>2
  <2>4. sur = {}
    <3>1. ASSUME NEW t \in six PROVE ~(mc[t] >= quota)
      <4>1. mc[t] \in Nat /\ mc[t] < quota
        BY <1>1, <2>2, <2>3 DEF Tables
      <4> QED BY <1>5, <4>1
    <3> QED BY <3>1
  <2>5. /\ Tables' /\ Counted' /\ Appended(six, sur) /\ Len(matches') = L + 1
        /\ (Full' <=> Full /\ Cardinality(six) = Slots)
        /\ (NoFlags' <=> NoFlags /\ sur = {}) /\ Seated'
    BY <1>8, <2>3
  <2>6. NoFlags'
    BY <2>1, <2>4, <2>5 DEF ExactSeats
  <2>7. \A t \in teams : mc'[t] <= quota
    <3> SUFFICES ASSUME NEW t \in teams PROVE mc'[t] <= quota
      OBVIOUS
    <3>1. mc'[t] = mc[t] + (IF t \in six THEN 1 ELSE 0)
      BY <2>5 DEF Appended
    <3>2. mc[t] \in Nat /\ mc[t] <= quota
      BY <1>1, <2>1 DEF Tables, ExactSeats
    <3>3. t \in six => mc[t] < quota
      BY <2>2, <2>3
    <3> QED BY <1>5, <3>1, <3>2, <3>3
  <2>8. Cardinality(Owed) \in Nat /\ Cardinality(Owed') = Cardinality(Owed) - Cardinality(fp)
    <3>1. \A t \in six : mc[t] < quota
      BY <2>2, <2>3
    <3> HIDE DEF six
    <3>2. Cardinality(Owed) \in Nat /\ Cardinality(Owed') = Cardinality(Owed) - Cardinality(six)
      BY <1>1, <1>3, <2>3, <2>5, <3>1, OwedFalls
    <3> QED BY <2>3, <3>2
  <2>9. /\ Full'  => Cardinality(Owed') = N * quota - Slots * (L + 1)
        /\ ~Full' => Cardinality(Owed') > N * quota - Slots * (L + 1)
    <3>1. CASE Full /\ Cardinality(fp) = Slots
      <4>1. Cardinality(Owed) = N * quota - Slots * L
        BY <2>1, <3>1 DEF ExactSeats
      <4>2. Full'
        BY <2>3, <2>5, <3>1
      <4> HIDE DEF six
      <4> QED BY <1>5, <2>8, <3>1, <4>1, <4>2
    <3>2. CASE ~(Full /\ Cardinality(fp) = Slots)
      <4>1. ~Full'
        BY <2>3, <2>5, <3>2
      <4>2. \/ Cardinality(Owed) > N * quota - Slots * L
            \/ Cardinality(Owed) = N * quota - Slots * L /\ Cardinality(fp) < Slots
        BY <1>5, <2>1, <2>2, <3>2 DEF ExactSeats
      <4> HIDE DEF six
      <4>3. Cardinality(Owed') > N * quota - Slots * (L + 1)
        <5> HIDE DEF L
        <5> QED BY <1>5, <2>2, <2>8, <4>2
      <4> QED BY <4>1, <4>3
    <3> QED BY <3>1, <3>2
  <2>10. ExactSeats'
    BY <1>3, <1>4, <2>5, <2>6, <2>7, <2>9 DEF ExactSeats
  <2>11. InOpen'
    BY <1>1, <1>3, <1>4, <1>5, <1>10, <2>5, <2>10 DEF InOpen
  <2> QED BY <1>3, <2>5, <2>11 DEF Inv
<1> QED BY <1>5, <1>6, <1>9, <1>10

\* A sequence of a set of teams shows them all.
LEMMA SequenceShowsAll ==
  ASSUME NEW S, IsFiniteSet(S), NEW f \in SetToSeqs(S)
  PROVE  f \in Seq(S) /\ {f[i] : i \in DOMAIN f} = S
<1> DEFINE n == Cardinality(S)
           D == 1 .. n
<1>1. n \in Nat
  BY FS_CardinalityType
<1>2. f \in [D -> S] /\ \A i \in D, j \in D : i # j => f[i] # f[j]
  BY DEF SetToSeqs
<1>3. IsFiniteSet(D) /\ Cardinality(D) = n
  <2>1. 1 \in Int /\ n \in Int
    BY <1>1
  <2> HIDE DEF n
  <2>2. IsFiniteSet(D) /\ Cardinality(D) = IF 1 > n THEN 0 ELSE n - 1 + 1
    BY <2>1, FS_Interval
  <2> QED BY <1>1, <2>2
<1> HIDE DEF D
<1>4. f \in Injection(D, S)
  BY <1>2 DEF Injection, IsInjective
<1>5. f \in Surjection(D, S)
  BY <1>3, <1>4, FS_Injection
<1>6. \A s \in S : \E i \in D : f[i] = s
  BY <1>5 DEF Surjection
<1>7. DOMAIN f = D
  BY <1>2
<1>8. {f[i] : i \in DOMAIN f} = S
  BY <1>2, <1>6, <1>7
<1>9. f \in Seq(S)
  <2> HIDE DEF n
  <2> QED BY <1>1, <1>2 DEF D
<1> QED BY <1>8, <1>9

LEMMA GamesAre ==
  ASSUME Tables, NEW i \in DOMAIN matches
  PROVE  /\ matches[i].players \in SUBSET teams /\ matches[i].sur \in SUBSET teams
         /\ matches[i].sur \subseteq matches[i].players /\ IsFiniteSet(matches[i].players)
         /\ matches[i] = [players |-> matches[i].players, sur |-> matches[i].sur]
<1>1. matches[i] \in Games
  BY DEF Tables
<1>2. matches[i].players \in SUBSET teams /\ matches[i].sur \in SUBSET teams
  BY <1>1 DEF Games
<1>3. matches[i] = [players |-> matches[i].players, sur |-> matches[i].sur]
  BY <1>1 DEF Games
<1>4. IsFiniteSet(matches[i].players)
  BY <1>2, FS_Subset DEF Tables
<1> QED BY <1>2, <1>3, <1>4 DEF Tables

\* When the matches are all dealt: with a quota of 2 or with as many seats as
\* the teams are owed, every extra appearance is flagged in the last match, and
\* a match short of teams leaves somebody under its quota.
LEMMA EndOpenKeeps == ASSUME Inv, EndOpen PROVE Inv'
<1> DEFINE L == Len(matches)
<1>1. Tables /\ Counted /\ InOpen /\ phase = "open" /\ L = TotalMatches
  BY DEF Inv, EndOpen
<1>2. UNCHANGED <<teams, quota, matches, picked, mc, sc>>
  BY DEF EndOpen
<1>3. phase' \in {"check", "sweep1"} /\ (FirstModel <=> phase' = "check")
  BY DEF EndOpen
<1>4. /\ (FirstModel' <=> FirstModel) /\ (Counted' <=> Counted) /\ (Seated' <=> Seated)
      /\ (ThirdIsFlagged' <=> ThirdIsFlagged) /\ (Full' <=> Full) /\ (ExtrasFlagged' <=> ExtrasFlagged)
      /\ (ShortIsOwed' <=> ShortIsOwed) /\ TotalMatches' = TotalMatches
  BY <1>2 DEF FirstModel, Surplus, TotalMatches, N, Counted, Seated, PerRound, ThirdIsFlagged,
              Full, IsFull, ExtrasFlagged, ShortIsOwed, Played, Flagged, Count
<1>5. Tables'
  BY <1>1, <1>2, <1>3, <1>4 DEF Tables, Games
<1>6. CASE FirstModel
  <2>1. Closing'
    BY <1>1, <1>2, <1>3, <1>4, <1>6 DEF InOpen, Closing
  <2> QED BY <1>1, <1>3, <1>4, <1>5, <1>6, <2>1 DEF Inv
<1>7. CASE ~FirstModel
  <2>1. /\ L \in Nat /\ L >= 1 /\ quota \in Nat \ {0} /\ N * quota \in Nat
        /\ N * quota <= Slots * L /\ Slots * L \in Int
        /\ Surplus = Slots * L - N * quota
        /\ IsFiniteSet(teams) /\ \A t \in teams : mc[t] \in Nat
    <3>1. /\ TotalMatches \in Nat /\ TotalMatches >= 1 /\ quota \in Nat \ {0} /\ N * quota \in Nat
          /\ N * quota <= Slots * TotalMatches /\ Slots \in Nat
          /\ Surplus = Slots * TotalMatches - N * quota
      <4>1. PerRound >= 1 /\ PerRound <= TotalMatches /\ PerRound \in Nat /\ TotalMatches \in Nat
        BY <1>1, Sizes DEF Tables
      <4> QED BY <1>1, <4>1, Sizes DEF Tables
    <3>2. Slots * TotalMatches \in Int
      BY <3>1
    <3> QED BY <1>1, <3>1, <3>2 DEF Tables
  <2>2. quota >= 3 => ExactSeats /\ Surplus = 0
    <3> SUFFICES ASSUME quota >= 3 PROVE ExactSeats /\ Surplus = 0
      OBVIOUS
    <3>1. ~(Surplus > 0)
      BY <1>7 DEF FirstModel
    <3> QED BY <1>1, <1>7, <2>1, <3>1 DEF InOpen
  <2>3. quota >= 3 => (Full <=> Owed = {})
    <3> SUFFICES ASSUME quota >= 3 PROVE Full <=> Owed = {}
      OBVIOUS
    <3>1. IsFiniteSet(Owed) /\ Cardinality(Owed) \in Nat
      <4>1. Owed \in SUBSET (teams \X (1 .. quota))
        BY DEF Owed
      <4>2. IsFiniteSet(1 .. quota)
        BY <2>1, FS_Interval
      <4>3. IsFiniteSet(teams \X (1 .. quota))
        BY <2>1, <4>2, FS_Product
      <4> QED BY <4>1, <4>3, FS_Subset, FS_CardinalityType
    <3>2. N * quota - Slots * L = 0
      BY <2>1, <2>2
    <3>3. (Full => Cardinality(Owed) = 0) /\ (~Full => Cardinality(Owed) > 0)
      BY <2>2, <3>2 DEF ExactSeats
    <3> QED BY <3>1, <3>3, FS_EmptySet
  <2>4. ASSUME NEW t \in teams, Owed = {} PROVE mc[t] >= quota
    <3>1. <<t, quota>> \notin Owed /\ quota \in 1 .. quota
      BY <2>1, <2>4
    <3>2. ~(mc[t] < quota)
      BY <3>1 DEF Owed
    <3> QED BY <2>1, <3>2
  <2>5. (\A t \in teams : mc[t] >= quota) => Owed = {}
    <3> SUFFICES ASSUME \A t \in teams : mc[t] >= quota, NEW t \in teams, NEW k \in 1 .. quota
                 PROVE  ~(mc[t] < k)
      BY DEF Owed
    <3> QED BY <2>1
  <2>6. NoFlags => \A t \in teams : Flagged(t) = {}
    BY DEF NoFlags, Flagged, Played
  <2>7. ExtrasFlagged
    <3>1. CASE quota = 1
      BY <3>1 DEF ExtrasFlagged
    <3>2. CASE quota = 2 /\ TwoDone
      BY <1>1, <3>2 DEF ExtrasFlagged, TwoDone, Counted, Count
    <3>3. CASE quota = 2 /\ TwoLeft
      <4>1. Cardinality(With(1)) = N * quota - Slots * L
        BY <3>3 DEF TwoLeft
      <4>2. IsFiniteSet(With(1)) /\ Cardinality(With(1)) \in Nat
        <5>1. With(1) \in SUBSET teams
          BY DEF With
        <5> QED BY <2>1, <5>1, FS_Subset, FS_CardinalityType
      <4>3. Cardinality(With(1)) = 0
        BY <2>1, <4>1, <4>2
      <4>4. With(1) = {}
        BY <4>2, <4>3, FS_EmptySet
      <4>5. ASSUME NEW t \in teams PROVE mc[t] = 2 /\ Cardinality(Flagged(t)) = 0
        <5>1. mc[t] \in 1 .. 2 /\ mc[t] # 1 /\ NoFlags
          BY <3>3, <4>4 DEF TwoLeft, With
        <5> QED BY <2>6, <5>1, FS_EmptySet
      <4>6. \A t \in teams : mc[t] = quota + Cardinality(Flagged(t))
        BY <3>3, <4>5
      <4> QED BY <1>1, <4>6 DEF ExtrasFlagged, Counted, Count
    <3>4. CASE quota >= 3
      <4> SUFFICES ASSUME Full, NEW t \in teams PROVE Count(t) = quota + Cardinality(Flagged(t))
        BY DEF ExtrasFlagged
      <4>1. mc[t] >= quota /\ mc[t] <= quota /\ Flagged(t) = {}
        BY <2>2, <2>3, <2>4, <2>6, <3>4 DEF ExactSeats
      <4>2. mc[t] = quota /\ Cardinality(Flagged(t)) = 0
        BY <2>1, <4>1, FS_EmptySet
      <4> QED BY <1>1, <2>1, <4>2 DEF Counted, Count
    <3> QED BY <1>1, <1>7, <2>1, <3>1, <3>2, <3>3, <3>4 DEF InOpen
  <2>8. ShortIsOwed
    <3>1. CASE quota \in {1, 2}
      BY <1>1, <1>7, <3>1 DEF InOpen, ShortIsOwed
    <3>2. CASE quota >= 3
      BY <2>3, <2>5, <3>2 DEF ShortIsOwed
    <3> QED BY <2>1, <3>1, <3>2
  <2>9. \A t \in LastMatch.sur : Flagged(t) = {L}
    <3>1. CASE NoFlags
      BY <1>1, <2>1, <3>1 DEF NoFlags, LastMatch, Tables
    <3>2. CASE TwoDone
      <4> SUFFICES ASSUME NEW t \in LastMatch.sur PROVE Flagged(t) = {L}
        OBVIOUS
      <4>1. L \in DOMAIN matches /\ LastMatch = matches[L] /\ LastMatch.sur \subseteq LastMatch.players
        BY <1>1, <2>1 DEF LastMatch, Tables
      <4>2. t \in teams
        BY <1>1, <4>1, GamesAre
      <4>3. L \in Flagged(t)
        BY <4>1 DEF Flagged, Played
      <4> QED BY <3>2, <4>2, <4>3 DEF TwoDone
    <3> QED BY <1>1, <1>7, <2>1, <3>1, <3>2 DEF InOpen, TwoLeft, ExactSeats
  <2>10. InSweep'
    <3>1. LastMatch' = LastMatch
      BY <1>2 DEF LastMatch
    <3>2. LastMatch.players \in SUBSET teams
      <4>1. L \in DOMAIN matches /\ LastMatch = matches[L]
        BY <1>1, <2>1 DEF LastMatch, Tables
      <4> QED BY <1>1, <4>1, GamesAre
    <3>3. IsFiniteSet(LastMatch.players)
      BY <2>1, <3>2, FS_Subset
    <3>4. row' \in SetToSeqs(LastMatch.players) /\ pending' = LastMatch.sur
      BY <1>7 DEF EndOpen
    <3>5. row' \in Seq(LastMatch.players) /\ {row'[i] : i \in DOMAIN row'} = LastMatch.players
      BY <3>3, <3>4, SequenceShowsAll
    <3>6. row' \in Seq(teams)
      BY <3>2, <3>5
    <3>7. \A t \in LastMatch.sur : Flagged(t)' = {Len(matches')}
      <4>1. \A t : Flagged(t)' = Flagged(t)
        BY <1>2 DEF Flagged, Played
      <4> QED BY <1>2, <2>9, <4>1
    <3> QED BY <1>2, <1>4, <1>7, <3>1, <3>4, <3>5, <3>6, <3>7 DEF InSweep
  <2>11. phase' = "sweep1" /\ Seated
    BY <1>1, <1>3, <1>7 DEF InOpen
  <2>12. Closing'
    BY <1>1, <1>2, <1>4, <1>7, <2>7, <2>8, <2>10, <2>11 DEF Closing
  <2> QED BY <1>4, <1>5, <1>7, <2>11, <2>12 DEF Inv
<1> QED BY <1>6, <1>7

-----------------------------------------------------------------------------
\* The sweeps.

LEMMA LeastNumber ==
  ASSUME NEW T \in SUBSET Nat, T # {}
  PROVE  \E n \in T : \A m \in T : ~(m < n)
<1>1. \E n \in T : \A m \in T : ~(<<m, n>> \in OpToRel(<, Nat))
  BY NatLessThanWellFounded, WFMin
<1> QED BY <1>1 DEF OpToRel

LEMMA MinIs ==
  ASSUME NEW T \in SUBSET Nat, T # {}
  PROVE  Min(T) \in T /\ \A m \in T : Min(T) <= m
<1>1. PICK n \in T : \A m \in T : ~(m < n)
  BY LeastNumber
<1>2. \A m \in T : n <= m
  BY <1>1
<1> QED BY <1>2 DEF Min

LEMMA MaxIs ==
  ASSUME NEW b \in Nat, NEW T \in SUBSET (1 .. b), T # {}
  PROVE  Max(T) \in T /\ \A m \in T : Max(T) >= m
<1> DEFINE R == {b - m : m \in T}
<1>1. R \in SUBSET Nat /\ R # {}
  <2>1. \A m \in T : b - m \in Nat
    OBVIOUS
  <2> QED BY <2>1
<1>2. PICK r \in R : \A q \in R : ~(q < r)
  <2> HIDE DEF R
  <2> QED BY <1>1, LeastNumber
<1>3. PICK n \in T : r = b - n
  BY <1>2
<1>4. \A m \in T : n >= m
  <2> SUFFICES ASSUME NEW m \in T PROVE n >= m
    OBVIOUS
  <2>1. b - m \in R
    OBVIOUS
  <2>2. ~(b - m < b - n)
    BY <1>2, <1>3, <2>1
  <2>3. m \in Int /\ n \in Int
    OBVIOUS
  <2> HIDE DEF R
  <2> QED BY <2>2, <2>3
<1> QED BY <1>4 DEF Max

\* A set that gives up one member for another keeps its size.
LEMMA Traded ==
  ASSUME NEW S, IsFiniteSet(S), NEW s \in S, NEW x, x \notin S
  PROVE  Cardinality((S \ {s}) \cup {x}) = Cardinality(S)
<1>1. IsFiniteSet(S \ {s}) /\ Cardinality(S \ {s}) = Cardinality(S) - 1
  BY FS_RemoveElement
<1>2. x \notin S \ {s}
  OBVIOUS
<1> DEFINE R == S \ {s}
<1>3. IsFiniteSet(R) /\ x \notin R /\ Cardinality(R) = Cardinality(S) - 1
  BY <1>1, <1>2
<1> HIDE DEF R
<1>4. Cardinality(R \cup {x}) = Cardinality(R) + 1
  BY <1>3, FS_AddElement
<1>5. Cardinality(S) \in Nat
  BY FS_CardinalityType
<1> QED BY <1>3, <1>4, <1>5 DEF R

\* The team to move sits in the last match as a surrogate, the substitute sits
\* there unflagged, and the seat they exchange is none of the first matches.
Moves(s, x, i) ==
  /\ s \in LastMatch.sur /\ x \in LastMatch.players /\ x \notin LastMatch.sur
  /\ s \in teams /\ x \in teams /\ s # x
  /\ i \in Played(s) /\ i < Len(matches) /\ i > FirstAppearance(s)
  /\ i \in DOMAIN matches /\ s \in matches[i].players /\ x \notin matches[i].players
Swapped(s, x, i) ==
  /\ matches' = [matches EXCEPT ![i] = [players |-> (matches[i].players \ {s}) \cup {x},
                                        sur |-> (matches[i].sur \ {s}) \cup {x}],
                                ![Len(matches)].sur = @ \ {s}]
  /\ row' = Exchange(s, x)

LEMMA SweepMoves ==
  ASSUME Inv, SweepLastMatch
  PROVE  \E s \in pending :
           /\ pending' = pending \ {s} /\ s \in LastMatch.sur
           /\ \/ UNCHANGED <<matches, row>>
              \/ \E x, i : Moves(s, x, i) /\ Swapped(s, x, i)
<1> DEFINE s == NextSurrogate
           moves == {m \in Substitute(s) \X DOMAIN matches :
                       /\ EarlierSeats(s, m[1]) # {}
                       /\ m[2] = Min(EarlierSeats(s, m[1]))}
<1>1. Tables /\ Closing /\ InSweep /\ pending # {} /\ pending' = pending \ {s}
  BY DEF Inv, SweepLastMatch, Closing
<1>2. row \in Seq(teams) /\ {row[k] : k \in DOMAIN row} = LastMatch.players
  BY <1>1 DEF InSweep
<1>3. DOMAIN row \subseteq Nat
  BY <1>2
<1>4. /\ Len(matches) \in Nat /\ Len(matches) >= 1
      /\ Len(matches) \in DOMAIN matches /\ DOMAIN matches = 1 .. Len(matches)
      /\ LastMatch = matches[Len(matches)]
  <2>1. Len(matches) = TotalMatches /\ Len(matches) \in Nat
    BY <1>1 DEF Closing, Tables
  <2>2. TotalMatches >= 1
    <3>1. PerRound >= 1 /\ PerRound <= TotalMatches /\ PerRound \in Nat /\ TotalMatches \in Nat
      BY <1>1, Sizes DEF Tables
    <3> QED BY <3>1
  <2> QED BY <1>1, <2>1, <2>2 DEF Tables, LastMatch
<1>5. LastMatch.sur \subseteq LastMatch.players /\ LastMatch.players \in SUBSET teams
  BY <1>1, <1>4, GamesAre
<1>6. s \in pending
  <2> DEFINE at == {k \in DOMAIN row : row[k] \in pending}
  <2>1. at # {}
    BY <1>1, <1>2, <1>5 DEF InSweep
  <2>2. at \in SUBSET Nat
    BY <1>3
  <2>3. Min(at) \in at
    <3> HIDE DEF at
    <3> QED BY <2>1, <2>2, MinIs
  <2> QED BY <2>3 DEF NextSurrogate
<1>7. s \in LastMatch.sur /\ s \in teams
  BY <1>1, <1>5, <1>6 DEF InSweep
<1>8. CASE moves = {}
  <2>1. UNCHANGED <<matches, row>>
    BY <1>8 DEF SweepLastMatch
  <2> QED BY <1>1, <1>6, <1>7, <2>1
<1>9. CASE moves # {}
  <2>1. PICK m \in moves : Swapped(s, m[1], m[2])
    BY <1>9 DEF SweepLastMatch, Swapped
  <2>2. m[1] \in Substitute(s) /\ EarlierSeats(s, m[1]) # {} /\ m[2] = Min(EarlierSeats(s, m[1]))
        /\ m[2] \in DOMAIN matches
    OBVIOUS
  <2>3. m[1] \in LastMatch.players /\ m[1] \notin LastMatch.sur /\ m[1] # s
    <3> DEFINE free == {k \in DOMAIN row : row[k] \notin LastMatch.sur /\ row[k] # s}
    <3>1. free # {} /\ m[1] = row[Min(free)]
      BY <2>2 DEF Substitute
    <3>2. free \in SUBSET Nat
      BY <1>3
    <3>3. Min(free) \in free
      <4> HIDE DEF free
      <4> QED BY <3>1, <3>2, MinIs
    <3> QED BY <1>2, <3>1, <3>3
  <2>4. m[2] \in EarlierSeats(s, m[1])
    <3>1. EarlierSeats(s, m[1]) \in SUBSET Nat
      BY <1>4 DEF EarlierSeats, Played
    <3> QED BY <2>2, <3>1, MinIs
  <2>5. Moves(s, m[1], m[2])
    BY <1>5, <1>7, <2>2, <2>3, <2>4 DEF Moves, EarlierSeats, Played
  <2> QED BY <1>1, <1>6, <1>7, <2>1, <2>5
<1> QED BY <1>8, <1>9

\* Who sits where and is flagged where after the exchange.
LEMMA SwapShows ==
  ASSUME Tables, NEW s, NEW x, NEW i, Moves(s, x, i), Swapped(s, x, i), UNCHANGED teams,
         Flagged(s) = {Len(matches)}
  PROVE  /\ matches' \in Seq(Games) /\ Len(matches') = Len(matches) /\ Len(matches) \in DOMAIN matches
         /\ \A k \in DOMAIN matches' : matches'[k].sur \subseteq matches'[k].players
         /\ Full' <=> Full
         /\ LastMatch'.players = LastMatch.players /\ LastMatch'.sur = LastMatch.sur \ {s}
         /\ Played(s)' = Played(s) \ {i} /\ Flagged(s)' = {}
         /\ Played(x)' = Played(x) \cup {i} /\ Flagged(x)' = Flagged(x) \cup {i} /\ i \notin Played(x)
         /\ \A t \in teams \ {s, x} : Played(t)' = Played(t) /\ Flagged(t)' = Flagged(t)
<1> DEFINE L == Len(matches)
           there == (matches[i].players \ {s}) \cup {x}
           flagged == (matches[i].sur \ {s}) \cup {x}
<1>1. /\ L \in Nat /\ DOMAIN matches = 1 .. L /\ i \in 1 .. L /\ i < L /\ L \in 1 .. L /\ i # L
      /\ LastMatch = matches[L]
  BY DEF Tables, Moves, LastMatch
<1>2. /\ matches[i].players \in SUBSET teams /\ matches[i].sur \subseteq matches[i].players
      /\ matches[L].players \in SUBSET teams /\ matches[L].sur \subseteq matches[L].players
      /\ IsFiniteSet(matches[i].players)
      /\ matches[L] = [players |-> matches[L].players, sur |-> matches[L].sur]
  BY <1>1, GamesAre
<1>3. /\ s \in teams /\ x \in teams /\ s # x /\ s \in matches[i].players /\ x \notin matches[i].players
      /\ s \in matches[L].sur /\ x \in matches[L].players /\ x \notin matches[L].sur
  BY <1>1 DEF Moves
<1>4. /\ there \in SUBSET teams /\ flagged \in SUBSET there
      /\ Cardinality(there) = Cardinality(matches[i].players)
  <2>1. Cardinality(there) = Cardinality(matches[i].players)
    BY <1>2, <1>3, Traded
  <2> QED BY <1>2, <1>3, <2>1
<1> HIDE DEF there, flagged
<1>5. /\ Len(matches') = L /\ DOMAIN matches' = 1 .. L
      /\ matches'[i] = [players |-> there, sur |-> flagged]
      /\ matches'[L] = [players |-> matches[L].players, sur |-> matches[L].sur \ {s}]
      /\ \A k \in 1 .. L : k # i /\ k # L => matches'[k] = matches[k]
  <2>1. matches' = [matches EXCEPT ![i] = [players |-> there, sur |-> flagged],
                                   ![Len(matches)].sur = @ \ {s}]
    BY DEF Swapped, there, flagged
  <2>2. DOMAIN matches' = 1 .. L /\ matches' \in [1 .. L -> {matches'[k] : k \in 1 .. L}]
    BY <1>1, <2>1
  <2>3. Len(matches') = L
    <3>1. matches' \in Seq({matches'[k] : k \in 1 .. L})
      BY <1>1, <2>2
    <3> QED BY <1>1, <2>2, <3>1
  <2>4. matches'[L] = [matches[L] EXCEPT !.sur = @ \ {s}]
    BY <1>1, <2>1
  <2>5. matches'[L] = [players |-> matches[L].players, sur |-> matches[L].sur \ {s}]
    BY <1>2, <2>4
  <2>6. matches'[i] = [players |-> there, sur |-> flagged]
    BY <1>1, <2>1
  <2>7. \A k \in 1 .. L : k # i /\ k # L => matches'[k] = matches[k]
    BY <1>1, <2>1
  <2> QED BY <2>2, <2>3, <2>5, <2>6, <2>7
<1> HIDE DEF L
<1>6. ASSUME NEW k \in 1 .. L
      PROVE  /\ matches'[k].players = IF k = i THEN there ELSE matches[k].players
             /\ matches'[k].sur = IF k = i THEN flagged
                                  ELSE IF k = L THEN matches[L].sur \ {s} ELSE matches[k].sur
  <2>1. CASE k = i
    BY <1>5, <2>1
  <2>2. CASE k = L
    BY <1>1, <1>5, <2>2
  <2>3. CASE k # i /\ k # L
    BY <1>5, <2>3
  <2> QED BY <2>1, <2>2, <2>3
<1>7. ASSUME NEW k \in 1 .. L
      PROVE  matches'[k] \in Games /\ matches'[k].sur \subseteq matches'[k].players
  <2>1. CASE k = i
    BY <1>4, <1>5, <2>1 DEF Games
  <2>2. CASE k = L
    BY <1>2, <1>5, <2>2 DEF Games
  <2>3. CASE k # i /\ k # L
    <3>1. matches'[k] = matches[k] /\ k \in DOMAIN matches
      BY <1>1, <1>5, <2>3
    <3>2. /\ matches[k].players \in SUBSET teams /\ matches[k].sur \subseteq matches[k].players
          /\ matches[k].sur \in SUBSET teams
          /\ matches[k] = [players |-> matches[k].players, sur |-> matches[k].sur]
      BY <3>1, GamesAre
    <3>3. matches[k] \in Games
      BY <3>2 DEF Games
    <3> QED BY <3>1, <3>2, <3>3
  <2> QED BY <2>1, <2>2, <2>3
<1>8. matches' \in Seq(Games)
  <2>1. matches' = [k \in 1 .. L |-> matches'[k]]
    <3>1. matches' \in [1 .. L -> {matches'[k] : k \in 1 .. L}]
      BY <1>1, <1>5 DEF Swapped
    <3> QED BY <3>1
  <2>2. [k \in 1 .. L |-> matches'[k]] \in Seq(Games)
    BY <1>1, <1>7
  <2> QED BY <2>1, <2>2
<1>9. Full' <=> Full
  <2>1. \A k \in 1 .. L : Cardinality(matches'[k].players) = Cardinality(matches[k].players)
    BY <1>4, <1>6
  <2> QED BY <1>1, <1>5, <2>1 DEF Full, IsFull
<1>10. LastMatch'.players = LastMatch.players /\ LastMatch'.sur = LastMatch.sur \ {s}
  <2>1. LastMatch' = matches'[L]
    BY <1>5 DEF LastMatch
  <2> QED BY <1>1, <1>5, <2>1
<1>11. ASSUME NEW t, NEW k
       PROVE  /\ k \in Played(t)' <=> k \in 1 .. L /\ t \in (IF k = i THEN there ELSE matches[k].players)
              /\ k \in Played(t) <=> k \in 1 .. L /\ t \in matches[k].players
  BY <1>1, <1>5, <1>6 DEF Played
<1>12. ASSUME NEW t, NEW k
       PROVE  /\ k \in Flagged(t)' <=> /\ k \in Played(t)'
                                       /\ t \in (IF k = i THEN flagged
                                                 ELSE IF k = L THEN matches[L].sur \ {s} ELSE matches[k].sur)
              /\ k \in Flagged(t) <=> k \in Played(t) /\ t \in matches[k].sur
  BY <1>6, <1>11 DEF Flagged
<1>13. Played(s)' = Played(s) \ {i}
  BY <1>1, <1>3, <1>11 DEF there
<1>14. Played(x)' = Played(x) \cup {i} /\ i \notin Played(x)
  BY <1>1, <1>3, <1>11 DEF there
<1>15. ASSUME NEW t \in teams \ {s, x} PROVE Played(t)' = Played(t) /\ Flagged(t)' = Flagged(t)
  <2>1. Played(t)' = Played(t)
    <3>1. \A k : k \in Played(t)' <=> k \in Played(t)
      BY <1>11 DEF there
    <3> QED BY <3>1, Zenon
  <2>2. \A k : k \in Flagged(t)' <=> k \in Flagged(t)
    BY <1>1, <1>12, <2>1 DEF flagged
  <2>3. Flagged(t)' = Flagged(t)
    BY <2>2, Zenon DEF Flagged
  <2> QED BY <2>1, <2>3
<1>16. Flagged(s)' = {}
  <2>1. \A k : k \notin Flagged(s)'
    <3> SUFFICES ASSUME NEW k, k \in Flagged(s)' PROVE FALSE
      OBVIOUS
    <3>1. k # L
      BY <1>1, <1>12
    <3>2. k # i
      BY <1>11, <1>12, <1>3 DEF there
    <3>3. k \in Played(s) /\ s \in matches[k].sur
      BY <1>12, <1>13, <3>1, <3>2
    <3>4. k \in Flagged(s)
      BY <1>12, <3>3
    <3> QED BY <3>1, <3>4 DEF L
  <2> QED BY <2>1
<1>17. Flagged(x)' = Flagged(x) \cup {i}
  <2>1. \A k : k \in Flagged(x)' <=> k \in Flagged(x) \cup {i}
    <3> TAKE k
    <3>1. CASE k = i
      BY <1>12, <1>14, <3>1 DEF flagged
    <3>2. CASE k = L /\ k # i
      BY <1>3, <1>12, <3>2
    <3>3. CASE k # L /\ k # i
      BY <1>12, <1>14, <3>3
    <3> QED BY <3>1, <3>2, <3>3
  <2> QED BY <2>1 DEF Flagged
<1>18. \A k \in DOMAIN matches' : matches'[k].sur \subseteq matches'[k].players
  BY <1>5, <1>7
<1>19. Len(matches') = Len(matches) /\ Len(matches) \in DOMAIN matches
  BY <1>1, <1>5 DEF L
<1> QED BY <1>8, <1>9, <1>10, <1>13, <1>14, <1>15, <1>16, <1>17, <1>18, <1>19

\* What Closing says of the counters, once the sweeps have begun.
LEMMA ClosingIs ==
  ASSUME Inv, phase \in {"sweep1", "check", "malformed", "built"}
  PROVE  Tables /\ Closing /\ (phase = "sweep1" => InSweep)
BY DEF Inv, Closing

\* The exchange of seats takes an appearance and its flag from one team to
\* another, keeps the sizes of the matches, and spares everybody's first match.
LEMMA SweepLastMatchKeeps == ASSUME Inv, SweepLastMatch PROVE Inv'
<1> DEFINE L == Len(matches)
<1>1. Tables /\ Closing /\ InSweep /\ phase = "sweep1" /\ ~FirstModel
  BY DEF Inv, SweepLastMatch, Closing, InSweep
<1>2. UNCHANGED <<teams, quota, phase, picked, mc, sc>>
  BY DEF SweepLastMatch
<1>3. PICK s \in pending :
        /\ pending' = pending \ {s} /\ s \in LastMatch.sur
        /\ \/ UNCHANGED <<matches, row>>
           \/ \E x, i : Moves(s, x, i) /\ Swapped(s, x, i)
  BY SweepMoves
<1>4. /\ (FirstModel' <=> FirstModel) /\ TotalMatches' = TotalMatches /\ PerRound' = PerRound
      /\ Games' = Games
  BY <1>2 DEF FirstModel, Surplus, TotalMatches, N, PerRound, Games
<1>5. CASE UNCHANGED <<matches, row>>
  <2>1. Tables'
    BY <1>1, <1>2, <1>4, <1>5 DEF Tables
  <2>2. LastMatch' = LastMatch /\ (Full' <=> Full) /\ (Seated' <=> Seated)
    BY <1>2, <1>4, <1>5 DEF LastMatch, Full, IsFull, Seated, Played
  <2>3. (ExtrasFlagged' <=> ExtrasFlagged) /\ (ShortIsOwed' <=> ShortIsOwed)
    BY <1>2, <1>5, <2>2 DEF ExtrasFlagged, ShortIsOwed, Count, Played, Flagged
  <2>4. InSweep'
    <3>1. \A t : Flagged(t)' = Flagged(t)
      BY <1>5 DEF Flagged, Played
    <3>2. \A t \in LastMatch'.sur : Flagged(t)' = {Len(matches')}
      BY <1>1, <1>5, <2>2, <3>1 DEF InSweep
    <3>3. row' \in Seq(teams') /\ {row'[k] : k \in DOMAIN row'} = LastMatch'.players
      BY <1>1, <1>2, <1>5, <2>2 DEF InSweep
    <3>4. pending' \subseteq LastMatch'.sur
      BY <1>1, <1>3, <2>2 DEF InSweep
    <3> QED BY <1>1, <1>4, <3>2, <3>3, <3>4 DEF InSweep
  <2>5. Closing'
    BY <1>1, <1>2, <1>4, <1>5, <2>2, <2>3, <2>4 DEF Closing
  <2> QED BY <1>1, <1>2, <1>4, <2>1, <2>5 DEF Inv
<1>6. ASSUME NEW x, NEW i, Moves(s, x, i), Swapped(s, x, i) PROVE Inv'
  <2>1. Flagged(s) = {L} /\ row \in Seq(teams) /\ {row[k] : k \in DOMAIN row} = LastMatch.players
    BY <1>1, <1>3 DEF InSweep
  <2>2. /\ matches' \in Seq(Games) /\ Len(matches') = L /\ L \in DOMAIN matches
        /\ \A k \in DOMAIN matches' : matches'[k].sur \subseteq matches'[k].players
        /\ Full' <=> Full
        /\ LastMatch'.players = LastMatch.players /\ LastMatch'.sur = LastMatch.sur \ {s}
        /\ Played(s)' = Played(s) \ {i} /\ Flagged(s)' = {}
        /\ Played(x)' = Played(x) \cup {i} /\ Flagged(x)' = Flagged(x) \cup {i} /\ i \notin Played(x)
        /\ \A t \in teams \ {s, x} : Played(t)' = Played(t) /\ Flagged(t)' = Flagged(t)
    BY <1>1, <1>2, <1>6, <2>1, SwapShows
  <2>3. /\ s \in teams /\ x \in teams /\ s # x /\ s \in LastMatch.players /\ x \in LastMatch.players
        /\ x \notin LastMatch.sur /\ i \in Played(s) /\ i > FirstAppearance(s) /\ i \in Nat
    BY <1>1, <1>3, <1>6, GamesAre, <2>2 DEF Moves, LastMatch, Tables
  <2>4. Tables'
    BY <1>1, <1>2, <1>4, <2>2 DEF Tables
  <2>5. Seated'
    <3>1. PerRound \in Nat
      BY <1>1, Sizes DEF Tables
    <3>2. \A t \in teams : \E k \in Played(t) : k <= PerRound
      BY <1>1 DEF Closing, Seated
    <3>3. \E k \in Played(s) \ {i} : k <= PerRound
      <4>1. PICK k \in Played(s) : k <= PerRound
        BY <2>3, <3>2
      <4>2. Played(s) \in SUBSET Nat /\ Played(s) # {}
        BY <1>1, <4>1, Appearances
      <4>3. Min(Played(s)) \in Played(s) /\ Min(Played(s)) <= k
        BY <4>1, <4>2, MinIs
      <4>4. Min(Played(s)) \in Nat /\ k \in Nat /\ Min(Played(s)) # i
        BY <2>3, <4>1, <4>2, <4>3 DEF FirstAppearance
      <4>5. Min(Played(s)) <= PerRound
        BY <3>1, <4>1, <4>3, <4>4
      <4> QED BY <4>3, <4>4, <4>5
    <3> SUFFICES ASSUME NEW t \in teams PROVE \E k \in Played(t)' : k <= PerRound
      BY <1>2, <1>4 DEF Seated
    <3>4. CASE t = s
      BY <2>2, <3>3, <3>4
    <3>5. CASE t # s
      <4>1. Played(t) \subseteq Played(t)'
        BY <2>2, <3>5
      <4> QED BY <3>2, <4>1
    <3> QED BY <3>4, <3>5
  <2>6. ExtrasFlagged'
    <3> SUFFICES ASSUME quota >= 2, Full, NEW t \in teams
                 PROVE  Count(t)' = quota + Cardinality(Flagged(t)')
      BY <1>2, <2>2 DEF ExtrasFlagged
    <3>1. Cardinality(Played(t)) = quota + Cardinality(Flagged(t)) /\ quota \in Nat
      BY <1>1 DEF Closing, ExtrasFlagged, Count, Tables
    <3>2. /\ IsFiniteSet(Played(t)) /\ IsFiniteSet(Flagged(t)) /\ Flagged(t) \subseteq Played(t)
          /\ Cardinality(Played(t)) \in Nat /\ Cardinality(Flagged(t)) \in Nat
      BY <1>1, Appearances DEF Count
    <3>3. CASE t = s
      <4>1. Cardinality(Played(t)') = Cardinality(Played(t)) - 1
        <5> DEFINE A == Played(s)
        <5>1. IsFiniteSet(A) /\ i \in A /\ Played(t) = A /\ Played(t)' = A \ {i}
          BY <2>2, <2>3, <3>2, <3>3
        <5> HIDE DEF A
        <5>2. Cardinality(A \ {i}) = IF i \in A THEN Cardinality(A) - 1 ELSE Cardinality(A)
          BY <5>1, FS_RemoveElement
        <5> QED BY <5>1, <5>2
      <4>2. Cardinality(Flagged(t)) = 1 /\ Cardinality(Flagged(t)') = 0
        BY <2>1, <2>2, <3>3, FS_Singleton, FS_EmptySet
      <4> QED BY <3>1, <3>2, <4>1, <4>2 DEF Count
    <3>4. CASE t = x
      <4>1. Cardinality(Played(t)') = Cardinality(Played(t)) + 1
        <5>1. IsFiniteSet(Played(x)) /\ i \notin Played(x)
          BY <2>2, <3>2, <3>4
        <5>2. Cardinality(Played(x) \cup {i}) = Cardinality(Played(x)) + 1
          BY <5>1, FS_AddElement
        <5> QED BY <2>2, <3>4, <5>2
      <4>2. i \notin Flagged(t)
        BY <2>2, <3>2, <3>4
      <4>3. Cardinality(Flagged(t)') = Cardinality(Flagged(t)) + 1
        BY <2>2, <3>2, <3>4, <4>2, FS_AddElement
      <4> QED BY <3>1, <3>2, <4>1, <4>3 DEF Count
    <3>5. CASE t # s /\ t # x
      BY <2>2, <3>1, <3>5 DEF Count
    <3> QED BY <3>3, <3>4, <3>5
  <2>7. ShortIsOwed'
    BY <1>1, <1>2, <2>2 DEF Closing, ShortIsOwed
  <2>8. InSweep'
    <3>1. row' = Exchange(s, x) /\ pending' = pending \ {s}
      BY <1>3, <1>6 DEF Swapped
    <3>2. DOMAIN row = 1 .. Len(row) /\ Len(row) \in Nat /\ \A k \in 1 .. Len(row) : row[k] \in teams
      BY <2>1
    <3>3. row' = [k \in 1 .. Len(row) |-> IF row[k] = s THEN x ELSE IF row[k] = x THEN s ELSE row[k]]
      BY <3>1, <3>2 DEF Exchange
    <3>4. row' \in Seq(teams) /\ DOMAIN row' = 1 .. Len(row)
      <4>1. \A k \in 1 .. Len(row) : row'[k] \in teams
        BY <2>3, <3>2, <3>3
      <4> QED BY <3>2, <3>3, <4>1
    <3>5. {row'[k] : k \in DOMAIN row'} = LastMatch.players
      <4>1. ASSUME NEW k \in DOMAIN row' PROVE row'[k] \in LastMatch.players
        BY <2>1, <2>3, <3>2, <3>3, <3>4
      <4>2. ASSUME NEW t \in LastMatch.players PROVE \E k \in DOMAIN row' : row'[k] = t
        <5>1. PICK a \in 1 .. Len(row) : row[a] = s
          BY <2>1, <2>3, <3>2
        <5>2. PICK b \in 1 .. Len(row) : row[b] = x
          BY <2>1, <2>3, <3>2
        <5>3. PICK c \in 1 .. Len(row) : row[c] = t
          BY <2>1, <3>2
        <5>4. row'[a] = x /\ row'[b] = s /\ (t # s /\ t # x => row'[c] = t)
          BY <2>3, <3>3, <5>1, <5>2, <5>3
        <5> QED BY <3>4, <5>4
      <4> QED BY <4>1, <4>2
    <3>6. pending' \subseteq LastMatch'.sur
      BY <1>1, <2>2, <3>1 DEF InSweep
    <3>7. \A t \in LastMatch'.sur : Flagged(t)' = {Len(matches')}
      <4> SUFFICES ASSUME NEW t \in LastMatch'.sur PROVE Flagged(t)' = {L}
        BY <2>2
      <4>1. t \in LastMatch.sur /\ t # s /\ t # x
        BY <2>2, <2>3
      <4>2. t \in teams
        BY <1>1, <2>2, <4>1, GamesAre DEF LastMatch
      <4>3. Flagged(t)' = Flagged(t)
        BY <2>2, <4>1, <4>2
      <4> QED BY <1>1, <4>1, <4>3 DEF InSweep
    <3> QED BY <1>1, <1>2, <1>4, <2>2, <3>4, <3>5, <3>6, <3>7 DEF InSweep
  <2>9. Len(matches') = TotalMatches
    BY <1>1, <2>2 DEF Closing
  <2>10. Closing'
    BY <1>1, <1>2, <1>4, <2>5, <2>6, <2>7, <2>8, <2>9 DEF Closing
  <2> QED BY <1>1, <1>2, <1>4, <2>4, <2>10 DEF Inv
<1> QED BY <1>3, <1>5, <1>6

\* Rule 3 moves a flag within the matches of a team.
LEMMA NewFlagIs ==
  ASSUME Tables, NEW t
  PROVE  NewFlag(t) \subseteq Played(t) /\ Cardinality(NewFlag(t)) = Cardinality(Flagged(t))
<1> DEFINE L == Len(matches)
           between == {i \in Played(t) \ Flagged(t) : i # FirstAppearance(t)}
<1>1. /\ L \in Nat /\ Played(t) \in SUBSET (1 .. L) /\ Flagged(t) \subseteq Played(t)
      /\ IsFiniteSet(Flagged(t))
  BY Appearances
<1>2. CASE Played(t) # {} /\ Max(Played(t)) \in Flagged(t) /\ between # {}
  <2>1. NewFlag(t) = (Flagged(t) \ {Max(Played(t))}) \cup {Max(between)}
    BY <1>2 DEF NewFlag
  <2>2. between \in SUBSET (1 .. L) /\ between \subseteq Played(t) \ Flagged(t)
    BY <1>1
  <2> HIDE DEF between, L
  <2>3. Max(between) \in between
    BY <1>1, <1>2, <2>2, MaxIs
  <2>4. Max(between) \notin Flagged(t) /\ Max(between) \in Played(t)
    BY <2>2, <2>3
  <2>5. Cardinality((Flagged(t) \ {Max(Played(t))}) \cup {Max(between)}) = Cardinality(Flagged(t))
    BY <1>1, <1>2, <2>4, Traded
  <2> QED BY <1>1, <2>1, <2>4, <2>5
<1>3. CASE ~(Played(t) # {} /\ Max(Played(t)) \in Flagged(t) /\ between # {})
  <2>1. NewFlag(t) = Flagged(t)
    BY <1>3 DEF NewFlag
  <2> QED BY <1>1, <2>1
<1> QED BY <1>2, <1>3

\* The teams of a match that rule 3 leaves flagged there.
Reflagged(i) == {t \in matches[i].players : i \in NewFlag(t)}

LEMMA SweepLastAppearanceKeeps == ASSUME Inv, SweepLastAppearance PROVE Inv'
<1> DEFINE L == Len(matches)
<1>1. Tables /\ Closing /\ phase = "sweep1" /\ ~FirstModel
  BY DEF Inv, SweepLastAppearance, Closing, InSweep
<1>2. UNCHANGED <<teams, quota, picked, mc, sc>> /\ phase' = "check"
  BY DEF SweepLastAppearance
<1>3. /\ (FirstModel' <=> FirstModel) /\ TotalMatches' = TotalMatches /\ PerRound' = PerRound
      /\ Games' = Games
  BY <1>2 DEF FirstModel, Surplus, TotalMatches, N, PerRound, Games
<1>4. L \in Nat /\ DOMAIN matches = 1 .. L
  BY <1>1 DEF Tables
<1>5. matches' = [i \in 1 .. L |-> [matches[i] EXCEPT !.sur = Reflagged(i)]]
  BY <1>4 DEF SweepLastAppearance, Reflagged
<1> HIDE DEF L
<1>6. ASSUME NEW i \in 1 .. L
      PROVE  /\ matches'[i] = [players |-> matches[i].players, sur |-> Reflagged(i)]
             /\ matches[i].players \in SUBSET teams
  <2>1. /\ matches[i] = [players |-> matches[i].players, sur |-> matches[i].sur]
        /\ matches[i].players \in SUBSET teams
    BY <1>1, <1>4, GamesAre
  <2>2. matches'[i] = [matches[i] EXCEPT !.sur = Reflagged(i)]
    BY <1>5
  <2> QED BY <2>1, <2>2
<1>7. ASSUME NEW i \in 1 .. L
      PROVE  /\ matches'[i].players = matches[i].players
             /\ \A t : t \in matches'[i].sur <=> t \in matches[i].players /\ i \in NewFlag(t)
             /\ matches'[i].sur \subseteq matches'[i].players
             /\ matches'[i] \in Games
  <2> DEFINE p == matches[i].players
             f == Reflagged(i)
             game == matches'[i]
  <2>0. game = [players |-> p, sur |-> f] /\ p \in SUBSET teams
    BY <1>6
  <2>1. matches'[i].players = matches[i].players /\ matches'[i].sur = Reflagged(i)
    <3> HIDE DEF p, f, game
    <3>1. game.players = p /\ game.sur = f
      BY <2>0
    <3> QED BY <3>1 DEF p, f, game
  <2>2. \A t : t \in Reflagged(i) <=> t \in matches[i].players /\ i \in NewFlag(t)
    BY DEF Reflagged
  <2>3. Reflagged(i) \in SUBSET matches[i].players
    BY DEF Reflagged
  <2>4. Reflagged(i) \in SUBSET teams
    BY <1>6, <2>3
  <2>5. matches'[i] \in Games
    <3>1. f \in SUBSET teams
      BY <2>4
    <3> HIDE DEF p, f, game
    <3>2. game \in Games
      BY <2>0, <3>1 DEF Games
    <3> QED BY <3>2 DEF game
  <2> QED BY <2>1, <2>2, <2>3, <2>5
<1>8. DOMAIN matches' = 1 .. L /\ Len(matches') = L /\ matches' \in Seq(Games)
  <2>1. \A i \in 1 .. L : matches'[i] \in Games
    BY <1>7
  <2> DEFINE g(i) == [matches[i] EXCEPT !.sur = Reflagged(i)]
  <2>2. matches' = [i \in 1 .. L |-> g(i)]
    BY <1>5
  <2>3. \A i \in 1 .. L : g(i) \in Games
    BY <2>1, <2>2
  <2> HIDE DEF g
  <2> QED BY <1>4, <2>2, <2>3
<1>9. Tables'
  <2>1. \A i \in DOMAIN matches' : matches'[i].sur \subseteq matches'[i].players
    BY <1>7, <1>8
  <2> QED BY <1>1, <1>2, <1>3, <1>8, <2>1 DEF Tables
<1>10. ASSUME NEW t PROVE Played(t)' = Played(t) /\ Flagged(t)' = NewFlag(t)
  <2>1. Played(t)' = Played(t)
    BY <1>4, <1>7, <1>8 DEF Played
  <2>2. NewFlag(t) \subseteq Played(t)
    BY <1>1, NewFlagIs
  <2>3. \A i \in Played(t) : i \in 1 .. L /\ t \in matches[i].players
    BY <1>4 DEF Played
  <2>4. \A i \in Played(t) : t \in matches'[i].sur <=> i \in NewFlag(t)
    BY <1>7, <2>3
  <2>5. Flagged(t)' = {i \in Played(t) : t \in matches'[i].sur}
    BY <2>1 DEF Flagged
  <2>6. \A i : i \in Flagged(t)' <=> i \in NewFlag(t)
    BY <2>2, <2>4, <2>5
  <2> QED BY <2>1, <2>2, <2>4, <2>5
<1>11. Full' <=> Full
  BY <1>4, <1>7, <1>8 DEF Full, IsFull
<1>12. Seated' /\ ShortIsOwed'
  BY <1>1, <1>2, <1>3, <1>10, <1>11 DEF Closing, Seated, ShortIsOwed
<1>13. ExtrasFlagged'
  <2>1. ASSUME NEW t \in teams
        PROVE  Count(t)' = Count(t) /\ Cardinality(Flagged(t)') = Cardinality(Flagged(t))
    BY <1>1, <1>10, NewFlagIs DEF Count
  <2> QED BY <1>1, <1>2, <1>11, <2>1 DEF Closing, ExtrasFlagged
<1>14. Closing'
  BY <1>1, <1>2, <1>3, <1>8, <1>12, <1>13 DEF Closing, L
<1> QED BY <1>1, <1>2, <1>3, <1>9, <1>14 DEF Inv

LEMMA IntegrityCheckKeeps == ASSUME Inv, IntegrityCheck PROVE Inv'
<1>1. Tables /\ Closing /\ phase = "check" /\ (FirstModel => Counted)
  BY DEF Inv, IntegrityCheck
<1>2. UNCHANGED <<teams, quota, matches, picked, mc, sc, row, pending>>
  BY DEF IntegrityCheck
<1>3. phase' = IF Full THEN "built" ELSE "malformed"
  BY DEF IntegrityCheck, Full, IsFull
<1>4. /\ (FirstModel' <=> FirstModel) /\ (Counted' <=> Counted) /\ (Seated' <=> Seated)
      /\ (ThirdIsFlagged' <=> ThirdIsFlagged) /\ (Full' <=> Full) /\ (ExtrasFlagged' <=> ExtrasFlagged)
      /\ (ShortIsOwed' <=> ShortIsOwed) /\ TotalMatches' = TotalMatches /\ Games' = Games
  BY <1>2 DEF FirstModel, Surplus, TotalMatches, N, Counted, Seated, PerRound, ThirdIsFlagged,
              Full, IsFull, ExtrasFlagged, ShortIsOwed, Played, Flagged, Count, Games
<1>5. Tables'
  BY <1>1, <1>2, <1>3, <1>4 DEF Tables
<1>6. FirstModel => Full
  BY <1>1 DEF Closing, ThirdIsFlagged
<1>7. Closing'
  BY <1>1, <1>2, <1>3, <1>4, <1>6 DEF Closing
<1> QED BY <1>1, <1>3, <1>4, <1>5, <1>7 DEF Inv

-----------------------------------------------------------------------------
\* The theorems.

LEMMA StutterKeeps == ASSUME Inv, UNCHANGED vars PROVE Inv'
<1>1. /\ (FirstModel' <=> FirstModel) /\ (Counted' <=> Counted) /\ (Seated' <=> Seated)
      /\ (ThirdIsFlagged' <=> ThirdIsFlagged) /\ (Full' <=> Full) /\ (ExtrasFlagged' <=> ExtrasFlagged)
      /\ (ShortIsOwed' <=> ShortIsOwed) /\ (InSweep' <=> InSweep)
  BY DEF vars, FirstModel, Surplus, TotalMatches, N, Counted, Seated, PerRound, ThirdIsFlagged,
         Full, IsFull, ExtrasFlagged, ShortIsOwed, Played, Flagged, Count, InSweep, LastMatch
<1>2. (Closing' <=> Closing) /\ (Tables' <=> Tables)
  BY <1>1 DEF vars, Closing, Tables, Games, TotalMatches, N
<1>3. (InRoundOne' <=> InRoundOne) /\ (InOpen' <=> InOpen)
  BY <1>1 DEF vars, InRoundOne, InOpen, TwoLeft, TwoDone, ExactSeats, NoFlags, With, Owed,
              PerRound, TotalMatches, N, Flagged, Played
<1> QED BY <1>1, <1>2, <1>3 DEF Inv, vars

LEMMA InvAlways == Spec => []Inv
<1>1. ASSUME Inv, [Next]_vars PROVE Inv'
  BY <1>1, RoundOneKeeps, OpenFirstKeeps, OpenLegacyKeeps, EndOpenKeeps, SweepLastMatchKeeps,
     SweepLastAppearanceKeeps, IntegrityCheckKeeps, StutterKeeps DEF Next
<1> QED BY <1>1, ConstructionStarts, PTL DEF Spec

\* Matches are sets of teams of this call with flags for some of them, never
\* more than planned, and the counters stay within the number of matches.
THEOREM ConstructionTypes == Spec => []TypeOK
<1>1. ASSUME Inv PROVE TypeOK
  <2>1. Tables /\ TotalMatches \in Nat /\ PerRound \in Nat /\ PerRound <= TotalMatches
    BY <1>1, Sizes DEF Inv, Tables
  <2>2. Len(matches) <= TotalMatches
    <3>1. Len(matches) \in Nat
      BY <2>1 DEF Tables
    <3> QED BY <1>1, <2>1, <3>1 DEF Inv, Tables, InRoundOne, InOpen, Closing
  <2>3. \A t \in teams : mc[t] \in 0 .. TotalMatches /\ sc[t] \in 0 .. TotalMatches
    <3> SUFFICES ASSUME NEW t \in teams
                 PROVE  mc[t] \in 0 .. TotalMatches /\ sc[t] \in 0 .. TotalMatches
      OBVIOUS
    <3>1. mc[t] \in Nat /\ sc[t] \in Nat /\ sc[t] <= mc[t] /\ mc[t] <= TotalMatches
      BY <2>1 DEF Tables
    <3> QED BY <2>1, <3>1
  <2>4. mc \in [teams -> 0 .. TotalMatches] /\ sc \in [teams -> 0 .. TotalMatches]
    BY <2>1, <2>3 DEF Tables
  <2> QED BY <2>1, <2>2, <2>4 DEF TypeOK, Tables, Games
<1> QED BY <1>1, InvAlways, PTL

\* A surrogate appearance is the third of its team in the FIRST model, and in
\* the legacy one every extra appearance is flagged, wherever the sweeps put it.
THEOREM SurrogatesAreRight == Spec => []FlagsAreRight
<1>1. ASSUME Inv PROVE FlagsAreRight
  <2>1. ASSUME FirstModel, NEW t \in teams
        PROVE  /\ Cardinality(Flagged(t)) = sc[t] /\ sc[t] <= 1
               /\ \A i \in Flagged(t) : Cardinality({j \in Played(t) : j <= i}) = 3
    <3>1. CASE phase = "round1"
      <4>1. Flagged(t) = {} /\ sc[t] = 0
        BY <1>1, <3>1 DEF Inv, InRoundOne, NoFlags, Flagged, Played
      <4> QED BY <4>1, FS_EmptySet
    <3>2. CASE phase # "round1"
      <4>1. ThirdIsFlagged
        BY <1>1, <2>1, <3>2 DEF Inv, Tables, InOpen, Closing
      <4>2. sc[t] = IF t \in picked /\ mc[t] >= 3 THEN 1 ELSE 0
        BY <4>1 DEF ThirdIsFlagged
      <4> QED BY <4>1, <4>2 DEF ThirdIsFlagged
    <3> QED BY <3>1, <3>2
  <2>2. ASSUME phase = "built", ~FirstModel, NEW t \in teams
        PROVE  Count(t) >= quota /\ (quota >= 2 => Count(t) = quota + Cardinality(Flagged(t)))
    <3>1. Tables /\ Closing /\ Full /\ quota \in Nat \ {0}
      BY <1>1, <2>2 DEF Inv, Closing, Tables
    <3>2. IsFiniteSet(Played(t)) /\ Count(t) \in Nat /\ Cardinality(Flagged(t)) \in Nat
      BY <3>1, Appearances
    <3>3. quota >= 2 => Count(t) = quota + Cardinality(Flagged(t))
      BY <2>2, <3>1 DEF Closing, ExtrasFlagged
    <3>4. Count(t) # 0
      BY <3>1, <3>2, FS_EmptySet DEF Closing, Seated, Count
    <3> QED BY <3>1, <3>2, <3>3, <3>4
  <2> QED BY <2>1, <2>2 DEF FlagsAreRight, SurrogateIsThird, ExtrasAreFlagged
<1> QED BY <1>1, InvAlways, PTL

\* A schedule that is handed on has full matches of distinct teams and everybody
\* in round 1; one that is rejected left a team under its quota.
THEOREM BuiltUnlessShort == Spec => []BuiltOrShort
<1>1. ASSUME Inv PROVE BuiltOrShort
  <2>1. EveryoneIsSeated
    BY <1>1 DEF Inv, Closing, EveryoneIsSeated, Seated, Full, IsFull
  <2>2. ASSUME phase = "malformed" PROVE ~FirstModel /\ \E t \in teams : mc[t] < quota
    <3>1. Closing /\ Tables /\ ~Full
      BY <1>1, <2>2 DEF Inv, Closing
    <3>2. ~FirstModel
      BY <2>2, <3>1 DEF Closing
    <3>3. ~\A t \in teams : mc[t] >= quota
      BY <3>1, <3>2 DEF Closing, ShortIsOwed
    <3>4. \A t \in teams : mc[t] \in Nat /\ quota \in Nat
      BY <3>1 DEF Tables
    <3> QED BY <3>2, <3>3, <3>4
  <2> QED BY <2>1, <2>2 DEF BuiltOrShort, MalformedMeansShort
<1> QED BY <1>1, InvAlways, PTL
=============================================================================
