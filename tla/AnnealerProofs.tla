--------------------------- MODULE AnnealerProofs ---------------------------
(***************************************************************************)
(* What the searches keep for schedules of any size: distinct teams in     *)
(* every match, the tables they update move by move, everybody's matches,  *)
(* a best snapshot that is never worse than what they were given, and      *)
(* grades that respect the floors.                                         *)
(***************************************************************************)
EXTENDS Quality, FiniteSetTheorems, TLAPS

-----------------------------------------------------------------------------
\* Sums and extremes of finitely many integers.  There is no induction here,
\* but every set of natural numbers, or of subsets of a finite set, has a least.
\* The sums over the sets in D, one element at a time.
Pick(s) == CHOOSE x \in s : TRUE
IsSums(h, f, D) == h = [s \in D |-> IF s = {} THEN 0 ELSE f[Pick(s)] + h[s \ {Pick(s)}]]

LEMMA SumIs ==
  ASSUME NEW f
  PROVE  Sum(f) = (CHOOSE h : IsSums(h, f, SUBSET DOMAIN f))[DOMAIN f]
BY DEF Sum, FoldFunction, FoldFunctionOnSet, MapThenFoldSet, IsSums, Pick

LEMMA PickIn == ASSUME NEW s, s # {} PROVE Pick(s) \in s
BY DEF Pick

Smaller(S, n) == {s \in SUBSET S : Cardinality(s) < n}

LEMMA LeastNumber ==
  ASSUME NEW T \in SUBSET Nat, T # {}
  PROVE  \E n \in T : \A m \in T : ~(m < n)
<1>1. \E n \in T : \A m \in T : ~(<<m, n>> \in OpToRel(<, Nat))
  BY NatLessThanWellFounded, WFMin
<1> QED BY <1>1 DEF OpToRel

\* Sums over the subsets of at most n elements exist: the least n without has
\* sums for the smaller ones, which one more element each extends.
LEMMA SumsExist ==
  ASSUME NEW f, NEW S, IsFiniteSet(S)
  PROVE  \E h : IsSums(h, f, SUBSET S)
<1> DEFINE Has(n) == \E h : IsSums(h, f, Smaller(S, n))
           Bad == {n \in Nat : ~Has(n)}
<1>1. \A s \in SUBSET S : IsFiniteSet(s) /\ Cardinality(s) \in Nat /\ Cardinality(s) <= Cardinality(S)
  BY FS_Subset, FS_CardinalityType
<1>2. Has(0)
  <2>1. Smaller(S, 0) = {}
    BY <1>1 DEF Smaller
  <2>2. IsSums([s \in {} |-> 0], f, Smaller(S, 0))
    BY <2>1 DEF IsSums
  <2> QED BY <2>2
<1>3. ASSUME NEW n \in Nat, Has(n) PROVE Has(n + 1)
  <2>1. PICK h : IsSums(h, f, Smaller(S, n))
    BY <1>3
  <2> DEFINE g == [s \in Smaller(S, n + 1) |->
                     IF s = {} THEN 0 ELSE f[Pick(s)] + h[s \ {Pick(s)}]]
  <2>2. ASSUME NEW s \in Smaller(S, n + 1), s # {}
        PROVE  g[s \ {Pick(s)}] = h[s \ {Pick(s)}]
    <3> DEFINE r == s \ {Pick(s)}
    <3>1. r \in SUBSET S /\ Cardinality(r) = Cardinality(s) - 1
      BY <2>2, <1>1, PickIn, FS_RemoveElement DEF Smaller
    <3>2. r \in Smaller(S, n) /\ r \in Smaller(S, n + 1)
      BY <3>1, <1>1 DEF Smaller
    <3>3. h[r] = IF r = {} THEN 0 ELSE f[Pick(r)] + h[r \ {Pick(r)}]
      BY <2>1, <3>2 DEF IsSums
    <3> QED BY <3>2, <3>3
  <2>3. IsSums(g, f, Smaller(S, n + 1))
    BY <2>2 DEF IsSums
  <2> QED BY <2>3
<1>4. Bad = {}
  <2> SUFFICES ASSUME Bad # {} PROVE FALSE
    OBVIOUS
  <2>1. PICK n \in Bad : \A m \in Bad : ~(m < n)
    BY LeastNumber
  <2>2. n # 0 /\ n \in Nat
    BY <1>2
  <2>3. n - 1 \in Nat /\ n - 1 \notin Bad
    BY <2>1, <2>2
  <2>4. Has(n - 1)
    BY <2>3
  <2>5. Has((n - 1) + 1)
    BY <2>3, <2>4, <1>3
  <2>6. (n - 1) + 1 = n
    BY <2>2
  <2> QED BY <2>5, <2>6
<1>5. Has(Cardinality(S) + 1)
  BY <1>1, <1>4
<1>6. Smaller(S, Cardinality(S) + 1) = SUBSET S
  BY <1>1 DEF Smaller
<1> QED BY <1>5, <1>6

\* A sum of integers is one: a smallest subset with another sum would have an
\* integer sum but for the element picked.
LEMMA SumIsInt ==
  ASSUME NEW f, IsFiniteSet(DOMAIN f), \A x \in DOMAIN f : f[x] \in Int
  PROVE  Sum(f) \in Int
<1> DEFINE S == DOMAIN f
           h == CHOOSE h : IsSums(h, f, SUBSET S)
           Bad == {s \in SUBSET S : h[s] \notin Int}
<1>1. IsSums(h, f, SUBSET S)
  BY SumsExist
<1> HIDE DEF h
<1>2. Bad = {}
  <2> SUFFICES ASSUME Bad # {} PROVE FALSE
    OBVIOUS
  <2>1. PICK s \in Bad : \A r \in Bad : ~(<<r, s>> \in StrictSubsetOrdering(S))
    <3>1. IsWellFoundedOn(StrictSubsetOrdering(S), SUBSET S)
      BY FS_StrictSubsetOrderingWellFounded, FS_FiniteSubsetsOfFinite
    <3>2. Bad \subseteq SUBSET S
      OBVIOUS
    <3> HIDE DEF Bad
    <3> QED BY <3>1, <3>2, WFMin
  <2>2. h[s] = IF s = {} THEN 0 ELSE f[Pick(s)] + h[s \ {Pick(s)}]
    BY <1>1 DEF IsSums
  <2>3. s # {} /\ Pick(s) \in s
    BY <2>2, PickIn
  <2>4. <<s \ {Pick(s)}, s>> \in StrictSubsetOrdering(S)
    BY <2>3 DEF StrictSubsetOrdering
  <2>5. h[s \ {Pick(s)}] \in Int
    BY <2>1, <2>4
  <2> QED BY <2>2, <2>3, <2>5
<1> QED BY <1>2, SumIs DEF h

\* An image of a finite set is finite.
LEMMA ImageFinite ==
  ASSUME NEW f, IsFiniteSet(DOMAIN f)
  PROVE  IsFiniteSet({f[x] : x \in DOMAIN f})
<1> DEFINE g == [x \in DOMAIN f |-> f[x]]
<1>1. g \in Surjection(DOMAIN f, {f[x] : x \in DOMAIN f})
  BY DEF Surjection
<1> QED BY <1>1, FS_Surjection

\* The least and the greatest of finitely many integers are among them.
LEMMA MaxIsIn ==
  ASSUME NEW S, IsFiniteSet(S), S # {}, S \subseteq Int
  PROVE  Max(S) \in S /\ \A y \in S : Max(S) >= y
<1> DEFINE Bad == {s \in SUBSET S : s # {} /\ ~\E x \in s : \A y \in s : x >= y}
<1>1. Bad = {}
  <2> SUFFICES ASSUME Bad # {} PROVE FALSE
    OBVIOUS
  <2>1. PICK s \in Bad : \A r \in Bad : ~(<<r, s>> \in StrictSubsetOrdering(S))
    <3>1. IsWellFoundedOn(StrictSubsetOrdering(S), SUBSET S)
      BY FS_StrictSubsetOrderingWellFounded, FS_FiniteSubsetsOfFinite
    <3>2. Bad \subseteq SUBSET S
      OBVIOUS
    <3> HIDE DEF Bad
    <3> QED BY <3>1, <3>2, WFMin
  <2>2. PICK x \in s : TRUE
    OBVIOUS
  <2> DEFINE r == s \ {x}
  <2>3. r \notin Bad
    BY <2>1, <2>2 DEF StrictSubsetOrdering
  <2>4. CASE r = {}
    <3>1. s = {x} /\ x \in Int
      BY <2>2, <2>4
    <3> QED BY <3>1
  <2>5. CASE r # {}
    <3>1. PICK z \in r : \A y \in r : z >= y
      BY <2>3, <2>5
    <3>2. x \in Int /\ z \in Int /\ s \subseteq Int
      BY <2>2, <3>1
    <3>3. (\A y \in s : z >= y) \/ (\A y \in s : x >= y)
      BY <3>1, <3>2
    <3> QED BY <2>2, <3>1, <3>3
  <2> QED BY <2>4, <2>5
<1>2. \E x \in S : \A y \in S : x >= y
  BY <1>1
<1> QED BY <1>2 DEF Max

LEMMA MinIsIn ==
  ASSUME NEW S, IsFiniteSet(S), S # {}, S \subseteq Int
  PROVE  Min(S) \in S /\ \A y \in S : Min(S) <= y
<1> DEFINE f == [x \in S |-> -x]
           T == {f[x] : x \in DOMAIN f}
<1>1. IsFiniteSet(T) /\ T # {} /\ T \subseteq Int
  <2>1. IsFiniteSet(T)
    BY ImageFinite
  <2> QED BY <2>1
<1>2. Max(T) \in T /\ \A y \in T : Max(T) >= y
  <2> HIDE DEF T
  <2> QED BY <1>1, MaxIsIn
<1>3. PICK x \in S : Max(T) = -x
  BY <1>2
<1>4. ASSUME NEW y \in S PROVE x <= y
  <2>1. -y \in T /\ x \in Int /\ y \in Int
    OBVIOUS
  <2>2. -x >= -y
    <3> HIDE DEF T
    <3> QED BY <1>2, <1>3, <2>1
  <2> QED BY <2>1, <2>2
<1> QED BY <1>4 DEF Min

-----------------------------------------------------------------------------
\* Lists of integers are totally ordered by their first difference.

LEMMA LexTotal ==
  ASSUME NEW n \in Nat, NEW a \in [1 .. n -> Int], NEW b \in [1 .. n -> Int]
  PROVE  LexLess(a, b) \/ LexAtMost(b, a)
<1> DEFINE D == {i \in 1 .. n : a[i] # b[i]}
<1>1. CASE D = {}
  <2>1. a = b
    BY <1>1
  <2> QED BY <2>1 DEF LexAtMost
<1>2. CASE D # {}
  <2>1. PICK i \in D : \A j \in D : ~(j < i)
    <3>1. D \in SUBSET Nat
      OBVIOUS
    <3> HIDE DEF D
    <3> QED BY <1>2, <3>1, LeastNumber
  <2>2. i \in 1 .. n /\ a[i] # b[i] /\ \A j \in 1 .. i - 1 : a[j] = b[j]
    BY <2>1
  <2>3. i \in FirstDifference(a, b) /\ i \in FirstDifference(b, a)
    BY <2>2 DEF FirstDifference
  <2>4. a[i] < b[i] \/ b[i] < a[i]
    BY <2>2
  <2> QED BY <2>3, <2>4 DEF LexLess, LexAtMost
<1> QED BY <1>1, <1>2

LEMMA LexTransitive ==
  ASSUME NEW n \in Nat, NEW a \in [1 .. n -> Int], NEW b \in [1 .. n -> Int],
         NEW c \in [1 .. n -> Int],
         LexAtMost(a, b), LexAtMost(b, c)
  PROVE  LexAtMost(a, c)
<1>1. CASE a = b \/ b = c
  BY <1>1
<1>2. CASE LexLess(a, b) /\ LexLess(b, c)
  <2>1. PICK i \in FirstDifference(a, b) : a[i] < b[i]
    BY <1>2 DEF LexLess
  <2>2. PICK j \in FirstDifference(b, c) : b[j] < c[j]
    BY <1>2 DEF LexLess
  <2>3. /\ i \in 1 .. n /\ \A k \in 1 .. i - 1 : a[k] = b[k]
        /\ j \in 1 .. n /\ \A k \in 1 .. j - 1 : b[k] = c[k]
    BY <2>1, <2>2 DEF FirstDifference
  <2>4. a[i] \in Int /\ b[i] \in Int /\ c[i] \in Int /\ a[j] \in Int /\ b[j] \in Int /\ c[j] \in Int
    BY <2>3
  <2>5. CASE i <= j
    <3>1. a[i] < c[i] /\ \A k \in 1 .. i - 1 : a[k] = c[k]
      BY <2>1, <2>2, <2>3, <2>4, <2>5
    <3>2. i \in FirstDifference(a, c)
      BY <2>3, <2>4, <3>1 DEF FirstDifference
    <3> QED BY <3>1, <3>2 DEF LexLess, LexAtMost
  <2>6. CASE j < i
    <3>1. a[j] < c[j] /\ \A k \in 1 .. j - 1 : a[k] = c[k]
      BY <2>1, <2>2, <2>3, <2>4, <2>6
    <3>2. j \in FirstDifference(a, c)
      BY <2>3, <2>4, <3>1 DEF FirstDifference
    <3> QED BY <3>1, <3>2 DEF LexLess, LexAtMost
  <2> QED BY <2>3, <2>5, <2>6
<1> QED BY <1>1, <1>2 DEF LexAtMost

\* A list at most another is so up to any place, and in its first place.
LEMMA LexPrefix ==
  ASSUME NEW n \in Nat, NEW m \in 0 .. n, NEW a \in [1 .. n -> Int], NEW b \in [1 .. n -> Int],
         LexAtMost(a, b)
  PROVE  /\ LexAtMost([i \in 1 .. m |-> a[i]], [i \in 1 .. m |-> b[i]])
         /\ n > 0 => a[1] <= b[1]
<1>1. CASE a = b
  BY <1>1 DEF LexAtMost
<1>2. CASE LexLess(a, b)
  <2> DEFINE c == [i \in 1 .. m |-> a[i]]
             d == [i \in 1 .. m |-> b[i]]
  <2>1. PICK i \in FirstDifference(a, b) : a[i] < b[i]
    BY <1>2 DEF LexLess
  <2>2. i \in 1 .. n /\ \A k \in 1 .. i - 1 : a[k] = b[k]
    BY <2>1 DEF FirstDifference
  <2>3. n > 0 => a[1] <= b[1]
    BY <2>1, <2>2
  <2>4. CASE i <= m
    <3>1. i \in FirstDifference(c, d) /\ c[i] < d[i]
      BY <2>1, <2>2, <2>4 DEF FirstDifference
    <3> QED BY <2>3, <3>1 DEF LexAtMost, LexLess
  <2>5. CASE ~(i <= m)
    <3>1. c = d
      BY <2>2, <2>5
    <3> QED BY <2>3, <3>1 DEF LexAtMost
  <2> QED BY <2>4, <2>5
<1> QED BY <1>1, <1>2 DEF LexAtMost

-----------------------------------------------------------------------------
\* Counting, in a schedule with the matches D.

LEMMA CountNat ==
  ASSUME NEW D, IsFiniteSet(D), NEW S \in SUBSET D
  PROVE  IsFiniteSet(S) /\ Count(S) \in Nat
BY FS_Subset, FS_CardinalityType DEF Count

\* What changes in some places only is counted there.
SameOutside(A, B, T) == A \ T = B \ T
ChangedWithin(A, B, T) == Count(B) = Count(A) + Count(B \cap T) - Count(A \cap T)
LEMMA CountChange ==
  ASSUME NEW A, NEW B, NEW T, IsFiniteSet(A), IsFiniteSet(B), SameOutside(A, B, T)
  PROVE  ChangedWithin(A, B, T)
<1>2. /\ Cardinality(A) \in Nat /\ Cardinality(B) \in Nat
      /\ Cardinality(A \cap T) \in Nat /\ Cardinality(B \cap T) \in Nat
  BY FS_CardinalityType, FS_Intersection
<1>3. /\ Cardinality(A \ T) = Cardinality(A) - Cardinality(A \cap T)
      /\ Cardinality(B \ T) = Cardinality(B) - Cardinality(B \cap T)
  BY FS_Difference
<1>4. Cardinality(A \ T) = Cardinality(B \ T)
  BY DEF SameOutside
<1>5. Cardinality(B) = Cardinality(A) + Cardinality(B \cap T) - Cardinality(A \cap T)
  BY <1>2, <1>3, <1>4
<1> QED BY <1>5 DEF Count, ChangedWithin

LEMMA HalvesAreSeats ==
  /\ Seats = Red \cup Blue /\ Red \cap Blue = {} /\ IsFiniteSet(Seats) /\ Seats # {}
  /\ \A k \in Red : k + Alliance \in Blue
  /\ \A k \in Blue : k - Alliance \in Red
<1>1. Alliance \in Nat /\ Alliance > 0
  BY BoundsAssumption
<1>2. Seats = Red \cup Blue /\ Red \cap Blue = {}
  BY <1>1 DEF Seats, Red, Blue
<1>3. IsFiniteSet(Seats)
  BY <1>1, FS_Interval DEF Seats
<1>4. 1 \in Seats
  BY <1>1 DEF Seats
<1>5. \A k \in Red : k + Alliance \in Blue
  BY <1>1 DEF Seats, Red, Blue
<1>6. \A k \in Blue : k - Alliance \in Red
  BY <1>1 DEF Seats, Red, Blue
<1> QED BY <1>2, <1>3, <1>4, <1>5, <1>6

-----------------------------------------------------------------------------
\* A team takes the seat of another in a match it does not play, and back.
LEMMA MoveSeats ==
  ASSUME NEW m \in Matches, NEW k \in Seats, NEW t \in Teams, t \notin InMatch(m),
         NEW flagged \in SUBSET Teams
  PROVE  LET out == m.seats[k]
             n == Move(m, k, t, out, t \in flagged) IN
         /\ n \in Matches
         /\ n.seats[k] = t /\ \A x \in Seats \ {k} : n.seats[x] = m.seats[x]
         /\ InMatch(n) = (InMatch(m) \ {out}) \cup {t}
         /\ n.sur = (m.sur \ {out}) \cup (IF t \in flagged THEN {t} ELSE {})
         /\ Move(n, k, out, t, out \in m.sur) = m
<1> DEFINE out == m.seats[k]
           n == Move(m, k, t, out, t \in flagged)
<1>1. /\ m.seats \in [Seats -> Teams] /\ m.sur \in SUBSET Teams
      /\ m = [seats |-> m.seats, sur |-> m.sur]
      /\ \A x, y \in Seats : m.seats[x] = m.seats[y] => x = y
      /\ m.sur \subseteq InMatch(m)
  BY DEF Matches, IsInjective
<1>2. /\ n.seats = [m.seats EXCEPT ![k] = t]
      /\ n.sur = (m.sur \ {out}) \cup (IF t \in flagged THEN {t} ELSE {})
      /\ n = [seats |-> n.seats, sur |-> n.sur]
  BY DEF Move
<1> HIDE DEF n
<1>3. /\ n.seats \in [Seats -> Teams]
      /\ n.seats[k] = t /\ \A x \in Seats \ {k} : n.seats[x] = m.seats[x]
  BY <1>1, <1>2
<1>4. InMatch(n) = (InMatch(m) \ {out}) \cup {t}
  BY <1>1, <1>3 DEF InMatch
<1>5. IsInjective(n.seats)
  <2>1. \A x \in Seats : m.seats[x] # t
    BY DEF InMatch
  <2> QED BY <1>1, <1>3, <2>1 DEF IsInjective
<1>6. n.sur \subseteq InMatch(n) /\ n.sur \in SUBSET Teams
  BY <1>1, <1>2, <1>4
<1>7. n \in Matches
  BY <1>2, <1>3, <1>5, <1>6 DEF Matches
<1>8. [n.seats EXCEPT ![k] = out] = m.seats
  BY <1>1, <1>2
<1>9. (n.sur \ {t}) \cup (IF out \in m.sur THEN {out} ELSE {}) = m.sur
  BY <1>1, <1>2
<1>10. Move(n, k, out, t, out \in m.sur) = m
  BY <1>1, <1>8, <1>9 DEF Move
<1> QED BY <1>2, <1>3, <1>4, <1>7, <1>10 DEF n

Exchanged(m, k, l) == [m EXCEPT !.seats = [@ EXCEPT ![k] = m.seats[l], ![l] = m.seats[k]]]

\* Two teams of a match change seats, and back.
LEMMA ExchangeSeats ==
  ASSUME NEW m \in Matches, NEW k \in Seats, NEW l \in Seats
  PROVE  LET n == Exchanged(m, k, l) IN
         /\ n \in Matches
         /\ n.seats[k] = m.seats[l] /\ n.seats[l] = m.seats[k]
         /\ InMatch(n) = InMatch(m) /\ n.sur = m.sur
         /\ Exchanged(n, k, l) = m
<1> DEFINE n == Exchanged(m, k, l)
<1>1. /\ m.seats \in [Seats -> Teams] /\ m.sur \in SUBSET Teams
      /\ m = [seats |-> m.seats, sur |-> m.sur]
      /\ \A x, y \in Seats : m.seats[x] = m.seats[y] => x = y
      /\ m.sur \subseteq InMatch(m)
  BY DEF Matches, IsInjective
<1>2. /\ n.seats = [m.seats EXCEPT ![k] = m.seats[l], ![l] = m.seats[k]]
      /\ n.sur = m.sur
      /\ n = [seats |-> n.seats, sur |-> n.sur]
  BY <1>1 DEF Exchanged
<1> HIDE DEF n
<1>3. /\ n.seats \in [Seats -> Teams]
      /\ n.seats[k] = m.seats[l] /\ n.seats[l] = m.seats[k]
      /\ \A x \in Seats \ {k, l} : n.seats[x] = m.seats[x]
  BY <1>1, <1>2
<1>4. InMatch(n) = InMatch(m)
  <2>1. \A x \in Seats : \E y \in Seats : n.seats[x] = m.seats[y]
    BY <1>3
  <2>2. \A x \in Seats : \E y \in Seats : m.seats[x] = n.seats[y]
    BY <1>3
  <2> QED BY <2>1, <2>2 DEF InMatch
<1>5. IsInjective(n.seats)
  BY <1>1, <1>3 DEF IsInjective
<1>6. n \in Matches
  BY <1>1, <1>2, <1>3, <1>4, <1>5 DEF Matches
<1>7. [n.seats EXCEPT ![k] = n.seats[l], ![l] = n.seats[k]] = m.seats
  BY <1>1, <1>2, <1>3
<1>8. Exchanged(n, k, l) = m
  BY <1>1, <1>2, <1>7 DEF Exchanged
<1> QED BY <1>2, <1>3, <1>4, <1>6, <1>8 DEF n

-----------------------------------------------------------------------------
\* One element of a set replaced by another.
LEMMA Replaced ==
  ASSUME NEW D, IsFiniteSet(D), NEW A \in SUBSET D, NEW x \in A, NEW y \in D \ A
  PROVE  Count((A \ {x}) \cup {y}) = Count(A)
<1>1. IsFiniteSet(A) /\ Cardinality(A) \in Nat
  BY FS_Subset, FS_CardinalityType
<1>2. IsFiniteSet(A \ {x}) /\ Cardinality(A \ {x}) = Cardinality(A) - 1
  BY <1>1, FS_RemoveElement
<1>3. y \notin A \ {x}
  OBVIOUS
<1>4. Cardinality((A \ {x}) \cup {y}) = Cardinality(A \ {x}) + 1
  BY <1>2, <1>3, FS_AddElement
<1> QED BY <1>1, <1>2, <1>4 DEF Count

SurrogateIn(w, t) == {i \in DOMAIN w : t \in w[i].sur}

\* What every team is owed: as many matches, as often a surrogate.
SameLoads(v, w) ==
  \A t \in Teams : /\ Count(Plays(v, t)) = Count(Plays(w, t))
                   /\ Count(SurrogateIn(v, t)) = Count(SurrogateIn(w, t))

LEMMA SwapWithin ==
  ASSUME NEW D, NEW w \in [D -> Matches],
         NEW i \in D, NEW k \in Seats, NEW l \in Seats
  PROVE  LET p == <<i, k>>
             q == <<i, l>>
             new == Swapped(w, p, q) IN
         /\ new \in [D -> Matches]
         /\ \A j \in D \ {i} : new[j] = w[j]
         /\ \A t \in Teams : Plays(new, t) = Plays(w, t) /\ SurrogateIn(new, t) = SurrogateIn(w, t)
         /\ Swapped(new, p, q) = w
<1> DEFINE p == <<i, k>>
           q == <<i, l>>
           new == Swapped(w, p, q)
<1>1. new = [w EXCEPT ![i] = Exchanged(w[i], k, l)]
  BY DEF Swapped, TeamAt, Exchanged
<1>2. w[i] \in Matches
  OBVIOUS
<1>3. LET n == Exchanged(w[i], k, l) IN
      n \in Matches /\ InMatch(n) = InMatch(w[i]) /\ n.sur = w[i].sur /\ Exchanged(n, k, l) = w[i]
  BY <1>2, ExchangeSeats
<1> HIDE DEF new
<1>4. new \in [D -> Matches] /\ new[i] = Exchanged(w[i], k, l) /\ \A j \in D \ {i} : new[j] = w[j]
  BY <1>1, <1>3
<1>5. InMatch(new[i]) = InMatch(w[i]) /\ new[i].sur = w[i].sur
  BY <1>3, <1>4
<1>6. \A t \in Teams : Plays(new, t) = Plays(w, t) /\ SurrogateIn(new, t) = SurrogateIn(w, t)
  <2>1. \A j \in D : InMatch(new[j]) = InMatch(w[j]) /\ new[j].sur = w[j].sur
    BY <1>4, <1>5
  <2>2. DOMAIN new = D /\ DOMAIN w = D
    BY <1>4
  <2> QED BY <2>1, <2>2 DEF Plays, SurrogateIn
<1>7. Swapped(new, p, q) = [new EXCEPT ![i] = Exchanged(new[i], k, l)]
  BY <1>4 DEF Swapped, TeamAt, Exchanged
<1>8. [new EXCEPT ![i] = Exchanged(new[i], k, l)] = w
  BY <1>3, <1>4
<1> QED BY <1>4, <1>6, <1>7, <1>8 DEF new

LEMMA SwapBetween ==
  ASSUME NEW D, NEW w \in [D -> Matches],
         NEW p \in D \X Seats, NEW q \in D \X Seats, p[1] # q[1], IsValidSwap(w, p, q)
  PROVE  LET i == p[1]
             j == q[1]
             a == TeamAt(w, p)
             b == TeamAt(w, q)
             new == Swapped(w, p, q) IN
         /\ a \in Teams /\ b \in Teams /\ a # b
         /\ new \in [D -> Matches]
         /\ \A x \in D \ {i, j} : new[x] = w[x]
         /\ InMatch(new[i]) = (InMatch(w[i]) \ {a}) \cup {b}
         /\ InMatch(new[j]) = (InMatch(w[j]) \ {b}) \cup {a}
         /\ new[i].sur = (w[i].sur \ {a}) \cup (IF b \in w[j].sur THEN {b} ELSE {})
         /\ new[j].sur = (w[j].sur \ {b}) \cup (IF a \in w[i].sur THEN {a} ELSE {})
         /\ a \in InMatch(w[i]) /\ b \in InMatch(w[j])
         /\ a \notin InMatch(w[j]) /\ b \notin InMatch(w[i])
         /\ IsValidSwap(new, p, q)
         /\ Swapped(new, p, q) = w
<1> DEFINE i == p[1]
           j == q[1]
           k == p[2]
           l == q[2]
           a == TeamAt(w, p)
           b == TeamAt(w, q)
           m == w[i]
           n == w[j]
           u == Move(m, k, b, a, b \in n.sur)
           v == Move(n, l, a, b, a \in m.sur)
           new == Swapped(w, p, q)
<1>1. /\ m \in Matches /\ n \in Matches /\ a = m.seats[k] /\ b = n.seats[l]
      /\ a \in Teams /\ b \in Teams
  BY DEF TeamAt, Matches
<1>2. a \in InMatch(m) /\ b \in InMatch(n) /\ a \notin InMatch(n) /\ b \notin InMatch(m)
  BY <1>1 DEF IsValidSwap, InMatch
<1>3. new = [w EXCEPT ![i] = u, ![j] = v]
  BY DEF Swapped, TeamAt, Flag
<1>4. /\ u \in Matches
      /\ u.seats[k] = b
      /\ InMatch(u) = (InMatch(m) \ {a}) \cup {b}
      /\ u.sur = (m.sur \ {a}) \cup (IF b \in n.sur THEN {b} ELSE {})
      /\ Move(u, k, a, b, a \in m.sur) = m
  <2>1. n.sur \in SUBSET Teams
    BY <1>1 DEF Matches
  <2> HIDE DEF a, b, n, m
  <2> QED BY <1>1, <1>2, <2>1, MoveSeats DEF u
<1>5. /\ v \in Matches
      /\ v.seats[l] = a
      /\ InMatch(v) = (InMatch(n) \ {b}) \cup {a}
      /\ v.sur = (n.sur \ {b}) \cup (IF a \in m.sur THEN {a} ELSE {})
      /\ Move(v, l, b, a, b \in n.sur) = n
  <2>1. m.sur \in SUBSET Teams
    BY <1>1 DEF Matches
  <2> HIDE DEF a, b, n, m
  <2> QED BY <1>1, <1>2, <2>1, MoveSeats DEF v
<1> HIDE DEF new, u, v
<1>6. /\ new \in [D -> Matches] /\ new[i] = u /\ new[j] = v
      /\ \A x \in D \ {i, j} : new[x] = w[x]
  BY <1>3, <1>4, <1>5
<1>7. a # b
  BY <1>2
<1>8. TeamAt(new, p) = b /\ TeamAt(new, q) = a
  BY <1>4, <1>5, <1>6 DEF TeamAt
<1>9. IsValidSwap(new, p, q)
  <2>1. b \notin InMatch(v) /\ a \notin InMatch(u)
    BY <1>2, <1>4, <1>5, <1>7
  <2> QED BY <1>6, <1>8, <2>1 DEF IsValidSwap
<1>10. Swapped(new, p, q) = w
  <2>1. m.sur \subseteq InMatch(m) /\ n.sur \subseteq InMatch(n)
    BY <1>1 DEF Matches
  <2>2. Flag(new, p) <=> b \in n.sur
    BY <1>2, <1>4, <1>6, <1>7, <1>8, <2>1 DEF Flag
  <2>3. Flag(new, q) <=> a \in m.sur
    BY <1>2, <1>5, <1>6, <1>7, <1>8, <2>1 DEF Flag
  <2>4. Swapped(new, p, q) = [new EXCEPT ![i] = Move(u, k, a, b, Flag(new, q)),
                                         ![j] = Move(v, l, b, a, Flag(new, p))]
    <3> HIDE DEF a, b
    <3> QED BY <1>6, <1>8 DEF Swapped
  <2>5. Move(u, k, a, b, Flag(new, q)) = m
    <3> HIDE DEF a, b, m, n
    <3> QED BY <1>4, <2>3 DEF Move
  <2>6. Move(v, l, b, a, Flag(new, p)) = n
    <3> HIDE DEF a, b, m, n
    <3> QED BY <1>5, <2>2 DEF Move
  <2>7. [new EXCEPT ![i] = m, ![j] = n] = w
    BY <1>6
  <2> QED BY <2>4, <2>5, <2>6, <2>7
<1> QED BY <1>1, <1>2, <1>4, <1>5, <1>6, <1>7, <1>9, <1>10 DEF new, u, v

-----------------------------------------------------------------------------
MovedPlays(plays, w, p, q) ==
  IF p[1] = q[1] THEN plays
  ELSE [plays EXCEPT ![TeamAt(w, p)] = (@ \ {p[1]}) \cup {q[1]},
                     ![TeamAt(w, q)] = (@ \ {q[1]}) \cup {p[1]}]

GoodSwap(new, w, D, p, q) ==
  /\ new \in [D -> Matches] /\ SameLoads(new, w)
  /\ IsValidSwap(new, p, q) /\ Swapped(new, p, q) = w

\* A valid swap, and the same swap again, which undoes it.
LEMMA SwapKeepsLoads ==
  ASSUME NEW D, IsFiniteSet(D), NEW w \in [D -> Matches],
         NEW p \in D \X Seats, NEW q \in D \X Seats, IsValidSwap(w, p, q)
  PROVE  LET new == Swapped(w, p, q) IN
         /\ GoodSwap(new, w, D, p, q)
         /\ \A x \in D \ {p[1], q[1]} : new[x] = w[x]
         /\ [t \in Teams |-> Plays(new, t)]
              = MovedPlays([t \in Teams |-> Plays(w, t)], w, p, q)
<1> DEFINE new == Swapped(w, p, q)
           i == p[1]
           j == q[1]
           a == TeamAt(w, p)
           b == TeamAt(w, q)
           before == [t \in Teams |-> Plays(w, t)]
<1>1. i \in D /\ j \in D /\ p[2] \in Seats /\ q[2] \in Seats /\ p = <<i, p[2]>> /\ q = <<j, q[2]>>
  OBVIOUS
<1>2. CASE i = j
  <2>1. /\ new \in [D -> Matches]
        /\ \A x \in D \ {i} : new[x] = w[x]
        /\ \A t \in Teams : Plays(new, t) = Plays(w, t) /\ SurrogateIn(new, t) = SurrogateIn(w, t)
        /\ Swapped(new, p, q) = w
    <3> HIDE DEF i, j
    <3> QED BY <1>1, <1>2, SwapWithin
  <2>2. IsValidSwap(new, p, q)
    BY <1>2 DEF IsValidSwap
  <2>3. SameLoads(new, w)
    BY <2>1 DEF SameLoads
  <2>4. [t \in Teams |-> Plays(new, t)] = MovedPlays(before, w, p, q)
    BY <1>2, <2>1 DEF MovedPlays
  <2> HIDE DEF new
  <2>5. GoodSwap(new, w, D, p, q)
    BY <2>1, <2>2, <2>3 DEF GoodSwap
  <2> QED BY <1>2, <2>1, <2>4, <2>5 DEF new
<1>3. CASE i # j
  <2>1. /\ a \in Teams /\ b \in Teams /\ a # b
        /\ new \in [D -> Matches]
        /\ \A x \in D \ {i, j} : new[x] = w[x]
        /\ InMatch(new[i]) = (InMatch(w[i]) \ {a}) \cup {b}
        /\ InMatch(new[j]) = (InMatch(w[j]) \ {b}) \cup {a}
        /\ new[i].sur = (w[i].sur \ {a}) \cup (IF b \in w[j].sur THEN {b} ELSE {})
        /\ new[j].sur = (w[j].sur \ {b}) \cup (IF a \in w[i].sur THEN {a} ELSE {})
        /\ a \in InMatch(w[i]) /\ b \in InMatch(w[j])
        /\ a \notin InMatch(w[j]) /\ b \notin InMatch(w[i])
        /\ IsValidSwap(new, p, q)
        /\ Swapped(new, p, q) = w
    BY <1>3, SwapBetween, SMTT(30)
  <2> HIDE DEF new, a, b, i, j
  <2>2. DOMAIN new = D /\ DOMAIN w = D /\ i \in D /\ j \in D
    BY <1>1, <2>1
  <2>3. \A x \in D : w[x].sur \subseteq InMatch(w[x])
    BY DEF Matches
  <2>4. \A t \in Teams \ {a, b} : Plays(new, t) = Plays(w, t) /\ SurrogateIn(new, t) = SurrogateIn(w, t)
    <3> SUFFICES ASSUME NEW t \in Teams \ {a, b}, NEW x \in D
                 PROVE  /\ t \in InMatch(new[x]) <=> t \in InMatch(w[x])
                        /\ t \in new[x].sur <=> t \in w[x].sur
      BY <2>2 DEF Plays, SurrogateIn
    <3> QED BY <2>1, <2>2
  <2>5. Plays(new, a) = (Plays(w, a) \ {i}) \cup {j} /\ i \in Plays(w, a) /\ j \in D \ Plays(w, a)
    BY <1>3, <2>1, <2>2 DEF Plays
  <2>6. Plays(new, b) = (Plays(w, b) \ {j}) \cup {i} /\ j \in Plays(w, b) /\ i \in D \ Plays(w, b)
    BY <1>3, <2>1, <2>2 DEF Plays
  <2>7. Count(Plays(new, a)) = Count(Plays(w, a)) /\ Count(Plays(new, b)) = Count(Plays(w, b))
    <3>1. Plays(w, a) \in SUBSET D /\ Plays(w, b) \in SUBSET D
      BY <2>2 DEF Plays
    <3> QED BY <2>5, <2>6, <3>1, Replaced
  <2>8. Count(SurrogateIn(new, a)) = Count(SurrogateIn(w, a))
    <3>1. CASE a \in w[i].sur
      <4>1. /\ SurrogateIn(new, a) = (SurrogateIn(w, a) \ {i}) \cup {j}
            /\ i \in SurrogateIn(w, a) /\ j \in D \ SurrogateIn(w, a)
        BY <1>3, <2>1, <2>2, <2>3, <3>1 DEF SurrogateIn
      <4>2. SurrogateIn(w, a) \in SUBSET D
        BY <2>2 DEF SurrogateIn
      <4> QED BY <4>1, <4>2, Replaced
    <3>2. CASE a \notin w[i].sur
      <4>1. SurrogateIn(new, a) = SurrogateIn(w, a)
        BY <1>3, <2>1, <2>2, <2>3, <3>2 DEF SurrogateIn
      <4> QED BY <4>1
    <3> QED BY <3>1, <3>2
  <2>9. Count(SurrogateIn(new, b)) = Count(SurrogateIn(w, b))
    <3>1. CASE b \in w[j].sur
      <4>1. /\ SurrogateIn(new, b) = (SurrogateIn(w, b) \ {j}) \cup {i}
            /\ j \in SurrogateIn(w, b) /\ i \in D \ SurrogateIn(w, b)
        BY <1>3, <2>1, <2>2, <2>3, <3>1 DEF SurrogateIn
      <4>2. SurrogateIn(w, b) \in SUBSET D
        BY <2>2 DEF SurrogateIn
      <4> QED BY <4>1, <4>2, Replaced
    <3>2. CASE b \notin w[j].sur
      <4>1. SurrogateIn(new, b) = SurrogateIn(w, b)
        BY <1>3, <2>1, <2>2, <2>3, <3>2 DEF SurrogateIn
      <4> QED BY <4>1
    <3> QED BY <3>1, <3>2
  <2>10. SameLoads(new, w)
    <3> SUFFICES ASSUME NEW t \in Teams
                 PROVE  /\ Count(Plays(new, t)) = Count(Plays(w, t))
                        /\ Count(SurrogateIn(new, t)) = Count(SurrogateIn(w, t))
      BY DEF SameLoads
    <3>1. CASE t \notin {a, b}
      BY <2>4, <3>1
    <3>2. CASE t \in {a, b}
      BY <2>7, <2>8, <2>9, <3>2
    <3> QED BY <3>1, <3>2
  <2>11. [t \in Teams |-> Plays(new, t)]
           = [before EXCEPT ![a] = (@ \ {i}) \cup {j}, ![b] = (@ \ {j}) \cup {i}]
    BY <2>1, <2>4, <2>5, <2>6
  <2>12. [t \in Teams |-> Plays(new, t)] = MovedPlays(before, w, p, q)
    BY <1>3, <2>11 DEF MovedPlays, i, j, a, b
  <2>13. GoodSwap(new, w, D, p, q)
    BY <2>1, <2>10 DEF GoodSwap
  <2> QED BY <2>1, <2>12, <2>13 DEF i, j, new
<1> QED BY <1>2, <1>3

-----------------------------------------------------------------------------
\* The colour table: on which side each team sits in each match it plays.
Coloured(w) == [t \in Teams |-> [i \in Plays(w, t) |-> IsRed(w, t, i)]]
Recolours(c, w, p, q) ==
  [c EXCEPT ![TeamAt(w, p)] = Recoloured(@, p[1], q[1], q[2] \in Red),
            ![TeamAt(w, q)] = Recoloured(@, q[1], p[1], p[2] \in Red)]

LEMMA SeatTellsSide ==
  ASSUME NEW m \in Matches, NEW k \in Seats
  PROVE  (m.seats[k] \in SideOf(m, Red)) = (k \in Red) /\ m.seats[k] \in InMatch(m)
<1>1. /\ m.seats \in [Seats -> Teams] /\ \A x, y \in Seats : m.seats[x] = m.seats[y] => x = y
  BY DEF Matches, IsInjective
<1>2. \A x \in Red : x \in Seats
  BY HalvesAreSeats
<1>3. m.seats[k] \in SideOf(m, Red) <=> k \in Red
  BY <1>1, <1>2 DEF SideOf
<1> QED BY <1>3 DEF InMatch

\* Who sits where after a swap.
LEMMA SeatsAfter ==
  ASSUME NEW D, NEW w \in [D -> Matches], NEW p \in D \X Seats, NEW q \in D \X Seats,
         NEW x \in D, NEW h \in Seats
  PROVE  Swapped(w, p, q)[x].seats[h]
           = IF x = q[1] /\ h = q[2] THEN TeamAt(w, p)
             ELSE IF x = p[1] /\ h = p[2] THEN TeamAt(w, q) ELSE w[x].seats[h]
<1> DEFINE i == p[1]
           j == q[1]
           k == p[2]
           l == q[2]
           a == TeamAt(w, p)
           b == TeamAt(w, q)
           new == Swapped(w, p, q)
<1>1. i \in D /\ j \in D /\ k \in Seats /\ l \in Seats /\ a = w[i].seats[k] /\ b = w[j].seats[l]
  BY DEF TeamAt
<1>2. \A y \in D : w[y].seats \in [Seats -> Teams] /\ w[y] = [seats |-> w[y].seats, sur |-> w[y].sur]
  BY DEF Matches
<1>3. CASE i = j
  <2> DEFINE s == [w[i].seats EXCEPT ![k] = b, ![l] = a]
  <2>1. new = [w EXCEPT ![i].seats = s]
    BY <1>3 DEF Swapped
  <2> HIDE DEF new, a, b, i, j, k, l, s
  <2>2. new[i].seats = s /\ \A y \in D \ {i} : new[y] = w[y]
    BY <1>1, <1>2, <2>1
  <2>3. s[h] = IF h = l THEN a ELSE IF h = k THEN b ELSE w[i].seats[h]
    BY <1>1, <1>2 DEF s
  <2>4. new[x].seats[h] = IF x = j /\ h = l THEN a ELSE IF x = i /\ h = k THEN b ELSE w[x].seats[h]
    BY <1>1, <1>3, <2>2, <2>3
  <2> QED BY <2>4 DEF new, a, b, i, j, k, l
<1>4. CASE i # j
  <2> DEFINE u == [w[i].seats EXCEPT ![k] = b]
             v == [w[j].seats EXCEPT ![l] = a]
             m == Move(w[i], k, b, a, Flag(w, q))
             n == Move(w[j], l, a, b, Flag(w, p))
  <2>1. new = [w EXCEPT ![i] = m, ![j] = n] /\ m.seats = u /\ n.seats = v
    BY <1>4 DEF Swapped, Move
  <2> HIDE DEF new, a, b, i, j, k, l, u, v, m, n
  <2>2. new[i].seats = u /\ new[j].seats = v /\ \A y \in D \ {i, j} : new[y] = w[y]
    BY <1>1, <1>4, <2>1
  <2>3. /\ u[h] = IF h = k THEN b ELSE w[i].seats[h]
        /\ v[h] = IF h = l THEN a ELSE w[j].seats[h]
    BY <1>1, <1>2 DEF u, v
  <2>4. new[x].seats[h] = IF x = j /\ h = l THEN a ELSE IF x = i /\ h = k THEN b ELSE w[x].seats[h]
    BY <1>1, <1>4, <2>2, <2>3
  <2> QED BY <2>4 DEF new, a, b, i, j, k, l
<1> QED BY <1>3, <1>4

\* The entries a swap writes are those of the new schedule, and it writes all
\* that have changed.
LEMMA SwapKeepsColours ==
  ASSUME NEW D, IsFiniteSet(D), NEW w \in [D -> Matches],
         NEW p \in D \X Seats, NEW q \in D \X Seats, p # q, IsValidSwap(w, p, q)
  PROVE  Coloured(Swapped(w, p, q)) = Recolours(Coloured(w), w, p, q)
<1> DEFINE i == p[1]
           j == q[1]
           a == TeamAt(w, p)
           b == TeamAt(w, q)
           new == Swapped(w, p, q)
           c == Coloured(w)
           A == Recoloured(c[a], i, j, q[2] \in Red)
<1>1. /\ i \in D /\ j \in D /\ p[2] \in Seats /\ q[2] \in Seats
      /\ a = w[i].seats[p[2]] /\ b = w[j].seats[q[2]] /\ w[i] \in Matches /\ w[j] \in Matches
  BY DEF TeamAt
<1>2. a \in Teams /\ b \in Teams
  BY <1>1 DEF Matches
<1>3. /\ new \in [D -> Matches] /\ \A x \in D \ {i, j} : new[x] = w[x]
      /\ [t \in Teams |-> Plays(new, t)] = MovedPlays([t \in Teams |-> Plays(w, t)], w, p, q)
  <2>1. /\ GoodSwap(new, w, D, p, q) /\ \A x \in D \ {i, j} : new[x] = w[x]
        /\ [t \in Teams |-> Plays(new, t)] = MovedPlays([t \in Teams |-> Plays(w, t)], w, p, q)
    BY SwapKeepsLoads
  <2> HIDE DEF new
  <2> QED BY <2>1 DEF GoodSwap
<1>4. \A x \in D, h \in Seats : new[x].seats[h]
        = IF x = j /\ h = q[2] THEN a ELSE IF x = i /\ h = p[2] THEN b ELSE w[x].seats[h]
  BY SeatsAfter
<1>5. /\ i \in Plays(w, a) /\ j \in Plays(w, b) /\ \A t : Plays(w, t) \subseteq D
      /\ \A t : Plays(new, t) \subseteq D
  BY <1>1, <1>3, SeatTellsSide DEF Plays
<1>6. a # b
  <2>1. i # j => a # b
    BY <1>1, SeatTellsSide DEF IsValidSwap
  <2>2. \A x, y \in Seats : w[i].seats[x] = w[i].seats[y] => x = y
    BY <1>1 DEF Matches, IsInjective
  <2>3. i = j => p[2] # q[2]
    OBVIOUS
  <2> QED BY <1>1, <2>1, <2>2, <2>3
<1> HIDE DEF new
<1>7. /\ \A t \in Teams \ {a, b} : Plays(new, t) = Plays(w, t)
      /\ Plays(new, a) = (Plays(w, a) \ {i}) \cup {j}
      /\ Plays(new, b) = (Plays(w, b) \ {j}) \cup {i}
  <2>1. CASE i = j
    <3>1. \A t \in Teams : Plays(new, t) = Plays(w, t)
      BY <1>3, <2>1 DEF MovedPlays
    <3> HIDE DEF a, b, i, j
    <3> QED BY <1>2, <1>5, <2>1, <3>1
  <2>2. CASE i # j
    <3> DEFINE f == [t \in Teams |-> Plays(w, t)]
    <3>1. [t \in Teams |-> Plays(new, t)] = [f EXCEPT ![a] = (@ \ {i}) \cup {j}, ![b] = (@ \ {j}) \cup {i}]
      BY <1>3, <2>2 DEF MovedPlays
    <3> HIDE DEF a, b, i, j
    <3> QED BY <1>2, <1>6, <2>2, <3>1
  <2> QED BY <2>1, <2>2
<1>8. IsRed(new, a, j) = (q[2] \in Red)
  <2>1. new[j] \in Matches /\ new[j].seats[q[2]] = a
    BY <1>1, <1>3, <1>4
  <2>2. (new[j].seats[q[2]] \in SideOf(new[j], Red)) = (q[2] \in Red)
    BY <1>1, <2>1, SeatTellsSide
  <2> QED BY <2>1, <2>2 DEF IsRed
<1>9. IsRed(new, b, i) = (p[2] \in Red)
  <2>1. new[i] \in Matches /\ new[i].seats[p[2]] = b
    <3>1. i = j /\ p[2] = q[2] => a = b
      BY <1>1
    <3>2. new[i].seats[p[2]] = IF i = j /\ p[2] = q[2] THEN a ELSE b
      BY <1>1, <1>4
    <3> HIDE DEF a, b, i, j
    <3> QED BY <1>1, <1>3, <3>1, <3>2
  <2>2. (new[i].seats[p[2]] \in SideOf(new[i], Red)) = (p[2] \in Red)
    BY <1>1, <2>1, SeatTellsSide
  <2> QED BY <2>1, <2>2 DEF IsRed
<1>10. ASSUME NEW t \in Teams, NEW x \in D, x \in {i, j} => t \notin {a, b}
       PROVE  IsRed(new, t, x) = IsRed(w, t, x)
  <2>1. CASE x \notin {i, j}
    BY <1>3, <2>1 DEF IsRed
  <2>2. CASE t \notin {a, b}
    <3>1. \A h \in Red : h \in Seats
      BY HalvesAreSeats
    <3>2. \A h \in Red : new[x].seats[h] = t <=> w[x].seats[h] = t
      <4> HIDE DEF a, b, i, j
      <4>1. \A h \in Red : new[x].seats[h] = w[x].seats[h] \/ new[x].seats[h] = a \/ new[x].seats[h] = b
        BY <1>4, <3>1
      <4>2. \A h \in Red : w[x].seats[h] # new[x].seats[h] => w[x].seats[h] = a \/ w[x].seats[h] = b
        BY <1>1, <1>4, <3>1
      <4> QED BY <2>2, <4>1, <4>2
    <3>3. t \in SideOf(new[x], Red) <=> t \in SideOf(w[x], Red)
      BY <3>2 DEF SideOf
    <3> QED BY <3>3 DEF IsRed
  <2> QED BY <1>10, <2>1, <2>2
<1> DEFINE of(t) == [x \in Plays(new, t) |-> IsRed(new, t, x)]
<1>11. \A t \in Teams \ {a, b} : of(t) = c[t]
  <2> SUFFICES ASSUME NEW t \in Teams \ {a, b} PROVE of(t) = c[t]
    OBVIOUS
  <2>1. c[t] = [x \in Plays(w, t) |-> IsRed(w, t, x)]
    BY DEF Coloured
  <2>2. \A x \in Plays(w, t) : IsRed(new, t, x) = IsRed(w, t, x)
    BY <1>5, <1>10
  <2> HIDE DEF a, b, c
  <2> QED BY <1>7, <2>1, <2>2
<1>12. /\ A = [x \in (Plays(w, a) \ {i}) \cup {j} |-> IF x = j THEN q[2] \in Red ELSE IsRed(w, a, x)]
       /\ Recoloured(c[b], j, i, p[2] \in Red)
            = [x \in (Plays(w, b) \ {j}) \cup {i} |-> IF x = i THEN p[2] \in Red ELSE IsRed(w, b, x)]
  <2>1. /\ c[a] = [x \in Plays(w, a) |-> IsRed(w, a, x)]
        /\ c[b] = [x \in Plays(w, b) |-> IsRed(w, b, x)]
    BY <1>2 DEF Coloured
  <2> HIDE DEF a, b, c, i, j
  <2>2. DOMAIN c[a] = Plays(w, a) /\ DOMAIN c[b] = Plays(w, b)
    BY <2>1
  <2>3. /\ \A x \in (Plays(w, a) \ {i}) \cup {j} : x # j => c[a][x] = IsRed(w, a, x)
        /\ \A x \in (Plays(w, b) \ {j}) \cup {i} : x # i => c[b][x] = IsRed(w, b, x)
    BY <2>1
  <2> QED BY <2>2, <2>3 DEF Recoloured, A
<1>13. of(a) = A
  <2>1. \A x \in (Plays(w, a) \ {i}) \cup {j} : x # j => IsRed(new, a, x) = IsRed(w, a, x)
    <3> SUFFICES ASSUME NEW x \in Plays(w, a), x # i, x # j PROVE IsRed(new, a, x) = IsRed(w, a, x)
      OBVIOUS
    <3> HIDE DEF a, b, i, j
    <3> QED BY <1>2, <1>5, <1>10
  <2> HIDE DEF a, b, i, j, A
  <2> QED BY <1>7, <1>8, <1>12, <2>1
<1>14. of(b) = Recoloured(c[b], j, i, p[2] \in Red)
  <2>1. \A x \in (Plays(w, b) \ {j}) \cup {i} : x # i => IsRed(new, b, x) = IsRed(w, b, x)
    <3> SUFFICES ASSUME NEW x \in Plays(w, b), x # i, x # j PROVE IsRed(new, b, x) = IsRed(w, b, x)
      OBVIOUS
    <3> HIDE DEF a, b, i, j
    <3> QED BY <1>2, <1>5, <1>10
  <2> HIDE DEF a, b, i, j, c
  <2> QED BY <1>7, <1>9, <1>12, <2>1
<1> DEFINE r == Recolours(c, w, p, q)
           B == Recoloured(c[b], j, i, p[2] \in Red)
<1>15. r = [t \in Teams |-> IF t = a THEN A ELSE IF t = b THEN B ELSE c[t]]
  <2>1. r = [c EXCEPT ![a] = A, ![b] = B]
    BY <1>6 DEF Recolours
  <2>2. DOMAIN c = Teams
    BY DEF Coloured
  <2> HIDE DEF a, b, c, A, B, r
  <2> QED BY <1>2, <1>6, <2>1, <2>2
<1>16. \A t \in Teams : of(t) = r[t]
  <2> HIDE DEF a, b, c, A, r, of
  <2> QED BY <1>2, <1>6, <1>11, <1>13, <1>14, <1>15
<1>17. Coloured(new) = [t \in Teams |-> of(t)]
  BY DEF Coloured
<1> HIDE DEF of, r
<1>18. Coloured(new) = r
  BY <1>15, <1>16, <1>17
<1> QED BY <1>18 DEF r, new

\* The tables of the annealing that are those of its schedule.
Tabled(s, w) ==
  /\ s.plays = Built(w).plays /\ s.st = Built(w).st
  /\ s.par = Built(w).par     /\ s.opp = Built(w).opp
  /\ s.colour = Built(w).colour
  /\ s.sur \in [Teams -> Int]

Allied(w, x)  == {i \in DOMAIN w : Partners(w[i], x)}
Opposed(w, x) == {i \in DOMAIN w : Opponents(w[i], x)}
Seated(w, t, k) == {i \in DOMAIN w : w[i].seats[k] = t}

LEMMA SwapKeepsTables ==
  ASSUME NEW D, IsFiniteSet(D), NEW w \in [D -> Matches], NEW s, Tabled(s, w),
         NEW p \in D \X Seats, NEW q \in D \X Seats, p # q, IsValidSwap(w, p, q)
  PROVE  Tabled(SwappedTables(w, s, p, q), Swapped(w, p, q))
<1> DEFINE new == Swapped(w, p, q)
           r == SwappedTables(w, s, p, q)
           T == {p[1], q[1]}
<1>1. /\ new \in [D -> Matches]
      /\ \A x \in D \ T : new[x] = w[x]
      /\ [t \in Teams |-> Plays(new, t)]
              = MovedPlays([t \in Teams |-> Plays(w, t)], w, p, q)
  <2>1. /\ GoodSwap(new, w, D, p, q)
        /\ \A x \in D \ T : new[x] = w[x]
        /\ [t \in Teams |-> Plays(new, t)]
                = MovedPlays([t \in Teams |-> Plays(w, t)], w, p, q)
    BY SwapKeepsLoads
  <2> HIDE DEF new
  <2> QED BY <2>1 DEF GoodSwap
<1>2. T \subseteq D /\ DOMAIN w = D
  OBVIOUS
<1>3. r.plays = Built(new).plays
  BY <1>1 DEF Tabled, Built, SwappedTables, MovedPlays
<1>4. /\ r.par = [x \in Pairs |-> Count(Allied(w, x)) + Count({i \in T : Partners(new[i], x)})
                                  - Count({i \in T : Partners(w[i], x)})]
      /\ r.opp = [x \in Pairs |-> Count(Opposed(w, x)) + Count({i \in T : Opponents(new[i], x)})
                                  - Count({i \in T : Opponents(w[i], x)})]
      /\ r.st = [t \in Teams |-> [k \in Seats |->
                  Count(Seated(w, t, k)) + Count({i \in T : new[i].seats[k] = t})
                                         - Count({i \in T : w[i].seats[k] = t})]]
  <2>1. /\ s.par = [x \in Pairs |-> Count(Allied(w, x))]
        /\ s.opp = [x \in Pairs |-> Count(Opposed(w, x))]
        /\ s.st = [t \in Teams |-> [k \in Seats |-> Count(Seated(w, t, k))]]
    BY DEF Tabled, Built, StationTable, Allied, Opposed, Seated
  <2> QED BY <2>1 DEF SwappedTables, Retabled, Counted
<1>5. /\ Built(new).par = [x \in Pairs |-> Count(Allied(new, x))]
      /\ Built(new).opp = [x \in Pairs |-> Count(Opposed(new, x))]
      /\ Built(new).st = [t \in Teams |-> [k \in Seats |-> Count(Seated(new, t, k))]]
  BY DEF Built, StationTable, Allied, Opposed, Seated
<1> HIDE DEF new, r, T
<1>6. ASSUME NEW x
      PROVE  Count(Allied(new, x))
               = Count(Allied(w, x)) + Count({i \in T : Partners(new[i], x)})
                 - Count({i \in T : Partners(w[i], x)})
  <2> DEFINE A == Allied(w, x)
             B == Allied(new, x)
  <2>1. IsFiniteSet(A) /\ IsFiniteSet(B)
    <3>1. A \in SUBSET D /\ B \in SUBSET D
      BY <1>1 DEF Allied
    <3> QED BY <3>1, CountNat
  <2>2. A \ T = B \ T
    BY <1>1 DEF Allied
  <2>3. B \cap T = {i \in T : Partners(new[i], x)} /\ A \cap T = {i \in T : Partners(w[i], x)}
    BY <1>1, <1>2 DEF Allied
  <2>4. Count(B) = Count(A) + Count(B \cap T) - Count(A \cap T)
    <3>1. SameOutside(A, B, T)
      BY <2>2 DEF SameOutside
    <3> HIDE DEF A, B
    <3>2. ChangedWithin(A, B, T)
      BY <2>1, <3>1, CountChange
    <3> QED BY <3>2 DEF ChangedWithin
  <2> QED BY <2>3, <2>4
<1>7. ASSUME NEW x
      PROVE  Count(Opposed(new, x))
               = Count(Opposed(w, x)) + Count({i \in T : Opponents(new[i], x)})
                 - Count({i \in T : Opponents(w[i], x)})
  <2> DEFINE A == Opposed(w, x)
             B == Opposed(new, x)
  <2>1. IsFiniteSet(A) /\ IsFiniteSet(B)
    <3>1. A \in SUBSET D /\ B \in SUBSET D
      BY <1>1 DEF Opposed
    <3> QED BY <3>1, CountNat
  <2>2. A \ T = B \ T
    BY <1>1 DEF Opposed
  <2>3. B \cap T = {i \in T : Opponents(new[i], x)} /\ A \cap T = {i \in T : Opponents(w[i], x)}
    BY <1>1, <1>2 DEF Opposed
  <2>4. Count(B) = Count(A) + Count(B \cap T) - Count(A \cap T)
    <3>1. SameOutside(A, B, T)
      BY <2>2 DEF SameOutside
    <3> HIDE DEF A, B
    <3>2. ChangedWithin(A, B, T)
      BY <2>1, <3>1, CountChange
    <3> QED BY <3>2 DEF ChangedWithin
  <2> QED BY <2>3, <2>4
<1>8. ASSUME NEW t, NEW k
      PROVE  Count(Seated(new, t, k))
               = Count(Seated(w, t, k)) + Count({i \in T : new[i].seats[k] = t})
                 - Count({i \in T : w[i].seats[k] = t})
  <2> DEFINE A == Seated(w, t, k)
             B == Seated(new, t, k)
  <2>1. IsFiniteSet(A) /\ IsFiniteSet(B)
    <3>1. A \in SUBSET D /\ B \in SUBSET D
      BY <1>1 DEF Seated
    <3> QED BY <3>1, CountNat
  <2>2. A \ T = B \ T
    BY <1>1 DEF Seated
  <2>3. B \cap T = {i \in T : new[i].seats[k] = t} /\ A \cap T = {i \in T : w[i].seats[k] = t}
    BY <1>1, <1>2 DEF Seated
  <2>4. Count(B) = Count(A) + Count(B \cap T) - Count(A \cap T)
    <3>1. SameOutside(A, B, T)
      BY <2>2 DEF SameOutside
    <3> HIDE DEF A, B
    <3>2. ChangedWithin(A, B, T)
      BY <2>1, <3>1, CountChange
    <3> QED BY <3>2 DEF ChangedWithin
  <2> QED BY <2>3, <2>4
<1>9. r.par = Built(new).par
  BY <1>4, <1>5, <1>6
<1>10. r.opp = Built(new).opp
  BY <1>4, <1>5, <1>7
<1>11. r.st = Built(new).st
  <2> DEFINE old(t, k) == Count(Seated(w, t, k)) + Count({i \in T : new[i].seats[k] = t})
                            - Count({i \in T : w[i].seats[k] = t})
             now(t, k) == Count(Seated(new, t, k))
  <2>1. \A t, k : now(t, k) = old(t, k)
    BY <1>8
  <2>2. /\ r.st = [t \in Teams |-> [k \in Seats |-> old(t, k)]]
        /\ Built(new).st = [t \in Teams |-> [k \in Seats |-> now(t, k)]]
    BY <1>4, <1>5
  <2> HIDE DEF old, now
  <2> QED BY <2>1, <2>2
<1>12. r.sur \in [Teams -> Int]
  <2>1. s.sur \in [Teams -> Int] /\ \A x \in BOOLEAN : One(x) \in Int
    BY DEF Tabled, One
  <2>2. TeamAt(w, p) \in Teams /\ TeamAt(w, q) \in Teams
    BY DEF TeamAt, Matches
  <2>3. One(Flag(w, p)) \in Int /\ One(Flag(w, q)) \in Int
    BY DEF One
  <2> DEFINE a == TeamAt(w, p)
             b == TeamAt(w, q)
             e == One(Flag(w, p))
             f == One(Flag(w, q))
  <2>4. r.sur = IF p[1] # q[1] THEN s.sur
                ELSE [s.sur EXCEPT ![a] = @ + f - e, ![b] = @ + e - f]
    BY DEF r, SwappedTables
  <2> HIDE DEF a, b, e, f
  <2>5. CASE p[1] # q[1]
    BY <2>1, <2>4, <2>5
  <2>6. CASE p[1] = q[1]
    <3>1. r.sur = [s.sur EXCEPT ![a] = @ + f - e, ![b] = @ + e - f]
      BY <2>4, <2>6
    <3>2. a \in Teams /\ b \in Teams /\ e \in Int /\ f \in Int
      BY <2>2, <2>3 DEF a, b, e, f
    <3> QED BY <2>1, <3>1, <3>2
  <2> QED BY <2>5, <2>6
<1>13. r.colour = Built(new).colour
  <2>1. r.colour = Recolours(s.colour, w, p, q)
    BY DEF r, SwappedTables, Recolours
  <2>2. s.colour = Coloured(w)
    BY DEF Tabled, Built, Coloured
  <2>3. Coloured(new) = Recolours(Coloured(w), w, p, q)
    BY SwapKeepsColours DEF new
  <2>4. Built(new).colour = Coloured(new)
    BY DEF Built, Coloured
  <2> QED BY <2>1, <2>2, <2>3, <2>4
<1> QED BY <1>3, <1>9, <1>10, <1>11, <1>12, <1>13 DEF Tabled, new, r
-----------------------------------------------------------------------------
\* The objective is a list of six integers.

LEMMA SumOver ==
  ASSUME NEW S, IsFiniteSet(S), NEW f \in [S -> Int]
  PROVE  Sum(f) \in Int
<1>1. DOMAIN f = S /\ \A x \in DOMAIN f : f[x] \in Int
  OBVIOUS
<1> QED BY <1>1, SumIsInt

LEMMA PairsFinite == IsFiniteSet(Pairs)
<1>1. IsFiniteSet(SUBSET Teams)
  BY BoundsAssumption, FS_SUBSET
<1>2. Pairs \in SUBSET (SUBSET Teams)
  BY DEF Pairs, kSubset
<1> QED BY <1>1, <1>2, FS_Subset

LEMMA SpreadIsInt ==
  ASSUME NEW c \in [Seats -> Int]
  PROVE  Spread(c) \in Int
<1> DEFINE S == {c[k] : k \in DOMAIN c}
<1>1. IsFiniteSet(S) /\ S # {} /\ S \subseteq Int
  <2>1. IsFiniteSet(DOMAIN c) /\ DOMAIN c # {}
    BY HalvesAreSeats
  <2> QED BY <2>1, ImageFinite
<1>2. S = {c[k] : k \in Seats}
  OBVIOUS
<1>3. Max(S) \in Int /\ Min(S) \in Int
  <2> HIDE DEF S
  <2> QED BY <1>1, MaxIsIn, MinIsIn
<1> QED BY <1>2, <1>3 DEF Spread

LEMMA ViolationsIsInt ==
  ASSUME NEW D, IsFiniteSet(D), NEW plays \in [Teams -> SUBSET D]
  PROVE  Violations(plays) \in Int
<1> DEFINE f == [t \in Teams |-> TooClose(plays[t])]
<1>1. \A t \in Teams : TooClose(plays[t]) \in Int
  <2> TAKE t \in Teams
  <2> DEFINE S == {i \in plays[t] : \E j \in plays[t] :
                     j > i /\ j - i < Gap /\ \A k \in plays[t] : k <= i \/ k >= j}
  <2>1. S \in SUBSET D
    OBVIOUS
  <2>2. Count(S) \in Nat
    <3> HIDE DEF S
    <3> QED BY <2>1, CountNat
  <2> QED BY <2>2 DEF TooClose
<1>2. f \in [Teams -> Int]
  BY <1>1
<1>3. Sum(f) \in Int
  <2> HIDE DEF f
  <2> QED BY <1>2, SumOver, BoundsAssumption
<1> QED BY <1>3 DEF Violations

LEMMA ColourSwapsIsInt ==
  ASSUME NEW D, IsFiniteSet(D), NEW s, s.plays \in [Teams -> SUBSET D]
  PROVE  ColourSwaps(s) \in Int
<1> DEFINE Swaps(t) == {i \in s.plays[t] : \E j \in s.plays[t] :
                          /\ j > i /\ \A k \in s.plays[t] : k <= i \/ k >= j
                          /\ s.colour[t][i] # s.colour[t][j]}
           f == [t \in Teams |-> Count(Swaps(t))]
<1>1. \A t \in Teams : Count(Swaps(t)) \in Int
  <2> TAKE t \in Teams
  <2>1. Swaps(t) \in SUBSET D
    OBVIOUS
  <2> HIDE DEF Swaps
  <2> QED BY <2>1, CountNat
<1>2. f \in [Teams -> Int]
  <2> HIDE DEF Swaps
  <2> QED BY <1>1
<1>3. Sum(f) \in Int
  <2> HIDE DEF f
  <2> QED BY <1>2, SumOver, BoundsAssumption
<1> QED BY <1>3 DEF ColourSwaps

LEMMA SquaresIsInt ==
  ASSUME NEW table \in [Pairs -> Int]
  PROVE  Squares(table) \in Int
<1> DEFINE f == [p \in DOMAIN table |-> table[p] * table[p]]
<1>1. f \in [Pairs -> Int]
  OBVIOUS
<1>2. Sum(f) \in Int
  <2> HIDE DEF f
  <2> QED BY <1>1, SumOver, PairsFinite
<1> QED BY <1>2 DEF Squares

LEMMA ImbalanceIsInt ==
  ASSUME NEW st \in [Teams -> [Seats -> Int]]
  PROVE  Imbalance(st) \in [Teams -> Int] /\ Max({Imbalance(st)[t] : t \in Teams}) \in Int
<1>1. ASSUME NEW t \in Teams, NEW half \in {Red, Blue}
      PROVE  Sum([k \in half |-> st[t][k]]) \in Int
  <2> DEFINE f == [k \in half |-> st[t][k]]
  <2>1. half \in SUBSET Seats
    BY HalvesAreSeats
  <2>2. f \in [half -> Int] /\ IsFiniteSet(half)
    BY <2>1, HalvesAreSeats, FS_Subset
  <2> HIDE DEF f
  <2>3. Sum(f) \in Int
    BY <2>2, SumOver
  <2> QED BY <2>3 DEF f
<1> DEFINE c == Imbalance(st)
           S == {c[t] : t \in DOMAIN c}
<1>2. c \in [Teams -> Int]
  <2>1. \A t \in Teams : Sum([k \in Red |-> st[t][k]]) \in Int /\ Sum([k \in Blue |-> st[t][k]]) \in Int
    BY <1>1
  <2>2. \A x, y \in Int : Abs(x - y) \in Int
    BY DEF Abs
  <2> QED BY <2>1, <2>2 DEF Imbalance
<1> HIDE DEF c
<1>3. IsFiniteSet(S) /\ S # {} /\ S \subseteq Int
  BY <1>2, BoundsAssumption, ImageFinite
<1>4. S = {c[t] : t \in Teams}
  BY <1>2
<1>5. Max(S) \in Int
  <2> HIDE DEF S
  <2> QED BY <1>3, MaxIsIn
<1> QED BY <1>2, <1>4, <1>5 DEF c

LEMMA PenaltyIsInt ==
  ASSUME NEW st \in [Teams -> [Seats -> Int]]
  PROVE  StationPenalty(st) \in Int
<1> DEFINE f == [t \in Teams |-> Spread(st[t])]
<1>1. f \in [Teams -> Int]
  BY SpreadIsInt
<1>2. Sum(f) \in Int
  <2> HIDE DEF f
  <2> QED BY <1>1, SumOver, BoundsAssumption
<1> QED BY <1>2 DEF StationPenalty

LEMMA BuiltTyped ==
  ASSUME NEW D, IsFiniteSet(D), NEW w \in [D -> Matches]
  PROVE  /\ Built(w).plays \in [Teams -> SUBSET D]
         /\ Built(w).par \in [Pairs -> Int]
         /\ Built(w).opp \in [Pairs -> Int]
         /\ Built(w).st \in [Teams -> [Seats -> Int]]
         /\ Built(w).st = StationTable(w)
         /\ Built(w).sur \in [Teams -> Int]
<1>1. \A S \in SUBSET D : Count(S) \in Int
  BY CountNat
<1>2. /\ \A t \in Teams : Plays(w, t) \in SUBSET D /\ {i \in DOMAIN w : t \in w[i].sur} \in SUBSET D
      /\ \A x \in Pairs : /\ {i \in DOMAIN w : Partners(w[i], x)} \in SUBSET D
                          /\ {i \in DOMAIN w : Opponents(w[i], x)} \in SUBSET D
      /\ \A t \in Teams, k \in Seats : {i \in DOMAIN w : w[i].seats[k] = t} \in SUBSET D
  BY DEF Plays
<1> QED BY <1>1, <1>2 DEF Built, StationTable

\* s is a list of six integers, whose first five are those given.
SixOf(s, a, b, c, d, e) ==
  /\ s \in [1 .. 6 -> Int]
  /\ SubSeq(s, 1, 5) = <<a, b, c, d, e>>
  /\ SubSeq(s, 1, 5) = [i \in 1 .. 5 |-> s[i]]
  /\ s[1] = a

LEMMA SixIntegers ==
  ASSUME NEW a \in Int, NEW b \in Int, NEW c \in Int, NEW d \in Int, NEW e \in Int, NEW f \in Int
  PROVE  SixOf(<<a, b, c, d, e, f>>, a, b, c, d, e)
<1> DEFINE s == <<a, b, c, d, e, f>>
<1>1. s \in [1 .. 6 -> Int] /\ s \in Seq(Int) /\ s[1] = a /\ s[2] = b /\ s[3] = c /\ s[4] = d /\ s[5] = e
  OBVIOUS
<1>2. SubSeq(s, 1, 5) = [i \in 1 .. 5 |-> s[i]]
  BY <1>1
<1>3. <<a, b, c, d, e>> = [i \in 1 .. 5 |-> s[i]]
  BY <1>1
<1> QED BY <1>1, <1>2, <1>3 DEF SixOf

\* The first five criteria are those of the schedule whenever the tables are;
\* the sixth is read from the surrogate table, which may drift from the flags.
LEMMA ScoreOfTables ==
  ASSUME NEW D, IsFiniteSet(D), NEW w \in [D -> Matches], NEW s, Tabled(s, w)
  PROVE  /\ Score(s) \in [1 .. 6 -> Int]
         /\ Strict(w) \in [1 .. 5 -> Int]
         /\ Strict(w) = [i \in 1 .. 5 |-> Score(s)[i]]
         /\ Score(s)[1] = Violations(Built(w).plays)
<1> DEFINE b == Built(w)
           First == Violations(b.plays)
           Second == Squares(b.par)
           Third == Squares(b.opp)
           Fourth == IF Cardinality(Teams) >= LargeEvent
                     THEN Max({Imbalance(b.st)[t] : t \in Teams}) ELSE ColourSwaps(b)
           Fifth == Sum([t \in Teams |-> Spread(b.st[t])])
           Sixth(r) == Cardinality(Teams) * Sum([t \in Teams |-> r.sur[t] * r.sur[t]])
                         - Sum(r.sur) * Sum(r.sur)
<1>1. /\ First \in Int /\ Second \in Int /\ Third \in Int /\ Fourth \in Int /\ Fifth \in Int
  <2>1. First \in Int
    BY BuiltTyped, ViolationsIsInt
  <2>2. Second \in Int /\ Third \in Int
    BY BuiltTyped, SquaresIsInt
  <2>3. Fourth \in Int
    <3>1. b.st \in [Teams -> [Seats -> Int]] /\ ColourSwaps(b) \in Int
      BY BuiltTyped, ColourSwapsIsInt
    <3> HIDE DEF b
    <3>2. Max({Imbalance(b.st)[t] : t \in Teams}) \in Int
      BY <3>1, ImbalanceIsInt
    <3> QED BY <3>1, <3>2
  <2>4. Fifth \in Int
    BY BuiltTyped, PenaltyIsInt DEF StationPenalty
  <2> QED BY <2>1, <2>2, <2>3, <2>4
<1>2. ASSUME NEW r, r.sur \in [Teams -> Int] PROVE Sixth(r) \in Int
  <2> DEFINE f == [t \in Teams |-> r.sur[t] * r.sur[t]]
  <2>1. f \in [Teams -> Int]
    BY <1>2
  <2>2. Sum(f) \in Int /\ Sum(r.sur) \in Int
    <3> HIDE DEF f
    <3> QED BY <1>2, <2>1, SumOver, BoundsAssumption
  <2>3. Cardinality(Teams) \in Int
    BY BoundsAssumption, FS_CardinalityType
  <2> QED BY <2>2, <2>3
<1> DEFINE u == Sixth(s)
           v == Sixth(b)
           x == <<First, Second, Third, Fourth, Fifth, u>>
           y == <<First, Second, Third, Fourth, Fifth, v>>
<1>3. u \in Int /\ v \in Int
  BY <1>2, BuiltTyped DEF Tabled
<1>4. Score(s) = x /\ Score(b) = y
  <2>1. ColourSwaps(s) = ColourSwaps(b)
    BY DEF Tabled, ColourSwaps
  <2> QED BY <2>1 DEF Tabled, Score
<1> HIDE DEF First, Second, Third, Fourth, Fifth, u, v
<1>5. /\ SixOf(x, First, Second, Third, Fourth, Fifth)
      /\ SixOf(y, First, Second, Third, Fourth, Fifth)
  BY <1>1, <1>3, SixIntegers
<1> HIDE DEF x, y
<1>6. /\ x \in [1 .. 6 -> Int] /\ SubSeq(x, 1, 5) = SubSeq(y, 1, 5)
      /\ SubSeq(x, 1, 5) = [i \in 1 .. 5 |-> x[i]]
      /\ x[1] = First
  BY <1>5 DEF SixOf
<1>7. Strict(w) = SubSeq(x, 1, 5)
  BY <1>4, <1>6 DEF Strict
<1>8. [i \in 1 .. 5 |-> x[i]] \in [1 .. 5 -> Int]
  BY <1>6
<1> QED BY <1>4, <1>6, <1>7, <1>8 DEF First

-----------------------------------------------------------------------------
\* The post passes: turning a match round, or permuting one alliance.

\* A match with the same teams on the same sides, the sides perhaps swapped.
SameMatch(n, m) ==
  /\ n \in Matches /\ n.sur = m.sur /\ InMatch(n) = InMatch(m)
  /\ {SideOf(n, Red), SideOf(n, Blue)} = {SideOf(m, Red), SideOf(m, Blue)}

LEMMA SidesAreApart ==
  ASSUME NEW m \in Matches
  PROVE  /\ InMatch(m) = SideOf(m, Red) \cup SideOf(m, Blue)
         /\ SideOf(m, Red) \cap SideOf(m, Blue) = {}
<1>1. /\ m.seats \in [Seats -> Teams] /\ \A x, y \in Seats : m.seats[x] = m.seats[y] => x = y
  BY DEF Matches, IsInjective
<1> QED BY <1>1, HalvesAreSeats DEF InMatch, SideOf

LEMMA FlipSwapsSides ==
  ASSUME NEW m \in Matches
  PROVE  /\ SameMatch(Flipped(m), m)
         /\ SideOf(Flipped(m), Red) = SideOf(m, Blue)
         /\ SideOf(Flipped(m), Blue) = SideOf(m, Red)
<1> DEFINE n == Flipped(m)
<1>1. /\ m.seats \in [Seats -> Teams] /\ m.sur \in SUBSET Teams
      /\ m = [seats |-> m.seats, sur |-> m.sur]
      /\ \A x, y \in Seats : m.seats[x] = m.seats[y] => x = y
      /\ m.sur \subseteq InMatch(m)
  BY DEF Matches, IsInjective
<1>2. /\ n.seats = [k \in Seats |-> IF k \in Red THEN m.seats[k + Alliance] ELSE m.seats[k - Alliance]]
      /\ n.sur = m.sur /\ n = [seats |-> n.seats, sur |-> n.sur]
  BY <1>1 DEF Flipped
<1> HIDE DEF n
<1>3. Alliance \in Nat /\ Seats \subseteq Nat
  BY BoundsAssumption DEF Seats
<1>4. /\ \A k \in Red : k \in Seats /\ k + Alliance \in Blue /\ n.seats[k] = m.seats[k + Alliance]
                        /\ (k + Alliance) - Alliance = k
      /\ \A k \in Blue : k \in Seats /\ k - Alliance \in Red /\ n.seats[k] = m.seats[k - Alliance]
                        /\ (k - Alliance) + Alliance = k
  BY <1>2, <1>3, HalvesAreSeats
<1>5. SideOf(n, Red) = SideOf(m, Blue)
  <2>1. \A k \in Red : \E l \in Blue : n.seats[k] = m.seats[l]
    BY <1>4
  <2>2. \A l \in Blue : \E k \in Red : n.seats[k] = m.seats[l]
    BY <1>4
  <2> QED BY <2>1, <2>2 DEF SideOf
<1>6. SideOf(n, Blue) = SideOf(m, Red)
  <2>1. \A k \in Blue : \E l \in Red : n.seats[k] = m.seats[l]
    BY <1>4
  <2>2. \A l \in Red : \E k \in Blue : n.seats[k] = m.seats[l]
    BY <1>4
  <2> QED BY <2>1, <2>2 DEF SideOf
<1>7. InMatch(n) = SideOf(n, Red) \cup SideOf(n, Blue)
  BY HalvesAreSeats DEF InMatch, SideOf
<1>8. InMatch(n) = InMatch(m)
  BY <1>5, <1>6, <1>7, SidesAreApart
<1>9. n.seats \in [Seats -> Teams]
  BY <1>1, <1>2, <1>4, HalvesAreSeats
<1>10. IsInjective(n.seats)
  <2>1. \A x, y \in Seats : n.seats[x] = n.seats[y] => x = y
    <3> SUFFICES ASSUME NEW x \in Seats, NEW y \in Seats, n.seats[x] = n.seats[y] PROVE x = y
      OBVIOUS
    <3>1. CASE x \in Red /\ y \in Red
      BY <1>1, <1>3, <1>4, <3>1, HalvesAreSeats
    <3>2. CASE x \in Blue /\ y \in Blue
      BY <1>1, <1>3, <1>4, <3>2, HalvesAreSeats
    <3>3. CASE (x \in Red /\ y \in Blue) \/ (x \in Blue /\ y \in Red)
      BY <1>1, <1>4, <3>3, HalvesAreSeats
    <3> QED BY <3>1, <3>2, <3>3, HalvesAreSeats
  <2> QED BY <1>9, <2>1 DEF IsInjective
<1>11. n \in Matches
  BY <1>1, <1>2, <1>8, <1>9, <1>10 DEF Matches
<1> QED BY <1>2, <1>5, <1>6, <1>8, <1>11 DEF SameMatch, n

LEMMA ReseatKeepsSides ==
  ASSUME NEW m \in Matches, NEW half \in {Red, Blue}, NEW f \in Reseatings(half)
  PROVE  /\ SameMatch(Reseated(m, f), m)
         /\ DOMAIN f = half
         /\ \A k \in half : f[k] \in half /\ f[k] \in Seats
<1> DEFINE n == Reseated(m, f)
<1>1. /\ m.seats \in [Seats -> Teams] /\ m.sur \in SUBSET Teams
      /\ m = [seats |-> m.seats, sur |-> m.sur]
      /\ \A x, y \in Seats : m.seats[x] = m.seats[y] => x = y
      /\ m.sur \subseteq InMatch(m)
  BY DEF Matches, IsInjective
<1>2. f \in [half -> half] /\ half \subseteq Seats /\ IsFiniteSet(half)
      /\ \A k \in half : \E j \in half : f[j] = k
  <2>1. half \in SUBSET Seats
    BY HalvesAreSeats
  <2>2. IsFiniteSet(half)
    BY <2>1, HalvesAreSeats, FS_Subset
  <2> QED BY <2>1, <2>2 DEF Reseatings
<1>3. \A x, y \in half : f[x] = f[y] => x = y
  <2>1. f \in Surjection(half, half)
    BY <1>2 DEF Surjection
  <2>2. f \in Injection(half, half)
    BY <1>2, <2>1, FS_SurjSameCardinalityImpliesInj
  <2> QED BY <2>2 DEF Injection, IsInjective
<1>4. /\ n.seats = [k \in Seats |-> IF k \in half THEN m.seats[f[k]] ELSE m.seats[k]]
      /\ n.sur = m.sur /\ n = [seats |-> n.seats, sur |-> n.sur]
  BY <1>1, <1>2 DEF Reseated
<1> HIDE DEF n
<1>5. n.seats \in [Seats -> Teams]
  BY <1>1, <1>2, <1>4
<1>6. \A x, y \in Seats : n.seats[x] = n.seats[y] => x = y
  <2> SUFFICES ASSUME NEW x \in Seats, NEW y \in Seats, n.seats[x] = n.seats[y] PROVE x = y
    OBVIOUS
  <2>1. CASE x \in half /\ y \in half
    BY <1>1, <1>2, <1>3, <1>4, <2>1
  <2>2. CASE x \in half /\ y \notin half
    BY <1>1, <1>2, <1>4, <2>2
  <2>3. CASE x \notin half /\ y \in half
    BY <1>1, <1>2, <1>4, <2>3
  <2>4. CASE x \notin half /\ y \notin half
    BY <1>1, <1>4, <2>4
  <2> QED BY <2>1, <2>2, <2>3, <2>4
<1>7. SideOf(n, half) = SideOf(m, half)
  <2>1. \A k \in half : n.seats[k] = m.seats[f[k]] /\ f[k] \in half
    BY <1>2, <1>4
  <2>2. \A k \in half : \E j \in half : n.seats[j] = m.seats[k]
    BY <1>2, <2>1
  <2> QED BY <2>1, <2>2 DEF SideOf
<1>8. ASSUME NEW other \in {Red, Blue}, other # half PROVE SideOf(n, other) = SideOf(m, other)
  <2>1. \A k \in other : n.seats[k] = m.seats[k]
    <3>1. other \cap half = {} /\ other \subseteq Seats
      BY <1>8, HalvesAreSeats
    <3> QED BY <1>4, <3>1
  <2> QED BY <2>1 DEF SideOf
<1>9. SideOf(n, Red) = SideOf(m, Red) /\ SideOf(n, Blue) = SideOf(m, Blue)
  BY <1>7, <1>8
<1>10. InMatch(n) = InMatch(m)
  <2>1. InMatch(n) = SideOf(n, Red) \cup SideOf(n, Blue)
    BY HalvesAreSeats DEF InMatch, SideOf
  <2> QED BY <1>9, <2>1, SidesAreApart
<1>11. n \in Matches
  BY <1>1, <1>4, <1>5, <1>6, <1>10 DEF Matches, IsInjective
<1> QED BY <1>2, <1>4, <1>9, <1>10, <1>11 DEF SameMatch, n

\* A schedule whose matches are the same up to sides and seats.
LEMMA SameMatches ==
  ASSUME NEW D, NEW v, DOMAIN v = D, NEW w \in [D -> Matches], v = [i \in D |-> v[i]],
         \A i \in D : SameMatch(v[i], w[i])
  PROVE  v \in [D -> Matches] /\ Encounters(v) = Encounters(w)
<1>1. v \in [D -> Matches]
  BY DEF SameMatch
<1>2. \A i \in D : /\ {SideOf(v[i], Red), SideOf(v[i], Blue)} = {SideOf(w[i], Red), SideOf(w[i], Blue)}
                   /\ v[i].sur = w[i].sur
  BY DEF SameMatch
<1> QED BY <1>1, <1>2 DEF Encounters

LEMMA EncountersFix ==
  ASSUME NEW D, NEW v \in [D -> Matches], NEW w \in [D -> Matches], Encounters(v) = Encounters(w)
  PROVE  SameLoads(v, w) /\ Built(v).plays = Built(w).plays
<1>1. ASSUME NEW i \in D PROVE InMatch(v[i]) = InMatch(w[i]) /\ v[i].sur = w[i].sur
  <2>1. Encounters(v)[i] = Encounters(w)[i]
    OBVIOUS
  <2>2. /\ {SideOf(v[i], Red), SideOf(v[i], Blue)} = {SideOf(w[i], Red), SideOf(w[i], Blue)}
        /\ v[i].sur = w[i].sur
    BY <2>1 DEF Encounters
  <2>3. SideOf(v[i], Red) \cup SideOf(v[i], Blue) = SideOf(w[i], Red) \cup SideOf(w[i], Blue)
    BY <2>2
  <2>4. v[i] \in Matches /\ w[i] \in Matches
    OBVIOUS
  <2> QED BY <2>2, <2>3, <2>4, SidesAreApart
<1>2. \A t \in Teams : Plays(v, t) = Plays(w, t) /\ SurrogateIn(v, t) = SurrogateIn(w, t)
  BY <1>1 DEF Plays, SurrogateIn
<1> QED BY <1>2 DEF SameLoads, Built

LEMMA CountOne ==
  ASSUME NEW i
  PROVE  IsFiniteSet({i}) /\ Count({i}) = 1 /\ Count({}) = 0
BY FS_Singleton, FS_EmptySet DEF Count

RedIn(w, t)  == {i \in Plays(w, t) : IsRed(w, t, i)}
BlueIn(w, t) == {i \in Plays(w, t) : ~IsRed(w, t, i)}

LEMMA LeanIsInt ==
  ASSUME NEW D, IsFiniteSet(D), NEW w \in [D -> Matches]
  PROVE  /\ Lean(w) \in [Teams -> Int]
         /\ Lean(w) = [t \in Teams |-> Count(RedIn(w, t)) - Count(BlueIn(w, t))]
         /\ \A t \in Teams : IsFiniteSet(RedIn(w, t)) /\ IsFiniteSet(BlueIn(w, t))
                             /\ Count(RedIn(w, t)) \in Nat /\ Count(BlueIn(w, t)) \in Nat
<1>1. \A t \in Teams : RedIn(w, t) \in SUBSET D /\ BlueIn(w, t) \in SUBSET D
  BY DEF RedIn, BlueIn, Plays
<1>2. \A t \in Teams : IsFiniteSet(RedIn(w, t)) /\ IsFiniteSet(BlueIn(w, t))
                       /\ Count(RedIn(w, t)) \in Nat /\ Count(BlueIn(w, t)) \in Nat
  BY <1>1, CountNat
<1>3. Lean(w) = [t \in Teams |-> Count(RedIn(w, t)) - Count(BlueIn(w, t))]
  BY DEF Lean, RedIn, BlueIn
<1> QED BY <1>2, <1>3

LEMMA TotalLeanIsInt ==
  ASSUME NEW lean \in [Teams -> Int]
  PROVE  TotalLean(lean) \in Int
<1> DEFINE f == [t \in Teams |-> Abs(lean[t])]
<1>1. f \in [Teams -> Int]
  BY DEF Abs
<1>2. Sum(f) \in Int
  <2> HIDE DEF f
  <2> QED BY <1>1, SumOver, BoundsAssumption
<1> QED BY <1>2 DEF TotalLean

TurnedAt(w, i)      == [w EXCEPT ![i] = Flipped(@)]
ReseatedAt(w, i, f) == [w EXCEPT ![i] = Reseated(@, f)]

LEMMA FlipKeepsLean ==
  ASSUME NEW D, IsFiniteSet(D), NEW w \in [D -> Matches], NEW i \in D
  PROVE  /\ TurnedAt(w, i) \in [D -> Matches] /\ Encounters(TurnedAt(w, i)) = Encounters(w)
         /\ Lean(TurnedAt(w, i)) = LeanAfter(Lean(w), w[i])
<1> DEFINE new == [w EXCEPT ![i] = Flipped(@)]
<1>1. w[i] \in Matches
  OBVIOUS
<1>2. /\ SameMatch(Flipped(w[i]), w[i])
      /\ SideOf(Flipped(w[i]), Red) = SideOf(w[i], Blue)
      /\ SideOf(Flipped(w[i]), Blue) = SideOf(w[i], Red)
  BY <1>1, FlipSwapsSides
<1>3. DOMAIN new = D /\ new = [j \in D |-> new[j]] /\ new[i] = Flipped(w[i])
      /\ \A j \in D \ {i} : new[j] = w[j]
  OBVIOUS
<1> HIDE DEF new
<1>4. \A j \in D : SameMatch(new[j], w[j])
  BY <1>2, <1>3 DEF SameMatch
<1>5. new \in [D -> Matches] /\ Encounters(new) = Encounters(w)
  BY <1>3, <1>4, SameMatches
<1>6. ASSUME NEW t \in Teams
      PROVE  Count(RedIn(new, t)) - Count(BlueIn(new, t)) = LeanAfter(Lean(w), w[i])[t]
  <2> DEFINE a == RedIn(w, t)
             b == BlueIn(w, t)
             c == RedIn(new, t)
             d == BlueIn(new, t)
  <2>1. /\ IsFiniteSet(a) /\ IsFiniteSet(b) /\ IsFiniteSet(c) /\ IsFiniteSet(d)
        /\ Count(a) \in Nat /\ Count(b) \in Nat /\ Count(c) \in Nat /\ Count(d) \in Nat
        /\ Lean(w)[t] = Count(a) - Count(b)
    BY <1>5, LeanIsInt
  <2>2. /\ InMatch(w[i]) = SideOf(w[i], Red) \cup SideOf(w[i], Blue)
        /\ SideOf(w[i], Red) \cap SideOf(w[i], Blue) = {}
        /\ InMatch(new[i]) = InMatch(w[i])
        /\ SideOf(new[i], Red) = SideOf(w[i], Blue)
    BY <1>1, <1>2, <1>3, SidesAreApart DEF SameMatch
  <2>3. /\ i \in a <=> t \in SideOf(w[i], Red)
        /\ i \in b <=> t \in SideOf(w[i], Blue)
        /\ i \in c <=> t \in SideOf(w[i], Blue)
        /\ i \in d <=> t \in SideOf(w[i], Red)
    BY <1>3, <2>2 DEF RedIn, BlueIn, Plays, IsRed
  <2>4. a \ {i} = c \ {i} /\ b \ {i} = d \ {i}
    BY <1>3 DEF RedIn, BlueIn, Plays, IsRed
  <2>5. LeanAfter(Lean(w), w[i])[t]
          = Lean(w)[t] + CASE t \in SideOf(w[i], Red)  -> -2
                           [] t \in SideOf(w[i], Blue) -> 2
                           [] OTHER -> 0
    BY DEF LeanAfter
  <2> HIDE DEF a, b, c, d
  <2>6. /\ Count(c) = Count(a) + Count(c \cap {i}) - Count(a \cap {i})
        /\ Count(d) = Count(b) + Count(d \cap {i}) - Count(b \cap {i})
    <3>1. SameOutside(a, c, {i}) /\ SameOutside(b, d, {i})
      BY <2>4 DEF SameOutside
    <3>2. ChangedWithin(a, c, {i}) /\ ChangedWithin(b, d, {i})
      BY <2>1, <3>1, CountChange
    <3> QED BY <3>2 DEF ChangedWithin
  <2>7. ASSUME NEW S PROVE Count(S \cap {i}) = IF i \in S THEN 1 ELSE 0
    <3>1. S \cap {i} = IF i \in S THEN {i} ELSE {}
      OBVIOUS
    <3> QED BY <3>1, CountOne
  <2>8. CASE t \in SideOf(w[i], Red)
    <3>1. i \in a /\ i \notin b /\ i \notin c /\ i \in d
      BY <2>2, <2>3, <2>8
    <3>2. LeanAfter(Lean(w), w[i])[t] = Lean(w)[t] - 2
      <4> DEFINE e == CASE t \in SideOf(w[i], Red)  -> -2
                        [] t \in SideOf(w[i], Blue) -> 2
                        [] OTHER -> 0
      <4>1. e = -2
        BY <2>2, <2>8
      <4>2. LeanAfter(Lean(w), w[i])[t] = Lean(w)[t] + e
        BY <2>5
      <4>3. Lean(w)[t] \in Int
        BY <2>1
      <4> HIDE DEF e
      <4> QED BY <4>1, <4>2, <4>3
    <3> QED BY <2>1, <2>6, <2>7, <3>1, <3>2 DEF c, d
  <2>9. CASE t \in SideOf(w[i], Blue)
    <3>1. i \notin a /\ i \in b /\ i \in c /\ i \notin d
      BY <2>2, <2>3, <2>9
    <3>2. LeanAfter(Lean(w), w[i])[t] = Lean(w)[t] + 2
      BY <2>2, <2>5, <2>9
    <3> QED BY <2>1, <2>6, <2>7, <3>1, <3>2 DEF c, d
  <2>10. CASE t \notin SideOf(w[i], Red) /\ t \notin SideOf(w[i], Blue)
    <3>1. i \notin a /\ i \notin b /\ i \notin c /\ i \notin d
      BY <2>3, <2>10
    <3>2. LeanAfter(Lean(w), w[i])[t] = Lean(w)[t] + 0
      BY <2>5, <2>10
    <3> QED BY <2>1, <2>6, <2>7, <3>1, <3>2 DEF c, d
  <2> QED BY <2>8, <2>9, <2>10
<1>7. Lean(new) = [t \in Teams |-> Count(RedIn(new, t)) - Count(BlueIn(new, t))]
  BY <1>5, LeanIsInt
<1>8. LeanAfter(Lean(w), w[i]) = [t \in Teams |-> LeanAfter(Lean(w), w[i])[t]]
  BY DEF LeanAfter
<1>9. Lean(new) = LeanAfter(Lean(w), w[i])
  BY <1>6, <1>7, <1>8
<1> QED BY <1>5, <1>9 DEF new, TurnedAt

LEMMA ReseatKeepsStations ==
  ASSUME NEW D, IsFiniteSet(D), NEW w \in [D -> Matches], NEW i \in D,
         NEW half \in {Red, Blue}, NEW f \in Reseatings(half)
  PROVE  /\ ReseatedAt(w, i, f) \in [D -> Matches]
         /\ Encounters(ReseatedAt(w, i, f)) = Encounters(w)
         /\ StationTable(ReseatedAt(w, i, f)) = StationsAfter(StationTable(w), w[i], f)
<1> DEFINE new == [w EXCEPT ![i] = Reseated(@, f)]
<1>1. w[i] \in Matches
  OBVIOUS
<1>2. /\ SameMatch(Reseated(w[i], f), w[i]) /\ DOMAIN f = half
      /\ \A k \in half : f[k] \in half /\ f[k] \in Seats
  BY <1>1, ReseatKeepsSides
<1>3. /\ DOMAIN new = D /\ new = [j \in D |-> new[j]] /\ new[i] = Reseated(w[i], f)
      /\ \A j \in D \ {i} : new[j] = w[j]
  OBVIOUS
<1> HIDE DEF new
<1>4. new \in [D -> Matches] /\ Encounters(new) = Encounters(w)
  <2>1. \A j \in D : SameMatch(new[j], w[j])
    BY <1>2, <1>3 DEF SameMatch
  <2> QED BY <1>3, <2>1, SameMatches
<1>5. \A k \in Seats : new[i].seats[k] = IF k \in half THEN w[i].seats[f[k]] ELSE w[i].seats[k]
  <2>1. new[i].seats = [k \in Seats |-> IF k \in half THEN w[i].seats[f[k]] ELSE w[i].seats[k]]
    BY <1>1, <1>2, <1>3 DEF Reseated, Matches
  <2> QED BY <2>1
<1>6. ASSUME NEW t \in Teams, NEW k \in Seats
      PROVE  Count(Seated(new, t, k)) = StationsAfter(StationTable(w), w[i], f)[t][k]
  <2> DEFINE a == Seated(w, t, k)
             b == Seated(new, t, k)
             e == One(new[i].seats[k] = t)
             g == One(w[i].seats[k] = t)
  <2>1. IsFiniteSet(a) /\ IsFiniteSet(b) /\ Count(a) \in Nat /\ Count(b) \in Nat
    <3>1. a \in SUBSET D /\ b \in SUBSET D
      BY <1>4 DEF Seated
    <3> QED BY <3>1, CountNat
  <2>2. a \ {i} = b \ {i}
    BY <1>3 DEF Seated
  <2>3. (i \in a <=> w[i].seats[k] = t) /\ (i \in b <=> new[i].seats[k] = t)
    BY <1>3 DEF Seated
  <2>4. StationsAfter(StationTable(w), w[i], f)[t][k]
          = Count(a) + (IF k \in half THEN One(w[i].seats[f[k]] = t) - One(w[i].seats[k] = t) ELSE 0)
    BY <1>2 DEF StationsAfter, StationTable, Seated
  <2>5. e \in Int /\ g \in Int
    BY DEF One
  <2>6. StationsAfter(StationTable(w), w[i], f)[t][k] = Count(a) + e - g
    <3>1. CASE k \in half
      <4>1. new[i].seats[k] = w[i].seats[f[k]]
        BY <1>5, <3>1
      <4>2. StationsAfter(StationTable(w), w[i], f)[t][k] = Count(a) + (e - g)
        BY <2>4, <3>1, <4>1
      <4> HIDE DEF a, e, g
      <4> QED BY <2>1, <2>5, <4>2
    <3>2. CASE k \notin half
      <4>1. new[i].seats[k] = w[i].seats[k]
        BY <1>5, <3>2
      <4>2. StationsAfter(StationTable(w), w[i], f)[t][k] = Count(a) + 0 /\ e = g
        BY <2>4, <3>2, <4>1
      <4> HIDE DEF a, e, g
      <4> QED BY <2>1, <2>5, <4>2
    <3> QED BY <3>1, <3>2
  <2>7. ASSUME NEW S PROVE Count(S \cap {i}) = IF i \in S THEN 1 ELSE 0
    <3>1. S \cap {i} = IF i \in S THEN {i} ELSE {}
      OBVIOUS
    <3> QED BY <3>1, CountOne
  <2>8. Count(a \cap {i}) = g /\ Count(b \cap {i}) = e
    BY <2>3, <2>7 DEF One
  <2>9. Count(b) = Count(a) + Count(b \cap {i}) - Count(a \cap {i})
    <3>1. SameOutside(a, b, {i})
      BY <2>2 DEF SameOutside
    <3> HIDE DEF a, b, e, g
    <3>2. ChangedWithin(a, b, {i})
      BY <2>1, <3>1, CountChange
    <3> QED BY <3>2 DEF ChangedWithin
  <2> QED BY <2>6, <2>8, <2>9
<1>7. StationTable(new) = StationsAfter(StationTable(w), w[i], f)
  BY <1>6 DEF StationTable, StationsAfter, Seated
<1> QED BY <1>4, <1>7 DEF new, ReseatedAt

-----------------------------------------------------------------------------
\* The inductive invariant.

\* The best snapshot is kept as carefully as the schedule at work.
Books ==
  /\ start \in Starts
  /\ work \in [DOMAIN start -> Matches]      /\ SameLoads(work, start)
  /\ best.work \in [DOMAIN start -> Matches] /\ SameLoads(best.work, start)

\* The tracked objectives are those of the schedules, on the first five
\* criteria, and the best is at most the input and at most the current one.
Annealing ==
  /\ Tabled(tables, work)
  /\ cur \in [1 .. 6 -> Int] /\ Strict(work) = [i \in 1 .. 5 |-> cur[i]]
  /\ best.score \in [1 .. 6 -> Int] /\ Strict(best.work) = [i \in 1 .. 5 |-> best.score[i]]
  /\ LexAtMost(Strict(best.work), Strict(start))
  /\ LexAtMost(best.score, cur)

Balancing ==
  /\ phase = "rb" => /\ tables = Lean(work) /\ cur = TotalLean(tables)
                     /\ best.score = TotalLean(Lean(best.work)) /\ best.score <= cur
  /\ phase = "station" => /\ tables = StationTable(work) /\ cur = StationPenalty(tables)
                          /\ best.score = StationPenalty(StationTable(best.work))
                          /\ best.score <= cur

IInv ==
  /\ phase \in {"sa", "rb", "station", "polish", "polish2", "done"}
  /\ Books
  /\ phase = "sa" => Annealing
  /\ phase # "sa" => Encounters(best.work) = Encounters(work)
  /\ Balancing

LEMMA StartIsSchedule ==
  ASSUME start \in Starts
  PROVE  IsFiniteSet(DOMAIN start) /\ start \in [DOMAIN start -> Matches]
<1>1. start \in Seq(Matches)
  BY StartsAssumption
<1>2. Len(start) \in Nat /\ start \in [1 .. Len(start) -> Matches]
  BY <1>1
<1>3. DOMAIN start = 1 .. Len(start) /\ IsFiniteSet(1 .. Len(start))
  BY <1>2, FS_Interval
<1> QED BY <1>2, <1>3

LEMMA SameLoadsTransitive ==
  ASSUME NEW u, NEW v, NEW w, SameLoads(u, v), SameLoads(v, w)
  PROVE  SameLoads(u, w)
BY DEF SameLoads

LEMMA SameLoadsReflexive == ASSUME NEW w PROVE SameLoads(w, w)
BY DEF SameLoads

LEMMA InitHolds == Init => IInv
<1> SUFFICES ASSUME Init PROVE IInv
  OBVIOUS
<1>1. start \in Starts /\ phase = "sa" /\ work = start /\ best.work = start /\ best.score = cur
      /\ tables = Built(start) /\ cur = Score(Built(start))
  BY DEF Init
<1>2. IsFiniteSet(DOMAIN start) /\ start \in [DOMAIN start -> Matches]
  BY <1>1, StartIsSchedule
<1>3. Books
  BY <1>1, <1>2, SameLoadsReflexive DEF Books
<1>4. Tabled(tables, work)
  BY <1>1, <1>2, BuiltTyped DEF Tabled
<1>5. Annealing
  BY <1>1, <1>2, <1>4, ScoreOfTables DEF Annealing, LexAtMost
<1> QED BY <1>1, <1>3, <1>5 DEF IInv, Balancing

\* Lists of six and of five.
LEMMA LexFive ==
  ASSUME NEW a \in [1 .. 6 -> Int], NEW b \in [1 .. 6 -> Int], LexAtMost(a, b)
  PROVE  /\ LexAtMost([i \in 1 .. 5 |-> a[i]], [i \in 1 .. 5 |-> b[i]])
         /\ a[1] <= b[1]
<1>1. 6 \in Nat /\ 5 \in 0 .. 6 /\ 6 > 0
  OBVIOUS
<1> QED BY <1>1, LexPrefix

LEMMA LexFiveTransitive ==
  ASSUME NEW a \in [1 .. 5 -> Int], NEW b \in [1 .. 5 -> Int], NEW c \in [1 .. 5 -> Int],
         LexAtMost(a, b), LexAtMost(b, c)
  PROVE  LexAtMost(a, c)
<1>1. 5 \in Nat
  OBVIOUS
<1> QED BY <1>1, LexTransitive

LEMMA LexSix ==
  ASSUME NEW a \in [1 .. 6 -> Int], NEW b \in [1 .. 6 -> Int], NEW c \in [1 .. 6 -> Int]
  PROVE  /\ LexLess(a, b) \/ LexAtMost(b, a)
         /\ LexAtMost(a, b) /\ LexAtMost(b, c) => LexAtMost(a, c)
<1>1. 6 \in Nat
  OBVIOUS
<1>2. LexLess(a, b) \/ LexAtMost(b, a)
  BY <1>1, LexTotal
<1>3. LexAtMost(a, b) /\ LexAtMost(b, c) => LexAtMost(a, c)
  BY <1>1, LexTransitive
<1> QED BY <1>2, <1>3

\* One iteration of the annealing.
Milder(w, v) == Violations(Built(w).plays) <= Violations(Built(v).plays)

LEMMA FirstCriterion ==
  ASSUME NEW D, IsFiniteSet(D), NEW w \in [D -> Matches]
  PROVE  Strict(w) \in [1 .. 5 -> Int] /\ Strict(w)[1] = Violations(Built(w).plays)
<1>1. Tabled(Built(w), w)
  BY BuiltTyped DEF Tabled
<1>2. /\ Strict(w) \in [1 .. 5 -> Int]
      /\ Strict(w) = [i \in 1 .. 5 |-> Score(Built(w))[i]]
      /\ Score(Built(w))[1] = Violations(Built(w).plays)
  BY <1>1, ScoreOfTables
<1> QED BY <1>2

LEMMA FirstOfTracked ==
  ASSUME NEW D, IsFiniteSet(D), NEW w \in [D -> Matches],
         NEW c, Strict(w) = [i \in 1 .. 5 |-> c[i]]
  PROVE  c[1] = Violations(Built(w).plays)
<1>1. Strict(w)[1] = c[1]
  OBVIOUS
<1> QED BY <1>1, FirstCriterion

LEMMA StillAnnealing ==
  ASSUME phase' = "sa", start' = start, Books, Annealing',
         work' \in [DOMAIN start -> Matches],      SameLoads(work', start),
         (best').work \in [DOMAIN start -> Matches], SameLoads((best').work, start)
  PROVE  IInv'
<1>1. Books'
  BY DEF Books
<1>2. Balancing'
  BY DEF Balancing
<1> QED BY <1>1, <1>2 DEF IInv

LEMMA AnnealHolds ==
  ASSUME IInv, Anneal
  PROVE  IInv' /\ Milder(work', work) /\ phase = "sa"
<1> DEFINE D == DOMAIN start
<1>1. PICK p \in Positions(work), q \in Positions(work) :
        LET w == Swapped(work, p, q)
            s == SwappedTables(work, tables, p, q)
            score == Score(s) IN
        /\ phase = "sa" /\ p # q
        /\ IsValidSwap(work, p, q)
        /\ \/ /\ LexAtMost(score, cur)
              /\ work' = w /\ tables' = s /\ cur' = score
              /\ best' = Improved(w, score)
           \/ /\ LexLess(cur, score) /\ 1 \notin FirstDifference(cur, score)
              /\ work' = w /\ tables' = s /\ cur' = score
              /\ UNCHANGED best
           \/ /\ LexLess(cur, score)
              /\ work' = Swapped(w, p, q)
              /\ tables' = SwappedTables(w, s, p, q)
              /\ UNCHANGED <<cur, best>>
        /\ UNCHANGED <<start, phase>>
  BY DEF Anneal
<1> DEFINE w == Swapped(work, p, q)
           s == SwappedTables(work, tables, p, q)
           score == Score(s)
<1>2. Books /\ Annealing /\ IsFiniteSet(D)
  BY <1>1, StartIsSchedule DEF IInv, Books
<1>3. /\ work \in [D -> Matches] /\ best.work \in [D -> Matches]
      /\ p \in D \X Seats /\ q \in D \X Seats
  BY <1>2 DEF Books, Positions
<1>4. Tabled(tables, work)
  BY <1>2 DEF Annealing
<1>5. /\ w \in [D -> Matches] /\ SameLoads(w, work)
      /\ IsValidSwap(w, p, q) /\ Swapped(w, p, q) = work
  <2>1. IsValidSwap(work, p, q)
    BY <1>1
  <2> HIDE DEF D
  <2>2. GoodSwap(Swapped(work, p, q), work, D, p, q)
    BY <1>2, <1>3, <2>1, SwapKeepsLoads
  <2> QED BY <2>2 DEF GoodSwap
<1>6. Tabled(s, w)
  <2>1. p # q /\ IsValidSwap(work, p, q)
    BY <1>1
  <2> HIDE DEF D
  <2> QED BY <1>2, <1>3, <1>4, <2>1, SwapKeepsTables
<1>7. Tabled(SwappedTables(w, s, p, q), work)
  <2> HIDE DEF w, s, D
  <2>1. p # q
    BY <1>1
  <2>2. Tabled(SwappedTables(w, s, p, q), Swapped(w, p, q))
    BY <1>2, <1>3, <1>5, <1>6, <2>1, SwapKeepsTables
  <2> QED BY <1>5, <2>2
<1>8. /\ score \in [1 .. 6 -> Int] /\ Strict(w) \in [1 .. 5 -> Int]
      /\ Strict(w) = [i \in 1 .. 5 |-> score[i]]
      /\ score[1] = Violations(Built(w).plays)
  <2> HIDE DEF w, s, D
  <2> QED BY <1>2, <1>5, <1>6, ScoreOfTables
<1>9. SameLoads(w, start)
  BY <1>2, <1>5, SameLoadsTransitive DEF Books
<1>10. /\ cur \in [1 .. 6 -> Int] /\ cur[1] = Violations(Built(work).plays)
       /\ best.score \in [1 .. 6 -> Int]
       /\ Strict(best.work) = [i \in 1 .. 5 |-> best.score[i]]
       /\ Strict(best.work) \in [1 .. 5 -> Int] /\ Strict(start) \in [1 .. 5 -> Int]
       /\ LexAtMost(Strict(best.work), Strict(start)) /\ LexAtMost(best.score, cur)
  <2>1. start \in [D -> Matches]
    BY <1>2, StartIsSchedule DEF Books
  <2> QED BY <1>2, <1>3, <2>1, FirstCriterion, FirstOfTracked DEF Annealing
<1> HIDE DEF w, s, score, D
<1>11. phase = "sa" /\ phase' = "sa" /\ start' = start
  BY <1>1
<1>12. CASE LexAtMost(score, cur) /\ work' = w /\ tables' = s /\ cur' = score
            /\ best' = Improved(w, score)
  <2>1. score[1] <= cur[1]
    BY <1>8, <1>10, <1>12, LexFive
  <2>2. Milder(work', work)
    BY <1>8, <1>10, <1>12, <2>1 DEF Milder
  <2>3. CASE LexLess(score, best.score)
    <3>1. best' = [work |-> w, score |-> score]
      BY <1>12, <2>3 DEF Improved
    <3>2. LexAtMost(score, best.score)
      BY <2>3 DEF LexAtMost
    <3>3. LexAtMost(Strict(w), Strict(best.work))
      BY <1>8, <1>10, <3>2, LexFive
    <3>4. LexAtMost(Strict(w), Strict(start))
      BY <1>8, <1>10, <3>3, LexFiveTransitive
    <3>5. LexAtMost(score, score)
      BY DEF LexAtMost
    <3>6. Annealing'
      BY <1>6, <1>8, <1>11, <1>12, <3>1, <3>4, <3>5 DEF Annealing
    <3> QED BY <1>2, <1>5, <1>9, <1>11, <1>12, <2>2, <3>1, <3>6, StillAnnealing DEF D
  <2>4. CASE ~LexLess(score, best.score)
    <3>1. best' = best
      BY <1>12, <2>4 DEF Improved
    <3>2. LexAtMost(best.score, score)
      BY <1>8, <1>10, <2>4, LexSix
    <3>3. Annealing'
      BY <1>6, <1>8, <1>10, <1>11, <1>12, <3>1, <3>2 DEF Annealing
    <3> QED BY <1>2, <1>5, <1>9, <1>11, <1>12, <2>2, <3>1, <3>3, StillAnnealing DEF D, Books
  <2> QED BY <2>3, <2>4
<1>13. CASE LexLess(cur, score) /\ 1 \notin FirstDifference(cur, score)
            /\ work' = w /\ tables' = s /\ cur' = score /\ best' = best
  <2>1. cur[1] = score[1]
    BY <1>8, <1>10, <1>13 DEF FirstDifference
  <2>2. Milder(work', work)
    <3>1. cur[1] \in Int
      BY <1>10
    <3> QED BY <1>8, <1>10, <1>13, <2>1, <3>1 DEF Milder
  <2>3. LexAtMost(cur, score)
    BY <1>13 DEF LexAtMost
  <2>4. LexAtMost(best.score, score)
    BY <1>8, <1>10, <2>3, LexSix
  <2>5. Annealing'
    BY <1>6, <1>8, <1>10, <1>11, <1>13, <2>4 DEF Annealing
  <2> QED BY <1>2, <1>5, <1>9, <1>11, <1>13, <2>2, <2>5, StillAnnealing DEF D, Books
<1>14. CASE LexLess(cur, score) /\ work' = Swapped(w, p, q)
            /\ tables' = SwappedTables(w, s, p, q) /\ cur' = cur /\ best' = best
  <2>1. work' = work
    BY <1>5, <1>14
  <2>2. Milder(work', work)
    <3>1. cur[1] \in Int
      BY <1>10
    <3> QED BY <1>10, <2>1, <3>1 DEF Milder
  <2>3. Annealing'
    BY <1>2, <1>7, <1>11, <1>14, <2>1 DEF Annealing
  <2> QED BY <1>2, <1>11, <1>14, <2>1, <2>2, <2>3, StillAnnealing DEF Books
<1> QED BY <1>1, <1>11, <1>12, <1>13, <1>14 DEF w, s, score

\* A step of the post passes or the polish keeps everybody's encounters.
LEMMA PostStep ==
  ASSUME IInv, phase # "sa", phase' \in {"rb", "station", "polish", "polish2", "done"},
         start' = start, work' \in [DOMAIN start -> Matches],
         Encounters(work') = Encounters(work),
         (best').work = work' \/ (best').work = best.work,
         Balancing'
  PROVE  IInv' /\ Milder(work', work) /\ Encounters(work') = Encounters(work)
<1> DEFINE D == DOMAIN start
<1>1. /\ Books /\ IsFiniteSet(D) /\ Encounters(best.work) = Encounters(work)
      /\ work \in [D -> Matches] /\ best.work \in [D -> Matches]
      /\ SameLoads(work, start) /\ SameLoads(best.work, start)
  BY StartIsSchedule DEF IInv, Books
<1>2. SameLoads(work', work) /\ Built(work').plays = Built(work).plays
  <2> HIDE DEF D
  <2>1. \A v \in [D -> Matches] : Encounters(v) = Encounters(work)
          => SameLoads(v, work) /\ Built(v).plays = Built(work).plays
    BY <1>1, EncountersFix
  <2> QED BY <2>1 DEF D
<1>3. SameLoads(work', start)
  BY <1>1, <1>2, SameLoadsTransitive
<1>4. Milder(work', work)
  <2>1. Strict(work) \in [1 .. 5 -> Int] /\ Strict(work)[1] = Violations(Built(work).plays)
    BY <1>1, FirstCriterion
  <2>2. Violations(Built(work).plays) \in Int
    BY <2>1
  <2> QED BY <1>2, <2>2 DEF Milder
<1>5. Books'
  BY <1>1, <1>3 DEF Books
<1>6. Encounters((best').work) = Encounters(work')
  BY <1>1
<1> QED BY <1>4, <1>5, <1>6 DEF IInv

LEMMA BalanceColoursHolds ==
  ASSUME IInv, BalanceColours
  PROVE  IInv' /\ Milder(work', work) /\ Encounters(work') = Encounters(work)
<1> DEFINE D == DOMAIN start
<1>1. /\ phase = "rb" /\ IsFiniteSet(D) /\ work \in [D -> Matches] /\ best.work \in [D -> Matches]
      /\ tables = Lean(work) /\ cur = TotalLean(tables)
      /\ best.score = TotalLean(Lean(best.work)) /\ best.score <= cur
  BY StartIsSchedule DEF BalanceColours, IInv, Books, Balancing
<1>2. PICK i \in D :
        Take([work EXCEPT ![i] = Flipped(@)], LeanAfter(tables, work[i]),
             cur + TotalLean(LeanAfter(tables, work[i])) - TotalLean(tables))
  BY <1>1 DEF BalanceColours
<1> DEFINE w == TurnedAt(work, i)
           lean == LeanAfter(tables, work[i])
           objective == cur + TotalLean(lean) - TotalLean(tables)
<1> HIDE DEF D
<1>3. /\ w \in [D -> Matches] /\ Encounters(w) = Encounters(work)
      /\ Lean(w) = lean
  <2>1. /\ w \in [D -> Matches] /\ Encounters(w) = Encounters(work)
        /\ Lean(w) = LeanAfter(Lean(work), work[i])
    BY <1>1, FlipKeepsLean
  <2> QED BY <1>1, <2>1
<1>4. TotalLean(tables) \in Int /\ TotalLean(lean) \in Int /\ best.score \in Int
  BY <1>1, <1>3, LeanIsInt, TotalLeanIsInt
<1>5. objective = TotalLean(lean)
  BY <1>1, <1>4
<1>6. /\ work' = w /\ tables' = lean /\ cur' = TotalLean(lean)
      /\ best' = IF TotalLean(lean) < best.score
                 THEN [work |-> w, score |-> TotalLean(lean)] ELSE best
      /\ start' = start /\ phase' = phase
  BY <1>2, <1>5 DEF Take, TurnedAt
<1> HIDE DEF w, lean, objective
<1>7. /\ (best').work = work' \/ (best').work = best.work
      /\ (best').score = TotalLean(Lean((best').work)) /\ (best').score <= cur'
  BY <1>1, <1>3, <1>4, <1>6
<1>8. Balancing'
  BY <1>1, <1>3, <1>6, <1>7 DEF Balancing
<1> QED BY <1>1, <1>3, <1>6, <1>7, <1>8, PostStep DEF D

LEMMA StationIsInt ==
  ASSUME NEW D, IsFiniteSet(D), NEW w \in [D -> Matches]
  PROVE  StationPenalty(StationTable(w)) \in Int
BY BuiltTyped, PenaltyIsInt

LEMMA BalanceStationsHolds ==
  ASSUME IInv, BalanceStations
  PROVE  IInv' /\ Milder(work', work) /\ Encounters(work') = Encounters(work)
<1> DEFINE D == DOMAIN start
<1>1. /\ phase = "station" /\ IsFiniteSet(D) /\ work \in [D -> Matches] /\ best.work \in [D -> Matches]
      /\ tables = StationTable(work) /\ cur = StationPenalty(tables)
      /\ best.score = StationPenalty(StationTable(best.work)) /\ best.score <= cur
  BY StartIsSchedule DEF BalanceStations, IInv, Books, Balancing
<1>2. PICK i \in D, half \in {Red, Blue} : \E f \in Reseatings(half) :
        Take([work EXCEPT ![i] = Reseated(@, f)], StationsAfter(tables, work[i], f),
             cur + StationPenalty(StationsAfter(tables, work[i], f)) - StationPenalty(tables))
  BY <1>1 DEF BalanceStations
<1>3. PICK f \in Reseatings(half) :
        Take([work EXCEPT ![i] = Reseated(@, f)], StationsAfter(tables, work[i], f),
             cur + StationPenalty(StationsAfter(tables, work[i], f)) - StationPenalty(tables))
  BY <1>2
<1> DEFINE w == ReseatedAt(work, i, f)
           st == StationsAfter(tables, work[i], f)
           objective == cur + StationPenalty(st) - StationPenalty(tables)
<1> HIDE DEF D
<1>4. /\ w \in [D -> Matches] /\ Encounters(w) = Encounters(work)
      /\ StationTable(w) = st
  <2>1. /\ w \in [D -> Matches] /\ Encounters(w) = Encounters(work)
        /\ StationTable(w) = StationsAfter(StationTable(work), work[i], f)
    BY <1>1, ReseatKeepsStations
  <2> QED BY <1>1, <2>1
<1>5. StationPenalty(tables) \in Int /\ StationPenalty(st) \in Int /\ best.score \in Int
  <2> HIDE DEF w, st
  <2> QED BY <1>1, <1>4, StationIsInt
<1>6. objective = StationPenalty(st)
  BY <1>1, <1>5
<1>7. /\ work' = w /\ tables' = st /\ cur' = StationPenalty(st)
      /\ best' = IF StationPenalty(st) < best.score
                 THEN [work |-> w, score |-> StationPenalty(st)] ELSE best
      /\ start' = start /\ phase' = phase
  BY <1>3, <1>6 DEF Take, ReseatedAt
<1> HIDE DEF w, st, objective
<1>8. /\ (best').work = work' \/ (best').work = best.work
      /\ (best').score = StationPenalty(StationTable((best').work)) /\ (best').score <= cur'
  BY <1>1, <1>4, <1>5, <1>7
<1>9. Balancing'
  BY <1>1, <1>4, <1>7, <1>8 DEF Balancing
<1> QED BY <1>1, <1>4, <1>7, <1>8, <1>9, PostStep DEF D

\* A search hands its best on, which is at most where its walk ended.
LEMMA EndAnnealHolds ==
  ASSUME IInv, EndAnneal
  PROVE  IInv' /\ Milder(work', work) /\ phase = "sa"
<1> DEFINE D == DOMAIN start
<1>1. /\ phase = "sa" /\ Annealing /\ Books /\ IsFiniteSet(D)
      /\ work \in [D -> Matches] /\ best.work \in [D -> Matches]
  BY StartIsSchedule DEF EndAnneal, IInv, Books
<1>2. /\ phase' = "rb" /\ work' = best.work /\ (best').work = best.work /\ start' = start
      /\ tables' = Lean(best.work) /\ cur' = TotalLean(Lean(best.work))
      /\ (best').score = TotalLean(Lean(best.work))
  BY DEF EndAnneal, Begin
<1>3. Milder(work', work)
  <2>1. /\ cur \in [1 .. 6 -> Int] /\ best.score \in [1 .. 6 -> Int] /\ LexAtMost(best.score, cur)
        /\ cur[1] = Violations(Built(work).plays)
        /\ (best.score)[1] = Violations(Built(best.work).plays)
    BY <1>1, FirstOfTracked DEF Annealing
  <2> QED BY <1>2, <2>1, LexFive DEF Milder
<1>4. Books'
  BY <1>1, <1>2 DEF Books
<1>5. (best').score <= cur'
  <2>1. TotalLean(Lean(best.work)) \in Int
    BY <1>1, LeanIsInt, TotalLeanIsInt
  <2> QED BY <1>2, <2>1
<1>6. Balancing'
  BY <1>2, <1>5 DEF Balancing
<1> QED BY <1>1, <1>2, <1>3, <1>4, <1>6 DEF IInv

LEMMA EndColoursHolds ==
  ASSUME IInv, EndColours
  PROVE  IInv' /\ Milder(work', work) /\ Encounters(work') = Encounters(work)
<1> DEFINE D == DOMAIN start
<1>1. /\ phase = "rb" /\ IsFiniteSet(D) /\ best.work \in [D -> Matches]
      /\ Encounters(best.work) = Encounters(work)
  BY StartIsSchedule DEF EndColours, IInv, Books
<1>2. /\ phase' = "station" /\ work' = best.work /\ (best').work = best.work /\ start' = start
      /\ tables' = StationTable(best.work) /\ cur' = StationPenalty(StationTable(best.work))
      /\ (best').score = StationPenalty(StationTable(best.work))
  BY DEF EndColours, Begin
<1>3. StationPenalty(StationTable(best.work)) \in Int
  BY <1>1, StationIsInt
<1>4. Balancing'
  BY <1>2, <1>3 DEF Balancing
<1> QED BY <1>1, <1>2, <1>4, PostStep

LEMMA EndStationsHolds ==
  ASSUME IInv, EndStations
  PROVE  IInv' /\ Milder(work', work) /\ Encounters(work') = Encounters(work)
<1>1. /\ phase = "station" /\ best.work \in [DOMAIN start -> Matches]
      /\ Encounters(best.work) = Encounters(work)
  BY DEF EndStations, IInv, Books
<1>2. phase' = "polish" /\ work' = best.work /\ (best').work = best.work /\ start' = start
  BY DEF EndStations, Begin
<1>3. Balancing'
  BY <1>2 DEF Balancing
<1> QED BY <1>1, <1>2, <1>3, PostStep

\* The polish turns some matches round, then permutes both alliances
\* of some, each by a permutation of its own.
LEMMA PolishHolds ==
  ASSUME IInv, PolishColours \/ PolishStations
  PROVE  IInv' /\ Milder(work', work) /\ Encounters(work') = Encounters(work)
<1> DEFINE D == DOMAIN start
<1>1. /\ phase \in {"polish", "polish2"} /\ phase' \in {"polish2", "done"} /\ start' = start
      /\ work \in [D -> Matches] /\ best.work \in [D -> Matches]
      /\ Encounters(best.work) = Encounters(work)
  BY DEF PolishColours, PolishStations, IInv, Books
<1>2. (best').work = work' \/ (best').work = best.work
  BY DEF PolishColours, PolishStations
<1>3. Balancing'
  BY <1>1 DEF Balancing
<1>4. SUFFICES work' \in [D -> Matches] /\ Encounters(work') = Encounters(work)
  BY <1>1, <1>2, <1>3, PostStep
<1>5. \A i \in D : SameMatch(work[i], work[i])
  BY <1>1 DEF SameMatch
<1>6. CASE PolishColours
  <2>1. PICK F \in Changed(work) :
          work' = [i \in DOMAIN work |-> IF i \in F THEN Flipped(work[i]) ELSE work[i]]
    BY <1>6 DEF PolishColours
  <2> DEFINE w == [i \in D |-> IF i \in F THEN Flipped(work[i]) ELSE work[i]]
  <2>2. \A i \in D : SameMatch(w[i], work[i])
    BY <1>1, <1>5, FlipSwapsSides
  <2>3. work' = w /\ DOMAIN w = D /\ w = [i \in D |-> w[i]]
    BY <1>1, <2>1
  <2> HIDE DEF w, D
  <2> QED BY <1>1, <2>2, <2>3, SameMatches
<1>7. CASE PolishStations
  <2>1. CASE work' = best.work
    BY <1>1, <2>1
  <2>2. CASE \E F \in Changed(work) : \E f \in [F -> Reseatings(Red)], g \in [F -> Reseatings(Blue)] :
               work' = [i \in DOMAIN work |->
                          IF i \in F THEN Reseated(Reseated(work[i], f[i]), g[i]) ELSE work[i]]
    <3>1. PICK F \in Changed(work) : \E f \in [F -> Reseatings(Red)], g \in [F -> Reseatings(Blue)] :
               work' = [i \in DOMAIN work |->
                          IF i \in F THEN Reseated(Reseated(work[i], f[i]), g[i]) ELSE work[i]]
      BY <2>2
    <3>2. PICK f \in [F -> Reseatings(Red)], g \in [F -> Reseatings(Blue)] :
               work' = [i \in DOMAIN work |->
                          IF i \in F THEN Reseated(Reseated(work[i], f[i]), g[i]) ELSE work[i]]
      BY <3>1
    <3> DEFINE w == [i \in D |-> IF i \in F THEN Reseated(Reseated(work[i], f[i]), g[i]) ELSE work[i]]
    <3>3. \A i \in D : SameMatch(w[i], work[i])
      <4> SUFFICES ASSUME NEW i \in D, i \in F
                   PROVE  SameMatch(Reseated(Reseated(work[i], f[i]), g[i]), work[i])
        BY <1>5
      <4> DEFINE m == Reseated(work[i], f[i])
      <4>1. SameMatch(m, work[i])
        BY <1>1, ReseatKeepsSides
      <4>2. m \in Matches
        BY <4>1 DEF SameMatch
      <4> HIDE DEF m
      <4>3. SameMatch(Reseated(m, g[i]), m)
        BY <4>2, ReseatKeepsSides
      <4>4. SameMatch(Reseated(m, g[i]), work[i])
        BY <4>1, <4>3 DEF SameMatch
      <4> QED BY <4>4 DEF m
    <3>4. work' = w /\ DOMAIN w = D /\ w = [i \in D |-> w[i]]
      BY <1>1, <3>2
    <3> HIDE DEF w, D
    <3> QED BY <1>1, <3>3, <3>4, SameMatches
  <2> QED BY <1>7, <2>1, <2>2 DEF PolishStations
<1> QED BY <1>6, <1>7

-----------------------------------------------------------------------------
\* What a step may do to the encounters and to the first criterion.
Stands ==
  /\ Violations(Built(work').plays) <= Violations(Built(work).plays)
  /\ phase # "sa" => Encounters(work') = Encounters(work)

LEMMA StepHolds ==
  ASSUME IInv, Next
  PROVE  IInv' /\ Stands
<1>1. CASE Anneal
  BY <1>1, AnnealHolds DEF Stands, Milder
<1>2. CASE EndAnneal
  BY <1>2, EndAnnealHolds DEF Stands, Milder
<1>3. CASE BalanceColours
  BY <1>3, BalanceColoursHolds DEF Stands, Milder
<1>4. CASE EndColours
  BY <1>4, EndColoursHolds DEF Stands, Milder
<1>5. CASE BalanceStations
  BY <1>5, BalanceStationsHolds DEF Stands, Milder
<1>6. CASE EndStations
  BY <1>6, EndStationsHolds DEF Stands, Milder
<1>7. CASE PolishColours \/ PolishStations
  BY <1>7, PolishHolds DEF Stands, Milder
<1> QED BY <1>1, <1>2, <1>3, <1>4, <1>5, <1>6, <1>7 DEF Next

LEMMA StutterHolds ==
  ASSUME IInv, UNCHANGED vars
  PROVE  IInv'
<1>1. /\ start' = start /\ phase' = phase /\ work' = work /\ tables' = tables
      /\ cur' = cur /\ best' = best
  BY DEF vars
<1>2. Books' /\ Balancing' /\ (phase = "sa" => Annealing')
  BY <1>1 DEF IInv, Books, Balancing, Annealing
<1> QED BY <1>1, <1>2 DEF IInv

LEMMA InvariantHolds == Spec => []IInv
<1>1. IInv /\ [Next]_vars => IInv'
  BY StepHolds, StutterHolds
<1> QED BY <1>1, InitHolds, PTL DEF Spec

\* Whatever is swapped, undone, flipped, reseated or polished, every match of
\* the schedule has distinct teams in its seats (_is_valid_swap, the passes).
THEOREM AnnealerTypes == Spec => []TypeOK
<1>1. IInv => TypeOK
  BY DEF IInv, Books, TypeOK
<1> QED BY <1>1, InvariantHolds, PTL

\* The tables of matches, partners, opponents, stations and colours the searches
\* update move by move, and undo by repeating the move, are those of the schedule
\* (_match_swap_apply_delta, rb_balance.py, station_balance.py), and nobody loses
\* a match or a surrogate appearance.  Nothing is said of the count of surrogates
\* per team beside them: a swap within a match makes it drift.
THEOREM BooksAreKept == Spec => []SearchKeepsTheBooks
<1>1. IInv => SearchKeepsTheBooks
  <2> SUFFICES ASSUME IInv PROVE SearchKeepsTheBooks
    OBVIOUS
  <2>1. SameLoads(work, start)
    BY DEF IInv, Books
  <2>2. NobodyLosesAMatch
    BY <2>1 DEF NobodyLosesAMatch, SameLoads, SurrogateIn
  <2>3. phase = "sa" => /\ tables.plays = Built(work).plays /\ tables.st = Built(work).st
                        /\ tables.par = Built(work).par     /\ tables.opp = Built(work).opp
                        /\ tables.colour = Built(work).colour
    BY DEF IInv, Annealing, Tabled
  <2>4. /\ phase = "rb" => tables = Lean(work) /\ cur = TotalLean(tables)
        /\ phase = "station" => tables = StationTable(work) /\ cur = StationPenalty(tables)
    BY DEF IInv, Balancing
  <2>5. TablesAgree
    BY <2>3, <2>4 DEF TablesAgree
  <2> QED BY <2>2, <2>5 DEF SearchKeepsTheBooks
<1> QED BY <1>1, InvariantHolds, PTL

\* Wherever the walk goes, the best snapshot it returns is at most its input,
\* in the order of FRC 10.5.2, and at most the objective it stands at.
THEOREM SearchNeverWorse == Spec => []NeverWorse
<1>1. IInv => NeverWorse
  BY DEF IInv, Annealing, Balancing, NeverWorse
<1> QED BY <1>1, InvariantHolds, PTL

\* No step brings two matches of a team closer than the cooldown, and the
\* passes after the annealing change nobody's partners, opponents or matches.
THEOREM CriteriaStand == Spec => HigherCriteriaStand
<1>1. IInv /\ [Next]_vars
        => [/\ Violations(Built(work').plays) <= Violations(Built(work).plays)
            /\ phase # "sa" => Encounters(work') = Encounters(work)]_vars
  BY StepHolds DEF Stands
<1> QED BY <1>1, InvariantHolds, PTL DEF Spec, HigherCriteriaStand

-----------------------------------------------------------------------------
\* The floors.  A sum is compared with another element by element: Part is the
\* sum over a subset, and takes the same element from it whatever is summed.
Part(f, s) == (CHOOSE h : IsSums(h, f, SUBSET DOMAIN f))[s]

LEMMA PartIs ==
  ASSUME NEW f, IsFiniteSet(DOMAIN f)
  PROVE  /\ Sum(f) = Part(f, DOMAIN f)
         /\ Part(f, {}) = 0
         /\ \A s \in SUBSET DOMAIN f :
              s # {} => Part(f, s) = f[Pick(s)] + Part(f, s \ {Pick(s)})
<1> DEFINE h == CHOOSE h : IsSums(h, f, SUBSET DOMAIN f)
<1>1. IsSums(h, f, SUBSET DOMAIN f)
  BY SumsExist
<1>2. Sum(f) = Part(f, DOMAIN f) /\ \A s : Part(f, s) = h[s]
  BY SumIs DEF Part
<1> HIDE DEF h
<1>3. \A s \in SUBSET DOMAIN f : h[s] = IF s = {} THEN 0 ELSE f[Pick(s)] + h[s \ {Pick(s)}]
  BY <1>1 DEF IsSums
<1> QED BY <1>2, <1>3

\* What holds of the empty set, and of a set that is one element larger than one
\* it holds of, holds of every finite set: there is no least exception.
LEMMA EverySubset ==
  ASSUME NEW S, IsFiniteSet(S), NEW P, {} \in P,
         \A s \in SUBSET S : s # {} /\ s \ {Pick(s)} \in P => s \in P
  PROVE  SUBSET S \subseteq P
<1> DEFINE Bad == {s \in SUBSET S : s \notin P}
<1> SUFFICES ASSUME Bad # {} PROVE FALSE
  OBVIOUS
<1>1. PICK s \in Bad : \A r \in Bad : ~(<<r, s>> \in StrictSubsetOrdering(S))
  <2>1. IsWellFoundedOn(StrictSubsetOrdering(S), SUBSET S)
    BY FS_StrictSubsetOrderingWellFounded, FS_FiniteSubsetsOfFinite
  <2>2. Bad \subseteq SUBSET S
    OBVIOUS
  <2> HIDE DEF Bad
  <2> QED BY <2>1, <2>2, WFMin
<1>2. s # {} /\ Pick(s) \in s
  BY PickIn
<1>3. <<s \ {Pick(s)}, s>> \in StrictSubsetOrdering(S)
  BY <1>2 DEF StrictSubsetOrdering
<1>4. s \ {Pick(s)} \in P
  BY <1>1, <1>3
<1> QED BY <1>2, <1>4

LEMMA PartsAreInts ==
  ASSUME NEW S, IsFiniteSet(S), NEW f \in [S -> Int]
  PROVE  \A s \in SUBSET S : Part(f, s) \in Int
<1> DEFINE P == {s \in SUBSET S : Part(f, s) \in Int}
<1>1. {} \in P
  BY PartIs
<1>2. ASSUME NEW s \in SUBSET S, s # {}, s \ {Pick(s)} \in P PROVE s \in P
  <2>1. Part(f, s) = f[Pick(s)] + Part(f, s \ {Pick(s)}) /\ Pick(s) \in S
    BY <1>2, PartIs, PickIn
  <2> QED BY <1>2, <2>1
<1>3. SUBSET S \subseteq P
  <2> HIDE DEF P
  <2> QED BY <1>1, <1>2, EverySubset
<1> QED BY <1>3

LEMMA SumMonotone ==
  ASSUME NEW S, IsFiniteSet(S), NEW f \in [S -> Int], NEW g \in [S -> Int],
         \A x \in S : f[x] <= g[x]
  PROVE  Sum(f) <= Sum(g)
<1> DEFINE P == {s \in SUBSET S : Part(f, s) <= Part(g, s)}
<1>1. {} \in P
  <2>1. Part(f, {}) = 0 /\ Part(g, {}) = 0
    BY PartIs
  <2> QED BY <2>1
<1>2. ASSUME NEW s \in SUBSET S, s # {}, s \ {Pick(s)} \in P PROVE s \in P
  <2> DEFINE x == Pick(s)
             r == s \ {x}
  <2>1. Part(f, s) = f[x] + Part(f, r) /\ Part(g, s) = g[x] + Part(g, r) /\ x \in S
    BY <1>2, PartIs, PickIn
  <2>2. Part(f, r) \in Int /\ Part(g, r) \in Int /\ f[x] \in Int /\ g[x] \in Int
    BY <2>1, PartsAreInts
  <2> QED BY <1>2, <2>1, <2>2
<1>3. SUBSET S \subseteq P
  <2> HIDE DEF P
  <2> QED BY <1>1, <1>2, EverySubset
<1> QED BY <1>3, PartIs

Combines(h, a, f, b, g) == \A x \in DOMAIN h : h[x] = a * f[x] + b * g[x]
LEMMA SumLinear ==
  ASSUME NEW S, IsFiniteSet(S), NEW f \in [S -> Int], NEW g \in [S -> Int], NEW h \in [S -> Int],
         NEW a \in Int, NEW b \in Int, Combines(h, a, f, b, g)
  PROVE  Sum(h) = a * Sum(f) + b * Sum(g)
<1> DEFINE P == {s \in SUBSET S : Part(h, s) = a * Part(f, s) + b * Part(g, s)}
<1>1. {} \in P
  <2>1. Part(f, {}) = 0 /\ Part(g, {}) = 0 /\ Part(h, {}) = 0
    BY PartIs
  <2> QED BY <2>1
<1>2. ASSUME NEW s \in SUBSET S, s # {}, s \ {Pick(s)} \in P PROVE s \in P
  <2> DEFINE x == Pick(s)
             r == s \ {x}
  <2>1. /\ Part(f, s) = f[x] + Part(f, r) /\ Part(g, s) = g[x] + Part(g, r)
        /\ Part(h, s) = h[x] + Part(h, r) /\ x \in S
    BY <1>2, PartIs, PickIn
  <2>2. Part(f, r) \in Int /\ Part(g, r) \in Int /\ f[x] \in Int /\ g[x] \in Int
    BY <2>1, PartsAreInts
  <2>3. h[x] = a * f[x] + b * g[x] /\ Part(h, r) = a * Part(f, r) + b * Part(g, r)
    BY <1>2, <2>1 DEF Combines
  <2> DEFINE f1 == f[x]
             f2 == Part(f, r)
             g1 == g[x]
             g2 == Part(g, r)
  <2>4. f1 \in Int /\ f2 \in Int /\ g1 \in Int /\ g2 \in Int
    BY <2>2
  <2>5. Part(h, s) = (a * f1 + b * g1) + (a * f2 + b * g2)
    BY <2>1, <2>3
  <2>6. Part(f, s) = f1 + f2 /\ Part(g, s) = g1 + g2
    BY <2>1
  <2> HIDE DEF f1, f2, g1, g2
  <2>7. (a * f1 + b * g1) + (a * f2 + b * g2) = a * (f1 + f2) + b * (g1 + g2)
    BY <2>4
  <2> QED BY <2>5, <2>6, <2>7
<1>3. SUBSET S \subseteq P
  <2> HIDE DEF P
  <2> QED BY <1>1, <1>2, EverySubset
<1> QED BY <1>3, PartIs

LEMMA SumConstant ==
  ASSUME NEW S, IsFiniteSet(S), NEW f \in [S -> Int], NEW c \in Int, \A x \in S : f[x] = c
  PROVE  Sum(f) = c * Cardinality(S)
<1> DEFINE P == {s \in SUBSET S : Part(f, s) = c * Cardinality(s)}
<1>1. {} \in P
  <2>1. Part(f, {}) = 0 /\ Cardinality({}) = 0
    BY PartIs, FS_EmptySet
  <2> QED BY <2>1
<1>2. ASSUME NEW s \in SUBSET S, s # {}, s \ {Pick(s)} \in P PROVE s \in P
  <2> DEFINE x == Pick(s)
             r == s \ {x}
  <2>1. Part(f, s) = c + Part(f, r) /\ x \in s
    BY <1>2, PartIs, PickIn
  <2>2. IsFiniteSet(s) /\ Cardinality(s) \in Int /\ Cardinality(r) = Cardinality(s) - 1
    BY <2>1, FS_Subset, FS_CardinalityType, FS_RemoveElement
  <2>3. Part(f, r) = c * (Cardinality(s) - 1)
    BY <1>2, <2>2
  <2> DEFINE n == Cardinality(s)
  <2>4. c + c * (n - 1) = c * n /\ Part(f, s) = c + c * (n - 1)
    <3>1. n \in Int /\ Part(f, s) = c + c * (n - 1)
      BY <2>1, <2>2, <2>3
    <3> HIDE DEF n
    <3>2. c + c * (n - 1) = c * n
      BY <3>1
    <3> QED BY <3>1, <3>2
  <2> QED BY <2>4
<1>3. SUBSET S \subseteq P
  <2> HIDE DEF P
  <2> QED BY <1>1, <1>2, EverySubset
<1> QED BY <1>3, PartIs

-----------------------------------------------------------------------------
\* Sets matched one to one have the same size.
LEMMA SameSize ==
  ASSUME NEW A, IsFiniteSet(A), NEW B, NEW g \in [A -> B],
         \A x, y \in A : g[x] = g[y] => x = y, \A z \in B : \E x \in A : g[x] = z
  PROVE  IsFiniteSet(B) /\ Cardinality(B) = Cardinality(A)
<1>1. g \in Bijection(A, B)
  BY DEF Bijection, Injection, Surjection, IsInjective
<1> QED BY <1>1, FS_Bijection DEF ExistsBijection

\* The entries of a relation counted by columns, and by rows.
Columns(R, S) == [x \in S |-> Count({r \in R : r[2] = x})]

LEMMA ColumnsCount ==
  ASSUME NEW S, IsFiniteSet(S), NEW R, IsFiniteSet(R), \A r \in R : r[2] \in S
  PROVE  Columns(R, S) \in [S -> Int] /\ Sum(Columns(R, S)) = Cardinality(R)
<1> DEFINE f == Columns(R, S)
           In(s) == {r \in R : r[2] \in s}
           P == {s \in SUBSET S : Part(f, s) = Cardinality(In(s))}
<1>1. f \in [S -> Int]
  <2>1. \A x \in S : Count({r \in R : r[2] = x}) \in Int
    <3> TAKE x \in S
    <3>1. {r \in R : r[2] = x} \in SUBSET R
      OBVIOUS
    <3> QED BY <3>1, CountNat
  <2> QED BY <2>1 DEF Columns
<1>2. {} \in P
  <2>1. In({}) = {} /\ Part(f, {}) = 0
    BY <1>1, PartIs
  <2> QED BY <2>1, FS_EmptySet
<1>3. ASSUME NEW s \in SUBSET S, s # {}, s \ {Pick(s)} \in P PROVE s \in P
  <2> DEFINE x == Pick(s)
             q == s \ {x}
             C == {r \in R : r[2] = x}
  <2>1. Part(f, s) = f[x] + Part(f, q) /\ x \in s
    BY <1>1, <1>3, PartIs, PickIn
  <2>2. Part(f, q) = Cardinality(In(q)) /\ f[x] = Cardinality(C)
    BY <1>3, <2>1 DEF Columns, Count
  <2>3. In(s) = In(q) \cup C /\ In(q) \cap C = {}
    BY <2>1
  <2>4. IsFiniteSet(In(q)) /\ IsFiniteSet(C)
    <3>1. In(q) \in SUBSET R /\ C \in SUBSET R
      OBVIOUS
    <3> HIDE DEF In, C
    <3> QED BY <3>1, FS_Subset
  <2>5. Cardinality(In(q) \cup C) = Cardinality(In(q)) + Cardinality(C)
    <3>1. Cardinality(In(q) \cap C) = 0
      BY <2>3, FS_EmptySet
    <3>2. Cardinality(In(q)) \in Int /\ Cardinality(C) \in Int
      BY <2>4, FS_CardinalityType
    <3> HIDE DEF In, C
    <3>3. Cardinality(In(q) \cup C) = Cardinality(In(q)) + Cardinality(C) - Cardinality(In(q) \cap C)
      BY <2>4, FS_Union
    <3> QED BY <3>1, <3>2, <3>3
  <2>6. Cardinality(In(q)) \in Int /\ Cardinality(C) \in Int
    BY <2>4, FS_CardinalityType
  <2>7. Part(f, s) = Cardinality(In(s))
    <3> HIDE DEF In, C, f
    <3> QED BY <2>1, <2>2, <2>3, <2>5, <2>6
  <2> QED BY <2>7
<1>4. SUBSET S \subseteq P
  <2> HIDE DEF P
  <2> QED BY <1>2, <1>3, EverySubset
<1>5. In(S) = R
  OBVIOUS
<1>6. Sum(f) = Part(f, S)
  <2> HIDE DEF f
  <2> QED BY <1>1, PartIs
<1>7. Part(f, S) = Cardinality(In(S))
  BY <1>4
<1> QED BY <1>1, <1>5, <1>6, <1>7

\* If every row of a relation has c entries, its columns sum to c for each row.
LEMMA EveryRow ==
  ASSUME NEW D, IsFiniteSet(D), NEW S, IsFiniteSet(S), NEW row \in [D -> SUBSET S], NEW c \in Int,
         \A i \in D : Cardinality(row[i]) = c
  PROVE  /\ [x \in S |-> Count({i \in D : x \in row[i]})] \in [S -> Int]
         /\ Sum([x \in S |-> Count({i \in D : x \in row[i]})]) = c * Cardinality(D)
<1> DEFINE R == {r \in D \X S : r[2] \in row[r[1]]}
           Q == {r \in S \X D : r[1] \in row[r[2]]}
           f == [x \in S |-> Count({i \in D : x \in row[i]})]
<1>1. IsFiniteSet(R) /\ IsFiniteSet(Q)
  <2>1. R \in SUBSET (D \X S) /\ Q \in SUBSET (S \X D)
    OBVIOUS
  <2>2. IsFiniteSet(D \X S) /\ IsFiniteSet(S \X D)
    BY FS_Product
  <2> HIDE DEF R, Q
  <2> QED BY <2>1, <2>2, FS_Subset
<1>2. Cardinality(R) = Cardinality(Q)
  <2> DEFINE g == [r \in R |-> <<r[2], r[1]>>]
  <2>1. g \in [R -> Q]
    OBVIOUS
  <2>2. \A r, s \in R : g[r] = g[s] => r = s
    OBVIOUS
  <2>3. \A q \in Q : \E r \in R : g[r] = q
    <3> TAKE q \in Q
    <3>1. <<q[2], q[1]>> \in R /\ g[<<q[2], q[1]>>] = q
      OBVIOUS
    <3> QED BY <3>1
  <2> HIDE DEF R, Q, g
  <2> QED BY <1>1, <2>1, <2>2, <2>3, SameSize
<1>3. Columns(R, S) = f
  <2>1. ASSUME NEW x \in S PROVE Count({r \in R : r[2] = x}) = Count({i \in D : x \in row[i]})
    <3> DEFINE A == {i \in D : x \in row[i]}
               B == {r \in R : r[2] = x}
               g == [i \in A |-> <<i, x>>]
    <3>1. g \in [A -> B] /\ \A i, j \in A : g[i] = g[j] => i = j
      OBVIOUS
    <3>2. \A r \in B : \E i \in A : g[i] = r
      <4> TAKE r \in B
      <4>1. r[1] \in A /\ g[r[1]] = r
        OBVIOUS
      <4> QED BY <4>1
    <3>3. Cardinality(A) = Cardinality(B)
      <4>1. IsFiniteSet(A)
        BY FS_Subset
      <4> HIDE DEF A, B, g
      <4> QED BY <3>1, <3>2, <4>1, SameSize
    <3> QED BY <3>3 DEF Count
  <2> QED BY <2>1 DEF Columns
<1>4. f \in [S -> Int] /\ Sum(f) = Cardinality(R)
  <2>1. \A r \in R : r[2] \in S
    OBVIOUS
  <2> HIDE DEF R, f
  <2> QED BY <1>1, <1>3, <2>1, ColumnsCount
<1>5. Columns(Q, D) \in [D -> Int] /\ Sum(Columns(Q, D)) = Cardinality(Q)
  <2>1. \A r \in Q : r[2] \in D
    OBVIOUS
  <2> HIDE DEF Q
  <2> QED BY <1>1, <2>1, ColumnsCount
<1>6. ASSUME NEW i \in D PROVE Columns(Q, D)[i] = c
  <2> DEFINE A == row[i]
             B == {r \in Q : r[2] = i}
             g == [x \in A |-> <<x, i>>]
  <2>1. g \in [A -> B] /\ \A x, y \in A : g[x] = g[y] => x = y
    OBVIOUS
  <2>2. \A r \in B : \E x \in A : g[x] = r
    <3> TAKE r \in B
    <3>1. r[1] \in A /\ g[r[1]] = r
      OBVIOUS
    <3> QED BY <3>1
  <2>3. A \in SUBSET S /\ Cardinality(A) = c
    OBVIOUS
  <2>4. Cardinality(A) = Cardinality(B)
    <3> HIDE DEF A, B, g
    <3> QED BY <2>1, <2>2, <2>3, FS_Subset, SameSize
  <2> QED BY <2>3, <2>4 DEF Columns, Count
<1>7. Sum(Columns(Q, D)) = c * Cardinality(D)
  <2> HIDE DEF Q
  <2> QED BY <1>5, <1>6, SumConstant
<1> QED BY <1>2, <1>4, <1>5, <1>7

-----------------------------------------------------------------------------
\* Pairs.
LEMMA PairsWith ==
  ASSUME NEW X, IsFiniteSet(X), NEW x \in X
  PROVE  Cardinality({p \in kSubset(2, X) : x \in p}) = Cardinality(X) - 1
<1> DEFINE A == X \ {x}
           B == {p \in kSubset(2, X) : x \in p}
           g == [y \in A |-> {x, y}]
<1>1. IsFiniteSet(A) /\ Cardinality(A) = Cardinality(X) - 1
  BY FS_RemoveElement
<1>2. ASSUME NEW y \in A PROVE g[y] \in B
  <2>1. Cardinality({x} \cup {y}) = Cardinality({x}) + 1 /\ Cardinality({x}) = 1
    BY FS_Singleton, FS_AddElement
  <2>2. {x, y} = {x} \cup {y}
    OBVIOUS
  <2>3. Cardinality({x, y}) = 2
    BY <2>1, <2>2
  <2> QED BY <2>3 DEF kSubset
<1>3. \A y, z \in A : g[y] = g[z] => y = z
  OBVIOUS
<1>4. ASSUME NEW p \in B PROVE \E y \in A : g[y] = p
  <2>1. p \in SUBSET X /\ Cardinality(p) = 2 /\ x \in p
    BY DEF kSubset
  <2>2. IsFiniteSet(p) /\ IsFiniteSet(p \ {x}) /\ Cardinality(p \ {x}) = 1
    BY <2>1, FS_Subset, FS_RemoveElement
  <2>3. PICK y : p \ {x} = {y}
    BY <2>2, FS_Singleton
  <2>4. y \in A /\ p = {x, y}
    BY <2>1, <2>3
  <2> QED BY <2>4
<1>5. g \in [A -> B]
  BY <1>2
<1>6. Cardinality(B) = Cardinality(A)
  <2> HIDE DEF A, B, g
  <2> QED BY <1>1, <1>3, <1>4, <1>5, SameSize
<1> QED BY <1>1, <1>6

LEMMA NumberOfPairs ==
  ASSUME NEW X, IsFiniteSet(X)
  PROVE  /\ IsFiniteSet(kSubset(2, X))
         /\ 2 * Cardinality(kSubset(2, X)) = Cardinality(X) * (Cardinality(X) - 1)
<1> DEFINE K == kSubset(2, X)
           n == Cardinality(X)
           row == [x \in X |-> {p \in K : x \in p}]
           f == [p \in K |-> Count({x \in X : p \in row[x]})]
<1>1. IsFiniteSet(K)
  <2>1. IsFiniteSet(SUBSET X) /\ K \in SUBSET (SUBSET X)
    BY FS_SUBSET DEF kSubset
  <2> HIDE DEF K
  <2> QED BY <2>1, FS_Subset
<1>2. n \in Nat
  BY FS_CardinalityType
<1>3. \A x \in X : Cardinality(row[x]) = n - 1
  BY PairsWith
<1>4. f \in [K -> Int] /\ Sum(f) = (n - 1) * n
  <2>1. row \in [X -> SUBSET K] /\ n - 1 \in Int
    BY <1>2
  <2> HIDE DEF row, K
  <2> QED BY <1>1, <1>3, <2>1, EveryRow
<1>5. ASSUME NEW p \in K PROVE f[p] = 2
  <2>1. p \in SUBSET X /\ Cardinality(p) = 2
    BY DEF kSubset
  <2>2. {x \in X : p \in row[x]} = p
    BY <2>1
  <2> QED BY <2>1, <2>2 DEF Count
<1>6. Sum(f) = 2 * Cardinality(K)
  <2> HIDE DEF f, K
  <2> QED BY <1>1, <1>4, <1>5, SumConstant
<1>7. (n - 1) * n = n * (n - 1)
  <2> HIDE DEF n
  <2> QED BY <1>2
<1> QED BY <1>1, <1>4, <1>6, <1>7

\* A match seats as many teams as there are seats, on two sides of one alliance.
LEMMA MatchSizes ==
  ASSUME NEW m \in Matches
  PROVE  /\ InMatch(m) \in SUBSET Teams /\ IsFiniteSet(InMatch(m))
         /\ Cardinality(InMatch(m)) = 2 * Alliance
         /\ Cardinality(SideOf(m, Red)) = Alliance /\ Cardinality(SideOf(m, Blue)) = Alliance
         /\ SideOf(m, Red) \cup SideOf(m, Blue) = InMatch(m)
         /\ SideOf(m, Red) \cap SideOf(m, Blue) = {}
<1>1. /\ m.seats \in [Seats -> Teams]
      /\ \A x, y \in Seats : m.seats[x] = m.seats[y] => x = y
  BY DEF Matches, IsInjective
<1>2. ASSUME NEW half \in SUBSET Seats
      PROVE  IsFiniteSet(SideOf(m, half)) /\ Cardinality(SideOf(m, half)) = Cardinality(half)
  <2> DEFINE B == SideOf(m, half)
             g == [k \in half |-> m.seats[k]]
  <2>1. g \in [half -> B] /\ \A x, y \in half : g[x] = g[y] => x = y
    BY <1>1 DEF SideOf
  <2>2. \A z \in B : \E x \in half : g[x] = z
    BY DEF SideOf
  <2>3. IsFiniteSet(half)
    BY HalvesAreSeats, FS_Subset
  <2> HIDE DEF B, g
  <2>4. IsFiniteSet(B) /\ Cardinality(B) = Cardinality(half)
    BY <2>1, <2>2, <2>3, SameSize
  <2> QED BY <2>4 DEF B
<1>3. /\ Seats \in SUBSET Seats /\ Red \in SUBSET Seats /\ Blue \in SUBSET Seats
      /\ Cardinality(Seats) = 2 * Alliance /\ Cardinality(Red) = Alliance
      /\ Cardinality(Blue) = Alliance
  <2>1. Alliance \in Nat \ {0}
    BY BoundsAssumption
  <2>2. Blue = Alliance + 1 .. 2 * Alliance
    BY <2>1 DEF Blue, Seats, Red
  <2>3. Cardinality(1 .. 2 * Alliance) = 2 * Alliance /\ Cardinality(1 .. Alliance) = Alliance
    BY <2>1, FS_Interval
  <2>4. Cardinality(Alliance + 1 .. 2 * Alliance) = Alliance
    BY <2>1, FS_Interval
  <2> QED BY <2>2, <2>3, <2>4, HalvesAreSeats DEF Seats, Red
<1>4. InMatch(m) = SideOf(m, Seats) /\ InMatch(m) \in SUBSET Teams
  BY <1>1 DEF InMatch, SideOf
<1>5. /\ SideOf(m, Red) \cup SideOf(m, Blue) = InMatch(m)
      /\ SideOf(m, Red) \cap SideOf(m, Blue) = {}
  BY <1>1, HalvesAreSeats DEF SideOf, InMatch
<1> QED BY <1>2, <1>3, <1>4, <1>5

\* A match makes every two of one side partners, and every two of two opponents.
LEMMA PairsOfMatch ==
  ASSUME NEW m \in Matches
  PROVE  /\ Cardinality({p \in Pairs : Partners(m, p)}) = Alliance * (Alliance - 1)
         /\ Cardinality({p \in Pairs : Opponents(m, p)}) = Alliance * Alliance
<1> DEFINE R == SideOf(m, Red)
           B == SideOf(m, Blue)
           M == InMatch(m)
           A == Alliance
           par == {p \in Pairs : Partners(m, p)}
           opp == {p \in Pairs : Opponents(m, p)}
<1>1. A \in Nat \ {0}
  BY BoundsAssumption
<1>2. /\ M \in SUBSET Teams /\ IsFiniteSet(M) /\ Cardinality(M) = 2 * A
      /\ Cardinality(R) = A /\ Cardinality(B) = A /\ R \cup B = M /\ R \cap B = {}
  BY MatchSizes
<1>3. par = kSubset(2, R) \cup kSubset(2, B)
  <2> HIDE DEF R, B, M
  <2>1. R \in SUBSET Teams /\ B \in SUBSET Teams
    BY <1>2
  <2>2. \A p \in Pairs : Partners(m, p) <=> p \subseteq R \/ p \subseteq B
    BY DEF Partners, R, B
  <2> QED BY <2>1, <2>2 DEF Pairs, kSubset
<1>4. opp = kSubset(2, M) \ par
  <2>1. \A p \in Pairs : Opponents(m, p) <=> p \subseteq M /\ ~Partners(m, p)
    BY DEF Opponents
  <2> HIDE DEF R, B, M
  <2> QED BY <1>2, <2>1 DEF Pairs, kSubset
<1>5. kSubset(2, R) \cap kSubset(2, B) = {}
  <2> HIDE DEF R, B, M
  <2> SUFFICES ASSUME NEW p \in kSubset(2, R) \cap kSubset(2, B) PROVE FALSE
    OBVIOUS
  <2>1. p = {} /\ Cardinality(p) = 2
    BY <1>2 DEF kSubset
  <2> QED BY <2>1, FS_EmptySet
<1>6. par \subseteq kSubset(2, M)
  <2> HIDE DEF R, B, M
  <2> QED BY <1>2, <1>3 DEF kSubset
<1> HIDE DEF R, B, M, par, opp, A
<1>7. IsFiniteSet(R) /\ IsFiniteSet(B)
  BY <1>2, FS_Subset
<1>8. /\ IsFiniteSet(kSubset(2, R)) /\ 2 * Cardinality(kSubset(2, R)) = A * (A - 1)
      /\ IsFiniteSet(kSubset(2, B)) /\ 2 * Cardinality(kSubset(2, B)) = A * (A - 1)
      /\ IsFiniteSet(kSubset(2, M)) /\ 2 * Cardinality(kSubset(2, M)) = (2 * A) * (2 * A - 1)
  <2>1. IsFiniteSet(kSubset(2, R)) /\ 2 * Cardinality(kSubset(2, R)) = A * (A - 1)
    BY <1>2, <1>7, NumberOfPairs
  <2>2. IsFiniteSet(kSubset(2, B)) /\ 2 * Cardinality(kSubset(2, B)) = A * (A - 1)
    BY <1>2, <1>7, NumberOfPairs
  <2>3. IsFiniteSet(kSubset(2, M)) /\ 2 * Cardinality(kSubset(2, M)) = (2 * A) * (2 * A - 1)
    BY <1>2, NumberOfPairs
  <2> QED BY <2>1, <2>2, <2>3
<1> DEFINE x == Cardinality(kSubset(2, R))
           y == Cardinality(kSubset(2, B))
           z == Cardinality(kSubset(2, M))
<1>9. x \in Nat /\ y \in Nat /\ z \in Nat
  BY <1>8, FS_CardinalityType
<1>10. 2 * x = A * (A - 1) /\ 2 * y = A * (A - 1) /\ 2 * z = (2 * A) * (2 * A - 1)
  BY <1>8
<1>11. IsFiniteSet(par) /\ Cardinality(par) = x + y
  <2>1. Cardinality(kSubset(2, R) \cap kSubset(2, B)) = 0
    BY <1>5, FS_EmptySet
  <2>2. IsFiniteSet(kSubset(2, R) \cup kSubset(2, B))
        /\ Cardinality(kSubset(2, R) \cup kSubset(2, B)) = x + y - 0
    BY <1>8, <2>1, FS_Union
  <2> HIDE DEF x, y
  <2> QED BY <1>3, <1>9, <2>2
<1>12. Cardinality(opp) = z - Cardinality(par)
  <2>1. kSubset(2, M) \cap par = par
    BY <1>6
  <2>2. Cardinality(kSubset(2, M) \ par) = z - Cardinality(kSubset(2, M) \cap par)
    BY <1>8, FS_Difference
  <2> QED BY <1>4, <2>1, <2>2
<1> HIDE DEF x, y, z
<1>13. x + y = A * (A - 1)
  BY <1>1, <1>9, <1>10
<1>14. z - (x + y) = A * A
  <2>1. z = A * (2 * A - 1)
    BY <1>1, <1>9, <1>10
  <2>2. A * (2 * A - 1) - A * (A - 1) = A * A
    BY <1>1
  <2> QED BY <1>13, <2>1, <2>2
<1> QED BY <1>11, <1>12, <1>13, <1>14 DEF par, opp, A

-----------------------------------------------------------------------------
\* What the tables of a schedule sum to.
LEMMA PlaysSum ==
  ASSUME NEW D, IsFiniteSet(D), NEW w \in [D -> Matches]
  PROVE  /\ [t \in Teams |-> Count(Plays(w, t))] \in [Teams -> Int]
         /\ Sum([t \in Teams |-> Count(Plays(w, t))]) = 2 * Alliance * Cardinality(D)
<1> DEFINE row == [i \in D |-> InMatch(w[i])]
           f == [t \in Teams |-> Count({i \in D : t \in row[i]})]
           c == 2 * Alliance
<1>1. row \in [D -> SUBSET Teams] /\ \A i \in D : Cardinality(row[i]) = c
  BY MatchSizes
<1>2. f = [t \in Teams |-> Count(Plays(w, t))]
  BY DEF Plays
<1>3. c \in Int /\ IsFiniteSet(Teams)
  BY BoundsAssumption
<1>4. f \in [Teams -> Int] /\ Sum(f) = c * Cardinality(D)
  <2> HIDE DEF row, c
  <2> QED BY <1>1, <1>3, EveryRow
<1> QED BY <1>2, <1>4

LEMMA PairSums ==
  ASSUME NEW D, IsFiniteSet(D), NEW w \in [D -> Matches]
  PROVE  /\ Built(w).par \in [Pairs -> Nat] /\ Built(w).opp \in [Pairs -> Nat]
         /\ Sum(Built(w).par) = Alliance * (Alliance - 1) * Cardinality(D)
         /\ Sum(Built(w).opp) = Alliance * Alliance * Cardinality(D)
<1> DEFINE rowP == [i \in D |-> {p \in Pairs : Partners(w[i], p)}]
           rowO == [i \in D |-> {p \in Pairs : Opponents(w[i], p)}]
           f == [p \in Pairs |-> Count({i \in D : p \in rowP[i]})]
           g == [p \in Pairs |-> Count({i \in D : p \in rowO[i]})]
           c == Alliance * (Alliance - 1)
           d == Alliance * Alliance
<1>1. /\ rowP \in [D -> SUBSET Pairs] /\ \A i \in D : Cardinality(rowP[i]) = c
      /\ rowO \in [D -> SUBSET Pairs] /\ \A i \in D : Cardinality(rowO[i]) = d
  BY PairsOfMatch
<1>2. f = Built(w).par /\ g = Built(w).opp
  BY DEF Built
<1>3. c \in Int /\ d \in Int /\ IsFiniteSet(Pairs)
  BY BoundsAssumption, PairsFinite
<1>4. Sum(f) = c * Cardinality(D) /\ Sum(g) = d * Cardinality(D)
  <2>1. Sum(f) = c * Cardinality(D)
    <3> HIDE DEF rowP, c, d, g
    <3> QED BY <1>1, <1>3, EveryRow
  <2>2. Sum(g) = d * Cardinality(D)
    <3> HIDE DEF rowO, c, d, f
    <3> QED BY <1>1, <1>3, EveryRow
  <2> QED BY <2>1, <2>2
<1>5. f \in [Pairs -> Nat] /\ g \in [Pairs -> Nat]
  <2>1. \A p \in Pairs : {i \in D : p \in rowP[i]} \in SUBSET D /\ {i \in D : p \in rowO[i]} \in SUBSET D
    OBVIOUS
  <2> HIDE DEF rowP, rowO
  <2>2. \A p \in Pairs : Count({i \in D : p \in rowP[i]}) \in Nat /\ Count({i \in D : p \in rowO[i]}) \in Nat
    BY <2>1, CountNat
  <2> QED BY <2>2
<1> QED BY <1>2, <1>4, <1>5

\* The matches a team plays on some seats, counted by seat.
LEMMA SeatsSum ==
  ASSUME NEW D, IsFiniteSet(D), NEW w \in [D -> Matches], NEW t \in Teams,
         NEW half \in SUBSET Seats
  PROVE  /\ [k \in half |-> StationTable(w)[t][k]] \in [half -> Int]
         /\ Sum([k \in half |-> StationTable(w)[t][k]]) = Count({i \in D : t \in SideOf(w[i], half)})
<1> DEFINE C == {i \in D : t \in SideOf(w[i], half)}
           row == [i \in C |-> {k \in half : w[i].seats[k] = t}]
           f == [k \in half |-> Count({i \in C : k \in row[i]})]
<1>1. IsFiniteSet(C) /\ IsFiniteSet(half)
  BY HalvesAreSeats, FS_Subset
<1>2. ASSUME NEW i \in C PROVE Cardinality(row[i]) = 1
  <2>1. PICK k \in half : w[i].seats[k] = t
    BY DEF SideOf
  <2>2. \A x, y \in Seats : w[i].seats[x] = w[i].seats[y] => x = y
    BY DEF Matches, IsInjective
  <2>3. row[i] = {k}
    BY <2>1, <2>2
  <2> QED BY <2>3, FS_Singleton
<1>3. f = [k \in half |-> StationTable(w)[t][k]]
  <2>1. ASSUME NEW k \in half PROVE {i \in C : k \in row[i]} = {i \in DOMAIN w : w[i].seats[k] = t}
    BY DEF SideOf
  <2> QED BY <2>1 DEF StationTable
<1>4. row \in [C -> SUBSET half]
  OBVIOUS
<1>5. f \in [half -> Int] /\ Sum(f) = 1 * Cardinality(C)
  <2> HIDE DEF C, row
  <2> QED BY <1>1, <1>2, <1>4, EveryRow
<1>6. Cardinality(C) \in Int
  BY <1>1, FS_CardinalityType
<1>7. Sum(f) = Count(C)
  <2> HIDE DEF f, C
  <2> QED BY <1>5, <1>6 DEF Count
<1> QED BY <1>3, <1>5, <1>7

\* A team is red or blue in each of its matches, and an odd number of matches
\* has no even split.
LEMMA OddLeans ==
  ASSUME NEW D, IsFiniteSet(D), NEW w \in [D -> Matches], NEW t \in Teams
  PROVE  /\ Imbalance(StationTable(w))[t] \in Nat
         /\ Count(Plays(w, t)) % 2 = 1 => Imbalance(StationTable(w))[t] >= 1
<1> DEFINE st == StationTable(w)
           reds == {i \in D : t \in SideOf(w[i], Red)}
           blues == {i \in D : t \in SideOf(w[i], Blue)}
           r == Sum([k \in Red |-> st[t][k]])
           b == Sum([k \in Blue |-> st[t][k]])
<1>1. Red \in SUBSET Seats /\ Blue \in SUBSET Seats
  BY HalvesAreSeats
<1>2. r = Count(reds) /\ b = Count(blues)
  BY <1>1, SeatsSum
<1>3. IsFiniteSet(reds) /\ IsFiniteSet(blues)
  BY FS_Subset
<1>4. Plays(w, t) = reds \cup blues /\ reds \cap blues = {}
  <2>1. \A i \in D : /\ SideOf(w[i], Red) \cup SideOf(w[i], Blue) = InMatch(w[i])
                     /\ SideOf(w[i], Red) \cap SideOf(w[i], Blue) = {}
    BY MatchSizes
  <2> QED BY <2>1 DEF Plays
<1> HIDE DEF reds, blues
<1>5. Count(reds) \in Nat /\ Count(blues) \in Nat /\ Count(Plays(w, t)) = Count(reds) + Count(blues)
  <2>1. Cardinality(reds \cap blues) = 0
    BY <1>4, FS_EmptySet
  <2>2. Cardinality(reds) \in Nat /\ Cardinality(blues) \in Nat
    BY <1>3, FS_CardinalityType
  <2>3. Cardinality(reds \cup blues) = Cardinality(reds) + Cardinality(blues) - Cardinality(reds \cap blues)
    BY <1>3, FS_Union
  <2> QED BY <1>4, <2>1, <2>2, <2>3 DEF Count
<1>6. Imbalance(st)[t] = Abs(r - b)
  BY DEF Imbalance
<1> HIDE DEF r, b, st
<1> DEFINE x == Count(reds)
           y == Count(blues)
<1>7. Imbalance(st)[t] = Abs(x - y)
  BY <1>2, <1>6
<1>8. x \in Nat /\ y \in Nat /\ Count(Plays(w, t)) = x + y
  BY <1>5
<1> HIDE DEF x, y
<1>9. Abs(x - y) \in Nat /\ ((x + y) % 2 = 1 => Abs(x - y) >= 1)
  BY <1>8 DEF Abs
<1> QED BY <1>7, <1>8, <1>9 DEF st

\* A team that is at every station equally often plays a multiple of them.
LEMMA UnevenSpreads ==
  ASSUME NEW D, IsFiniteSet(D), NEW w \in [D -> Matches], NEW t \in Teams
  PROVE  /\ Spread(StationTable(w)[t]) \in Nat
         /\ Count(Plays(w, t)) % (2 * Alliance) # 0 => Spread(StationTable(w)[t]) >= 1
<1> DEFINE c == StationTable(w)[t]
           S == {c[k] : k \in Seats}
           f == [k \in Seats |-> c[k]]
           n == 2 * Alliance
<1>1. Seats \in SUBSET Seats /\ IsFiniteSet(Seats) /\ Seats # {}
  BY HalvesAreSeats
<1>2. f \in [Seats -> Int] /\ Sum(f) = Count({i \in D : t \in SideOf(w[i], Seats)})
  <2> DEFINE half == Seats
  <2>1. half \in SUBSET Seats
    OBVIOUS
  <2> HIDE DEF half
  <2>2. /\ [k \in half |-> StationTable(w)[t][k]] \in [half -> Int]
        /\ Sum([k \in half |-> StationTable(w)[t][k]]) = Count({i \in D : t \in SideOf(w[i], half)})
    BY <2>1, SeatsSum
  <2> QED BY <2>2 DEF half
<1>3. {i \in D : t \in SideOf(w[i], Seats)} = Plays(w, t)
  BY DEF Plays, SideOf, InMatch
<1>4. n \in Nat \ {0} /\ Cardinality(Seats) = n
  BY BoundsAssumption, FS_Interval DEF Seats
<1>5. S = {f[k] : k \in DOMAIN f}
  OBVIOUS
<1> HIDE DEF c
<1>6. IsFiniteSet(S) /\ S # {} /\ S \subseteq Int
  <2>1. IsFiniteSet({f[k] : k \in DOMAIN f})
    <3>1. IsFiniteSet(DOMAIN f)
      BY <1>1
    <3> HIDE DEF f
    <3> QED BY <3>1, ImageFinite
  <2> QED BY <1>1, <1>2, <1>5, <2>1
<1>7. Max(S) \in S /\ Min(S) \in S /\ \A y \in S : Max(S) >= y /\ Min(S) <= y
  <2> HIDE DEF S
  <2> QED BY <1>6, MaxIsIn, MinIsIn
<1>8. Max(S) \in Int /\ Min(S) \in Int /\ Max(S) >= Min(S)
  <2> HIDE DEF S
  <2> QED BY <1>6, <1>7
<1>9. Spread(c) = Max(S) - Min(S)
  BY DEF Spread
<1>10. ASSUME Max(S) = Min(S) PROVE Count(Plays(w, t)) % n = 0
  <2>1. \A k \in Seats : f[k] = Max(S)
    <3>1. \A y \in S : y = Max(S)
      <4> HIDE DEF S
      <4> QED BY <1>6, <1>7, <1>8, <1>10
    <3> QED BY <3>1
  <2>2. Sum(f) = Max(S) * n
    <3> HIDE DEF f, S
    <3> QED BY <1>1, <1>2, <1>4, <1>8, <2>1, SumConstant
  <2> DEFINE m == Max(S)
  <2>3. m \in Int /\ Count(Plays(w, t)) = m * n
    BY <1>2, <1>3, <1>8, <2>2
  <2> HIDE DEF m, n
  <2>4. (m * n) % n = 0
    BY <1>4, <2>3
  <2> QED BY <2>3, <2>4
<1> HIDE DEF S, n
<1>11. Spread(c) \in Nat
  BY <1>8, <1>9
<1>12. Count(Plays(w, t)) % n # 0 => Spread(c) >= 1
  BY <1>8, <1>9, <1>10
<1> QED BY <1>11, <1>12 DEF c, n

-----------------------------------------------------------------------------
\* No schedule is below the floors.
LEMMA SumNat ==
  ASSUME NEW S, IsFiniteSet(S), NEW f \in [S -> Nat]
  PROVE  Sum(f) \in Nat
<1> DEFINE zero == [x \in S |-> 0]
<1>1. f \in [S -> Int] /\ zero \in [S -> Int] /\ \A x \in S : zero[x] <= f[x] /\ zero[x] = 0
  OBVIOUS
<1>2. Cardinality(S) \in Int
  BY FS_CardinalityType
<1> HIDE DEF zero
<1>3. Sum(zero) = 0 * Cardinality(S) /\ Sum(zero) <= Sum(f) /\ Sum(f) \in Int
  <2>1. Sum(zero) = 0 * Cardinality(S)
    BY <1>1, SumConstant
  <2>2. Sum(zero) <= Sum(f)
    BY <1>1, SumMonotone
  <2>3. Sum(f) \in Int
    BY <1>1, SumOver
  <2> QED BY <2>1, <2>2, <2>3
<1>4. Sum(zero) = 0
  BY <1>2, <1>3
<1> QED BY <1>3, <1>4

LEMMA PairsExist == Cardinality(Pairs) \in Nat \ {0} /\ Cardinality(Teams) \in Nat
<1> DEFINE p == Cardinality(Pairs)
           n == Cardinality(Teams)
<1>1. n \in Nat /\ n >= 2 /\ p \in Nat
  BY PairsFinite, FS_CardinalityType, BoundsAssumption, QuotaAssumption
<1>2. 2 * p = n * (n - 1)
  BY NumberOfPairs, BoundsAssumption DEF Pairs
<1> HIDE DEF p, n
<1>3. n * (n - 1) >= 2
  BY <1>1
<1>4. p # 0
  BY <1>1, <1>2, <1>3
<1> QED BY <1>1, <1>4 DEF p, n

\* Squares are least when encounters are spread evenly: x*x is never below the
\* line through the squares of two neighbours q and q + 1.
LEMMA EvenIsLeast ==
  ASSUME NEW table \in [Pairs -> Nat], NEW perTeam \in Nat,
         Cardinality(Teams) * perTeam <= 2 * Sum(table)
  PROVE  QuadFloor(perTeam) \in Nat /\ Squares(table) \in Nat /\ QuadFloor(perTeam) <= Squares(table)
<1> DEFINE P == Cardinality(Pairs)
           N == Cardinality(Teams)
           total == (N * perTeam) \div 2
           q == total \div P
           h == total - q * P
           one == [p \in Pairs |-> 1]
           sq == [p \in Pairs |-> table[p] * table[p]]
           a == 2 * q + 1
           b == -(q * (q + 1))
           line == [p \in Pairs |-> a * table[p] + b * one[p]]
<1>1. P \in Nat \ {0} /\ N \in Nat
  BY PairsExist
<1>2. total \in Nat /\ 2 * total <= N * perTeam
  <2> DEFINE x == N * perTeam
  <2>1. x \in Nat
    BY <1>1
  <2> HIDE DEF x
  <2>2. x \div 2 \in Nat /\ 2 * (x \div 2) <= x
    BY <2>1
  <2> QED BY <2>2 DEF x
<1> HIDE DEF total
<1>3. q \in Nat /\ h \in Nat /\ h < P
  <2> HIDE DEF P
  <2>1. total \div P \in Nat /\ (total \div P) * P <= total /\ total < (total \div P) * P + P
    BY <1>1, <1>2
  <2>2. (total \div P) * P \in Int
    BY <1>1, <2>1
  <2> QED BY <1>1, <1>2, <2>1, <2>2
<1>4. QuadFloor(perTeam) = h * (q + 1) * (q + 1) + (P - h) * q * q
  BY DEF QuadFloor, total
<1> HIDE DEF P, N, q
<1>5. h * (q + 1) * (q + 1) + (P - h) * q * q = a * total + b * P
  <2> HIDE DEF h, a, b
  <2>1. h = total - q * P /\ a = 2 * q + 1 /\ b = -(q * (q + 1))
    BY DEF h, a, b
  <2>2. h \in Int /\ q \in Int /\ P \in Int /\ total \in Int
    BY <1>1, <1>2, <1>3
  <2>3. h * (q + 1) * (q + 1) + (P - h) * q * q = (2 * q + 1) * total - P * (q * (q + 1))
    BY <2>1, <2>2
  <2>4. (2 * q + 1) * total - P * (q * (q + 1)) = a * total + b * P
    BY <2>1, <2>2
  <2> QED BY <2>3, <2>4
<1>6. h * (q + 1) * (q + 1) + (P - h) * q * q \in Nat
  <2> HIDE DEF h
  <2>1. P - h \in Nat /\ q + 1 \in Nat
    BY <1>1, <1>3
  <2> DEFINE d == P - h
  <2>2. d \in Nat
    BY <2>1
  <2> HIDE DEF d
  <2>3. h * (q + 1) * (q + 1) \in Nat /\ d * q * q \in Nat
    BY <1>3, <2>2
  <2> QED BY <2>3 DEF d
<1>7. a \in Nat /\ b \in Int
  BY <1>3
<1>8. IsFiniteSet(Pairs) /\ table \in [Pairs -> Int] /\ one \in [Pairs -> Int]
  BY PairsFinite
<1>9. sq \in [Pairs -> Nat] /\ Squares(table) = Sum(sq)
  <2>1. DOMAIN table = Pairs
    OBVIOUS
  <2> QED BY <2>1 DEF Squares
<1>10. line \in [Pairs -> Int] /\ \A p \in Pairs : line[p] = a * table[p] + b * one[p]
  <2> HIDE DEF a, b
  <2> QED BY <1>7, <1>8
<1>11. \A p \in Pairs : line[p] <= sq[p]
  <2> TAKE p \in Pairs
  <2> DEFINE x == table[p]
  <2>1. x \in Int /\ q \in Int
    BY <1>3
  <2>2. line[p] = (2 * q + 1) * x + (-(q * (q + 1))) * 1 /\ sq[p] = x * x
    OBVIOUS
  <2> HIDE DEF x, line, sq
  <2>3. x * x >= (2 * q + 1) * x - q * (q + 1)
    BY <2>1
  <2> QED BY <2>1, <2>2, <2>3
<1>12. Sum(line) = a * Sum(table) + b * Sum(one)
  <2>1. a \in Int /\ b \in Int
    BY <1>7
  <2>2. IsFiniteSet(Pairs) /\ table \in [Pairs -> Int] /\ one \in [Pairs -> Int]
    BY <1>8
  <2>3. line \in [Pairs -> Int] /\ Combines(line, a, table, b, one)
    BY <1>10 DEF Combines
  <2> HIDE DEF a, b, line, one
  <2> QED BY <2>1, <2>2, <2>3, SumLinear
<1>13. Sum(one) = P
  <2>1. \A p \in Pairs : one[p] = 1
    OBVIOUS
  <2> HIDE DEF one
  <2>2. Sum(one) = 1 * Cardinality(Pairs)
    BY <1>8, <2>1, SumConstant
  <2> QED BY <1>1, <2>2 DEF P
<1>14. Sum(line) <= Sum(sq)
  <2>1. sq \in [Pairs -> Int]
    BY <1>9
  <2> HIDE DEF line, sq
  <2> QED BY <1>8, <1>10, <1>11, <2>1, SumMonotone
<1>15. Sum(table) \in Nat /\ Sum(sq) \in Nat
  <2> HIDE DEF sq
  <2> QED BY <1>8, <1>9, SumNat
<1>16. total <= Sum(table)
  <2> DEFINE x == N * perTeam
  <2>1. x \in Int /\ 2 * total <= x /\ x <= 2 * Sum(table)
    BY <1>1, <1>2 DEF N
  <2> HIDE DEF x
  <2> QED BY <1>2, <1>15, <2>1
<1>17. a * total + b * P <= a * Sum(table) + b * P
  <2> HIDE DEF a, b
  <2>1. a * total <= a * Sum(table)
    BY <1>2, <1>7, <1>15, <1>16
  <2>2. a * total \in Int /\ a * Sum(table) \in Int /\ b * P \in Int
    BY <1>1, <1>2, <1>7, <1>15
  <2> QED BY <2>1, <2>2
<1> DEFINE s == a * Sum(table) + b * P
           r == a * total + b * P
<1>18. s \in Int /\ r \in Int /\ r <= s /\ s <= Sum(sq)
  <2>1. a * Sum(table) \in Int /\ b * P \in Int /\ a * total \in Int
    BY <1>1, <1>2, <1>7, <1>15
  <2>2. s <= Sum(sq)
    BY <1>12, <1>13, <1>14
  <2> QED BY <1>17, <2>1, <2>2
<1>19. QuadFloor(perTeam) = r
  BY <1>4, <1>5
<1> HIDE DEF s, r, sq
<1> QED BY <1>4, <1>6, <1>9, <1>15, <1>18, <1>19

\* A schedule with as many matches as the quota needs.
Fits(w, D) == IsFiniteSet(D) /\ w \in [D -> Matches] /\ Cardinality(D) = TotalMatches

LEMMA MatchesNeeded ==
  /\ TotalMatches \in Nat \ {0} /\ TotalSlots \in Nat
  /\ TotalSlots <= TotalMatches * (2 * Alliance)
  /\ TotalMatches * (2 * Alliance) <= TotalSlots + 2 * Alliance - 1
<1> DEFINE n == Cardinality(Teams)
           k == 2 * Alliance
           x == TotalSlots
<1>1. n \in Nat /\ n >= 2 /\ k \in Nat \ {0} /\ Quota \in Nat \ {0}
  BY PairsExist, QuotaAssumption, BoundsAssumption
<1>2. x = n * Quota
  BY DEF TotalSlots
<1> HIDE DEF n, k, x
<1>3. x \in Nat \ {0}
  BY <1>1, <1>2
<1> DEFINE y == x + k - 1
           d == y \div k
<1>4. y \in Nat
  BY <1>1, <1>3
<1> HIDE DEF y
<1>5. d \in Nat /\ d * k <= y /\ y < d * k + k
  BY <1>1, <1>4
<1>6. TotalMatches = d
  BY DEF TotalMatches, CeilDiv, d, y, x, k
<1> HIDE DEF d
<1>7. d * k \in Nat
  BY <1>1, <1>5
<1>8. x <= d * k /\ d * k <= x + k - 1
  BY <1>1, <1>3, <1>5, <1>7 DEF y
<1>9. d # 0
  BY <1>1, <1>3, <1>8
<1> QED BY <1>3, <1>5, <1>6, <1>8, <1>9 DEF k, x

LEMMA SurplusIsFlagged ==
  ASSUME NEW D, NEW w, Fits(w, D), QuotaIsPlayed(w)
  PROVE  /\ Built(w).sur \in [Teams -> Nat]
         /\ Sum(Built(w).sur) = TotalMatches * 2 * Alliance - TotalSlots
<1> DEFINE sur == Built(w).sur
           played == [t \in Teams |-> Count(Plays(w, t))]
           one == [t \in Teams |-> 1]
           N == Cardinality(Teams)
           M == TotalMatches
           A == 2 * Alliance
<1>1. IsFiniteSet(D) /\ w \in [D -> Matches] /\ Cardinality(D) = M
  BY DEF Fits
<1>2. sur = [t \in Teams |-> Count(SurrogateIn(w, t))]
  BY DEF Built, SurrogateIn
<1>3. sur \in [Teams -> Nat]
  <2>1. \A t \in Teams : SurrogateIn(w, t) \in SUBSET D
    BY <1>1 DEF SurrogateIn
  <2>2. \A t \in Teams : Count(SurrogateIn(w, t)) \in Nat
    BY <1>1, <2>1, CountNat
  <2> QED BY <1>2, <2>2
<1>4. played \in [Teams -> Int] /\ Sum(played) = A * M
  BY <1>1, PlaysSum
<1>5. one \in [Teams -> Int] /\ Sum(one) = N
  <2>1. one \in [Teams -> Int] /\ (\A t \in Teams : one[t] = 1) /\ IsFiniteSet(Teams)
    BY BoundsAssumption
  <2> HIDE DEF one
  <2>2. Sum(one) = 1 * Cardinality(Teams) /\ Cardinality(Teams) \in Nat
    BY <2>1, SumConstant, PairsExist
  <2> QED BY <2>1, <2>2
<1>6. Combines(played, Quota, one, 1, sur)
  <2>1. \A t \in Teams : /\ played[t] = Quota + sur[t] /\ one[t] = 1
                         /\ Quota \in Int /\ sur[t] \in Int
    BY <1>2, <1>3, QuotaAssumption DEF QuotaIsPlayed, SurrogateIn
  <2>2. DOMAIN played = Teams
    OBVIOUS
  <2> HIDE DEF played, one, sur
  <2> QED BY <2>1, <2>2 DEF Combines
<1>7. Sum(played) = Quota * Sum(one) + 1 * Sum(sur)
  <2>1. sur \in [Teams -> Int] /\ Quota \in Int /\ 1 \in Int
    BY <1>3, QuotaAssumption
  <2> HIDE DEF played, one, sur
  <2> QED BY <1>4, <1>5, <1>6, <2>1, SumLinear, BoundsAssumption
<1>8. Sum(sur) \in Nat
  <2> HIDE DEF sur
  <2> QED BY <1>3, SumNat, BoundsAssumption
<1>9. A \in Nat /\ M \in Nat /\ N \in Nat /\ TotalSlots = N * Quota /\ TotalMatches * 2 * Alliance = A * M
  <2>1. Alliance \in Nat
    BY BoundsAssumption
  <2> QED BY <2>1, MatchesNeeded, PairsExist DEF TotalSlots
<1> DEFINE s == Sum(sur)
<1>10. A * M = Quota * N + 1 * s
  BY <1>4, <1>5, <1>7
<1> HIDE DEF A, M, N, s
<1>11. s = A * M - N * Quota
  BY <1>8, <1>9, <1>10, QuotaAssumption DEF s
<1> HIDE DEF sur
<1>12. Sum(sur) = TotalMatches * 2 * Alliance - TotalSlots
  BY <1>9, <1>11 DEF s
<1> QED BY <1>3, <1>12 DEF sur

\* There are fewer surrogate appearances than seats in a match, and there are
\* teams for a match: somebody is no surrogate.
LEMMA SomebodyPlaysTheQuota ==
  ASSUME NEW D, NEW w, Fits(w, D), QuotaIsPlayed(w)
  PROVE  \E t \in Teams : Count(Plays(w, t)) = Quota
<1> DEFINE sur == Built(w).sur
           one == [t \in Teams |-> 1]
           N == Cardinality(Teams)
           A == 2 * Alliance
<1>1. /\ IsFiniteSet(D) /\ w \in [D -> Matches] /\ Cardinality(D) = TotalMatches
      /\ \A t \in Teams : Count(Plays(w, t)) = Quota + sur[t]
  BY DEF Fits, QuotaIsPlayed, Built
<1>2. sur \in [Teams -> Nat] /\ Sum(sur) = TotalMatches * 2 * Alliance - TotalSlots
  BY SurplusIsFlagged
<1>3. A \in Nat /\ N \in Nat /\ IsFiniteSet(Teams)
  BY BoundsAssumption, PairsExist
<1>4. Sum(sur) < A
  <2> DEFINE x == TotalMatches * (2 * Alliance)
             y == TotalSlots
  <2>1. x \in Int /\ y \in Int /\ x <= y + A - 1
    BY MatchesNeeded, BoundsAssumption
  <2>2. TotalMatches * 2 * Alliance = x
    BY MatchesNeeded, BoundsAssumption
  <2> HIDE DEF x, y, A
  <2> QED BY <1>2, <1>3, <2>1, <2>2 DEF y
<1>5. A <= N
  <2>1. D # {}
    BY <1>1, MatchesNeeded, FS_EmptySet
  <2>2. PICK i \in D : TRUE
    BY <2>1
  <2>3. w[i] \in Matches
    BY <1>1
  <2>4. InMatch(w[i]) \in SUBSET Teams /\ Cardinality(InMatch(w[i])) = A
    BY <2>3, MatchSizes
  <2> QED BY <1>3, <2>4, FS_Subset
<1>6. SUFFICES ASSUME \A t \in Teams : sur[t] >= 1 PROVE FALSE
  <2>1. \A t \in Teams : sur[t] \in Nat
    BY <1>2
  <2>2. \E t \in Teams : sur[t] = 0
    BY <1>6, <2>1
  <2> QED BY <1>1, <2>2, QuotaAssumption
<1>7. one \in [Teams -> Int] /\ sur \in [Teams -> Int] /\ (\A t \in Teams : one[t] = 1 /\ one[t] <= sur[t])
  BY <1>2, <1>6
<1> HIDE DEF one, sur, A, N
<1>8. Sum(one) = 1 * Cardinality(Teams)
  BY <1>3, <1>7, SumConstant
<1>9. Sum(one) <= Sum(sur)
  BY <1>3, <1>7, SumMonotone
<1>10. Sum(sur) \in Nat /\ Sum(one) = N
  BY <1>2, <1>3, <1>8, SumNat DEF N
<1> QED BY <1>3, <1>4, <1>5, <1>9, <1>10

\* The metrics of a schedule are natural numbers.
LEMMA MetricsAreNumbers ==
  ASSUME NEW D, IsFiniteSet(D), NEW w \in [D -> Matches]
  PROVE  /\ \A c \in Criteria : Metric(w)[c] \in Nat
         /\ \A t \in Teams : /\ Imbalance(StationTable(w))[t] <= Metric(w).color
                             /\ Spread(StationTable(w)[t]) <= Metric(w).station
<1> DEFINE built == Built(w)
           lean == Imbalance(built.st)
           spread == [t \in Teams |-> Spread(built.st[t])]
           close == [t \in Teams |-> TooClose(built.plays[t])]
           m == Metric(w)
<1>1. built.st = StationTable(w)
  BY DEF Built
<1>2. /\ m.cooldown = Sum(close) /\ m.partner = Squares(built.par) /\ m.opponent = Squares(built.opp)
      /\ m.surrogate = Sum(built.sur)
      /\ m.color = Max({lean[t] : t \in Teams}) /\ m.station = Max({spread[t] : t \in Teams})
  BY DEF Metric, Violations
<1>3. \A t \in Teams : lean[t] \in Nat /\ spread[t] \in Nat
  BY <1>1, OddLeans, UnevenSpreads
<1>4. DOMAIN lean = Teams /\ DOMAIN spread = Teams
  BY DEF Imbalance
<1>5. ASSUME NEW f, DOMAIN f = Teams, \A t \in Teams : f[t] \in Nat
      PROVE  Max({f[t] : t \in Teams}) \in Nat /\ \A t \in Teams : f[t] <= Max({f[t2] : t2 \in Teams})
  <2> DEFINE S == {f[t] : t \in Teams}
  <2>1. IsFiniteSet(S) /\ S # {} /\ S \subseteq Nat
    <3>1. IsFiniteSet({f[t] : t \in DOMAIN f}) /\ Teams # {}
      BY <1>5, ImageFinite, BoundsAssumption
    <3> QED BY <1>5, <3>1
  <2>2. \A t \in Teams : f[t] \in S
    OBVIOUS
  <2>3. Max(S) \in S /\ \A y \in S : Max(S) >= y
    <3> HIDE DEF S
    <3>1. S \subseteq Int
      BY <2>1
    <3> QED BY <2>1, <3>1, MaxIsIn
  <2>4. Max(S) \in Nat /\ \A t \in Teams : f[t] <= Max(S)
    <3> HIDE DEF S
    <3> QED BY <2>1, <2>2, <2>3, <1>5
  <2> QED BY <2>4
<1>6. /\ Max({lean[t] : t \in Teams}) \in Nat
      /\ \A t \in Teams : lean[t] <= Max({lean[t2] : t2 \in Teams})
  <2> HIDE DEF lean
  <2> QED BY <1>3, <1>4, <1>5
<1>7. /\ Max({spread[t] : t \in Teams}) \in Nat
      /\ \A t \in Teams : spread[t] <= Max({spread[t2] : t2 \in Teams})
  <2> HIDE DEF spread
  <2> QED BY <1>3, <1>4, <1>5
<1>8. Sum(close) \in Nat
  <2>1. \A t \in Teams : TooClose(built.plays[t]) \in Nat
    <3> TAKE t \in Teams
    <3> DEFINE P == built.plays[t]
               S == {i \in P : \E j \in P : j > i /\ j - i < Gap /\ \A k \in P : k <= i \/ k >= j}
    <3>1. P \in SUBSET D
      BY DEF Built, Plays
    <3>2. S \in SUBSET D
      BY <3>1
    <3>3. Count(S) \in Nat
      <4> HIDE DEF S
      <4> QED BY <3>2, CountNat
    <3> QED BY <3>3 DEF TooClose
  <2>2. close \in [Teams -> Nat]
    BY <2>1
  <2> HIDE DEF close
  <2> QED BY <2>2, SumNat, BoundsAssumption
<1>9. Sum(built.sur) \in Nat
  <2> DEFINE sur == [t \in Teams |-> Count({i \in DOMAIN w : t \in w[i].sur})]
  <2>1. \A t \in Teams : {i \in DOMAIN w : t \in w[i].sur} \in SUBSET D
    OBVIOUS
  <2>2. sur \in [Teams -> Nat] /\ built.sur = sur
    BY <2>1, CountNat DEF Built
  <2> HIDE DEF sur
  <2> QED BY <2>2, SumNat, BoundsAssumption
<1>10. Squares(built.par) \in Nat /\ Squares(built.opp) \in Nat
  <2>1. ASSUME NEW f \in [Pairs -> Nat] PROVE Squares(f) \in Nat
    <3> DEFINE sq == [p \in Pairs |-> f[p] * f[p]]
    <3>1. sq \in [Pairs -> Nat] /\ Squares(f) = Sum(sq)
      BY DEF Squares
    <3> HIDE DEF sq
    <3> QED BY <3>1, SumNat, PairsFinite
  <2>2. built.par \in [Pairs -> Nat] /\ built.opp \in [Pairs -> Nat]
    BY PairSums
  <2> HIDE DEF built
  <2> QED BY <2>1, <2>2
<1>11. \A t \in Teams : lean[t] <= m.color /\ spread[t] <= m.station
  <2> HIDE DEF lean, spread, m
  <2> QED BY <1>2, <1>6, <1>7
<1>12. \A c \in Criteria : m[c] \in Nat
  <2> HIDE DEF lean, spread, m, built, close
  <2> QED BY <1>2, <1>6, <1>7, <1>8, <1>9, <1>10 DEF Criteria
<1>13. \A t \in Teams : spread[t] = Spread(StationTable(w)[t]) /\ lean[t] = Imbalance(StationTable(w))[t]
  BY <1>1
<1> HIDE DEF lean, spread
<1> QED BY <1>11, <1>12, <1>13

LEMMA FloorsAreLow ==
  ASSUME NEW D, NEW w, Fits(w, D)
  PROVE  \A c \in Criteria :
           /\ Floor[c] \in Nat
           /\ c \in {"cooldown", "partner", "opponent"} \/ QuotaIsPlayed(w)
                => Floor[c] <= Metric(w)[c]
<1> DEFINE m == Metric(w)
           A == Alliance
           N == Cardinality(Teams)
           M == TotalMatches
           x == N * Quota
<1>1. IsFiniteSet(D) /\ w \in [D -> Matches] /\ Cardinality(D) = M
  BY DEF Fits
<1>2. A \in Nat \ {0} /\ N \in Nat /\ M \in Nat /\ Quota \in Nat \ {0} /\ x \in Nat /\ x <= M * (2 * A)
  BY BoundsAssumption, PairsExist, QuotaAssumption, MatchesNeeded DEF TotalSlots
<1>3. \A c \in Criteria : m[c] \in Nat
  BY <1>1, MetricsAreNumbers
<1>4. Floor.cooldown \in Nat /\ Floor.cooldown <= m.cooldown
  BY <1>3 DEF Floor, Criteria
<1>5. Floor.partner \in Nat /\ Floor.partner <= m.partner
  <2> DEFINE par == Built(w).par
             p == Quota * (A - 1)
  <2>1. par \in [Pairs -> Nat] /\ Sum(par) = A * (A - 1) * M
    BY <1>1, PairSums
  <2>2. N * p <= 2 * Sum(par) /\ p \in Nat
    <3> DEFINE b == A - 1
    <3>1. b \in Nat /\ x * b <= (M * (2 * A)) * b
      BY <1>2
    <3> HIDE DEF A, N, M, b
    <3>2. x * b = N * (Quota * b)
      BY <1>2, <3>1
    <3>3. (M * (2 * A)) * b = 2 * (A * b * M)
      BY <1>2, <3>1
    <3>4. Quota * b \in Nat
      BY <1>2, <3>1
    <3> QED BY <2>1, <3>1, <3>2, <3>3, <3>4 DEF b
  <2>3. m.partner = Squares(par) /\ Floor.partner = QuadFloor(p)
    BY DEF Metric, Floor
  <2> HIDE DEF par, p, m
  <2> QED BY <2>1, <2>2, <2>3, EvenIsLeast
<1>6. Floor.opponent \in Nat /\ Floor.opponent <= m.opponent
  <2> DEFINE opp == Built(w).opp
             p == Quota * A
  <2>1. opp \in [Pairs -> Nat] /\ Sum(opp) = A * A * M
    BY <1>1, PairSums
  <2>2. N * p <= 2 * Sum(opp) /\ p \in Nat
    <3> HIDE DEF A, N, M
    <3>1. x * A <= (M * (2 * A)) * A
      BY <1>2
    <3>2. x * A = N * (Quota * A)
      BY <1>2
    <3>3. (M * (2 * A)) * A = 2 * (A * A * M)
      BY <1>2
    <3>4. Quota * A \in Nat
      BY <1>2
    <3> QED BY <2>1, <3>1, <3>2, <3>3, <3>4
  <2>3. m.opponent = Squares(opp) /\ Floor.opponent = QuadFloor(p)
    BY DEF Metric, Floor
  <2> HIDE DEF opp, p, m
  <2> QED BY <2>1, <2>2, <2>3, EvenIsLeast
<1>7. Floor.surrogate \in Nat /\ (QuotaIsPlayed(w) => Floor.surrogate <= m.surrogate)
  <2> DEFINE sur == Built(w).sur
             most == TotalMatches * (2 * Alliance)
             left == TotalMatches * 2 * Alliance - TotalSlots
  <2>1. m.surrogate = Sum(sur) /\ Floor.surrogate = left
    BY DEF Metric, Floor
  <2>2. left \in Nat
    <3>1. most \in Nat /\ TotalSlots \in Nat /\ TotalSlots <= most
      BY <1>2, MatchesNeeded
    <3>2. left = most - TotalSlots
      BY <1>2
    <3> HIDE DEF most, left
    <3> QED BY <3>1, <3>2
  <2>3. CASE QuotaIsPlayed(w)
    <3>1. sur \in [Teams -> Nat] /\ Sum(sur) = left
      BY <2>3, SurplusIsFlagged
    <3> HIDE DEF sur, m, left
    <3> QED BY <2>1, <2>2, <3>1
  <2>4. CASE ~QuotaIsPlayed(w)
    BY <2>1, <2>2, <2>4
  <2> QED BY <2>3, <2>4
<1>8. QuotaIsPlayed(w) => \E t \in Teams : Count(Plays(w, t)) = Quota
  BY SomebodyPlaysTheQuota
<1>9. Floor.color \in Nat /\ (QuotaIsPlayed(w) => Floor.color <= m.color)
  <2>1. Floor.color = Quota % 2 /\ Quota % 2 \in {0, 1}
    BY <1>2 DEF Floor
  <2>2. ASSUME QuotaIsPlayed(w) PROVE Floor.color <= m.color
    <3>1. PICK t \in Teams : Count(Plays(w, t)) = Quota
      BY <1>8, <2>2
    <3>2. Imbalance(StationTable(w))[t] <= m.color /\ m.color \in Nat
      BY <1>1, <1>3, MetricsAreNumbers DEF Criteria
    <3>3. /\ Imbalance(StationTable(w))[t] \in Nat
          /\ Quota % 2 = 1 => Imbalance(StationTable(w))[t] >= 1
      BY <1>1, <3>1, OddLeans
    <3> HIDE DEF m
    <3> QED BY <2>1, <3>2, <3>3
  <2> QED BY <2>1, <2>2
<1>10. Floor.station \in Nat /\ (QuotaIsPlayed(w) => Floor.station <= m.station)
  <2>1. Floor.station = IF Quota % (2 * Alliance) = 0 THEN 0 ELSE 1
    BY DEF Floor
  <2>2. ASSUME QuotaIsPlayed(w) PROVE Floor.station <= m.station
    <3>1. PICK t \in Teams : Count(Plays(w, t)) = Quota
      BY <1>8, <2>2
    <3>2. Spread(StationTable(w)[t]) <= m.station /\ m.station \in Nat
      BY <1>1, <1>3, MetricsAreNumbers DEF Criteria
    <3>3. /\ Spread(StationTable(w)[t]) \in Nat
          /\ Quota % (2 * Alliance) # 0 => Spread(StationTable(w)[t]) >= 1
      BY <1>1, <3>1, UnevenSpreads
    <3> HIDE DEF m
    <3> QED BY <2>1, <3>2, <3>3
  <2> QED BY <2>1, <2>2
<1> HIDE DEF m
<1>11. \A c \in Criteria :
         /\ Floor[c] \in Nat
         /\ c \in {"cooldown", "partner", "opponent"} \/ QuotaIsPlayed(w) => Floor[c] <= m[c]
  BY <1>4, <1>5, <1>6, <1>7, <1>9, <1>10 DEF Criteria
<1> QED BY <1>11 DEF m

-----------------------------------------------------------------------------
\* Points.
LEMMA MaxOfTwo ==
  ASSUME NEW x \in Int, NEW y \in Int
  PROVE  /\ Max({x, y}) = (IF x >= y THEN x ELSE y)
         /\ Min({x, y}) = (IF x <= y THEN x ELSE y)
<1> DEFINE S == {x, y}
<1>1. IsFiniteSet(S)
  <2>1. IsFiniteSet({x} \cup {y})
    BY FS_Singleton, FS_AddElement
  <2> QED BY <2>1
<1>2. S # {} /\ S \subseteq Int
  OBVIOUS
<1>3. Max(S) \in S /\ Min(S) \in S /\ \A z \in S : Max(S) >= z /\ Min(S) <= z
  <2> HIDE DEF S
  <2> QED BY <1>1, <1>2, MaxIsIn, MinIsIn
<1> DEFINE a == Max(S)
           b == Min(S)
<1>4. (a = x \/ a = y) /\ (b = x \/ b = y) /\ a >= x /\ a >= y /\ b <= x /\ b <= y
  BY <1>3
<1> HIDE DEF a, b
<1>5. a = (IF x >= y THEN x ELSE y) /\ b = (IF x <= y THEN x ELSE y)
  BY <1>4
<1> QED BY <1>5 DEF a, b

LEMMA Clipped ==
  ASSUME NEW x \in Int, NEW y \in Int, y <= x, x <= Full,
         NEW a, a = (IF 0 >= x THEN 0 ELSE x), NEW b, b = (IF 0 >= y THEN 0 ELSE y)
  PROVE  a \in 0 .. Full /\ b \in 0 .. Full /\ b <= a
<1>1. Full \in Int /\ 0 <= Full
  BY DEF Full
<1>2. /\ a \in Int /\ (0 >= x => a = 0) /\ (~(0 >= x) => a = x)
      /\ b \in Int /\ (0 >= y => b = 0) /\ (~(0 >= y) => b = y)
  OBVIOUS
<1> HIDE DEF Full
<1> QED BY <1>1, <1>2

\* A curve stays within its points and never rises with the value.
LEMMA CurvesFall ==
  ASSUME NEW c \in Criteria, NEW f \in Nat, NEW v \in Nat, NEW u \in Nat, v <= u
  PROVE  /\ Curve(c, v, f) \in 0 .. Full /\ Curve(c, u, f) \in 0 .. Full
         /\ Curve(c, u, f) <= Curve(c, v, f)
<1> DEFINE d == Above(v, f)
           e == Above(u, f)
<1>1. d \in Nat /\ e \in Nat /\ d <= e
  <2>1. v - f \in Int /\ u - f \in Int
    OBVIOUS
  <2>2. /\ d = (IF 0 >= v - f THEN 0 ELSE v - f)
        /\ e = (IF 0 >= u - f THEN 0 ELSE u - f)
    BY <2>1, MaxOfTwo DEF Above
  <2> HIDE DEF d, e
  <2> QED BY <2>2
<1> HIDE DEF d, e
<1>2. Full = 100000
  BY DEF Full
<1>3. CASE c = "cooldown"
  <2>1. Curve(c, v, f) = (IF d = 0 THEN Full ELSE 0) /\ Curve(c, u, f) = (IF e = 0 THEN Full ELSE 0)
    BY <1>3 DEF Curve, d, e
  <2> QED BY <1>1, <1>2, <2>1
<1>4. CASE c \in {"partner", "opponent"} /\ f = 0
  <2>1. Curve(c, v, f) = (IF d = 0 THEN Full ELSE 0) /\ Curve(c, u, f) = (IF e = 0 THEN Full ELSE 0)
    BY <1>4 DEF Curve, d, e
  <2> QED BY <1>1, <1>2, <2>1
<1>5. CASE c \in {"partner", "opponent"} /\ f > 0
  <2> DEFINE ff == f * f
             dd == d * d
             ee == e * e
             x == (Full * (ff - dd)) \div ff
             y == (Full * (ff - ee)) \div ff
  <2>1. Curve(c, v, f) = Max({0, x}) /\ Curve(c, u, f) = Max({0, y})
    BY <1>5 DEF Curve, d, e
  <2>2. ff \in Nat \ {0} /\ dd \in Nat /\ ee \in Nat /\ dd <= ee
    <3>1. d * d <= d * e /\ d * e <= e * e
      BY <1>1
    <3> QED BY <1>1, <1>5, <3>1
  <2> HIDE DEF ff, dd, ee
  <2>3. x \in Int /\ y \in Int /\ y <= x /\ x <= Full
    <3> DEFINE p == Full * (ff - dd)
               q == Full * (ff - ee)
               r == Full * ff
    <3>1. p \in Int /\ q \in Int /\ q <= p /\ p <= r /\ r \in Int
      BY <1>2, <2>2
    <3> HIDE DEF p, q
    <3>2. p \div ff \in Int /\ q \div ff \in Int /\ q \div ff <= p \div ff
      BY <2>2, <3>1
    <3>3. (p \div ff) * ff <= p
      BY <2>2, <3>1
    <3> DEFINE z == p \div ff
    <3>4. z * ff <= Full * ff /\ z \in Int
      <4>1. z * ff <= p /\ z \in Int /\ p <= Full * ff
        BY <3>1, <3>2, <3>3
      <4> HIDE DEF z
      <4>2. z * ff \in Int /\ Full * ff \in Int
        BY <1>2, <2>2, <4>1
      <4> DEFINE k == z * ff
                 l == Full * ff
      <4>3. k <= p /\ p <= l /\ k \in Int /\ l \in Int
        BY <4>1, <4>2
      <4> HIDE DEF k, l
      <4>4. k <= l
        BY <3>1, <4>3
      <4> QED BY <4>1, <4>4 DEF k, l
    <3> HIDE DEF z
    <3>5. z <= Full
      <4> SUFFICES ASSUME z >= Full + 1 PROVE FALSE
        BY <1>2, <3>4
      <4>1. z * ff >= (Full + 1) * ff
        BY <1>2, <2>2, <3>4
      <4>2. (Full + 1) * ff = Full * ff + ff /\ Full * ff \in Int
        BY <1>2, <2>2
      <4>3. z * ff \in Int
        BY <2>2, <3>4
      <4> QED BY <2>2, <3>4, <4>1, <4>2, <4>3
    <3> QED BY <3>2, <3>5 DEF z, p, q
  <2> HIDE DEF x, y
  <2>4. /\ Curve(c, v, f) = (IF 0 >= x THEN 0 ELSE x)
        /\ Curve(c, u, f) = (IF 0 >= y THEN 0 ELSE y)
    BY <2>1, <2>3, MaxOfTwo
  <2> QED BY <2>3, <2>4, Clipped
<1>6. CASE c \notin {"cooldown", "partner", "opponent"}
  <2> DEFINE x == Full - d * 25000
             y == Full - e * 25000
  <2>1. Curve(c, v, f) = Max({0, x}) /\ Curve(c, u, f) = Max({0, y})
    BY <1>6 DEF Curve, d, e
  <2>2. x \in Int /\ y \in Int /\ y <= x /\ x <= Full
    BY <1>1, <1>2
  <2> HIDE DEF x, y
  <2>3. /\ Curve(c, v, f) = (IF 0 >= x THEN 0 ELSE x)
        /\ Curve(c, u, f) = (IF 0 >= y THEN 0 ELSE y)
    BY <2>1, <2>2, MaxOfTwo
  <2> QED BY <2>2, <2>3, Clipped
<1>7. f = 0 \/ f > 0
  OBVIOUS
<1> QED BY <1>3, <1>4, <1>5, <1>6, <1>7 DEF Criteria

LEMMA WeightsAreNumbers ==
  /\ \A c \in Criteria : Weight(c) \in Nat
  /\ Weight("cooldown") >= 10 /\ IsFiniteSet(Criteria)
<1>1. ASSUME NEW c \in Criteria PROVE Weight(c) \in Nat /\ (c = "cooldown" => Weight(c) >= 10)
  <2> DEFINE x == Weights[c]
             y == Min({50, x})
             z == Max({0, y})
  <2>1. x \in Int
    BY QuotaAssumption
  <2> HIDE DEF x
  <2>2. y \in Int
    BY <2>1, MaxOfTwo
  <2> HIDE DEF y
  <2>3. z \in Nat
    <3>1. z = IF 0 >= y THEN 0 ELSE y
      BY <2>2, MaxOfTwo
    <3> QED BY <2>2, <3>1
  <2> HIDE DEF z
  <2>4. Max({10, z}) = IF 10 >= z THEN 10 ELSE z
    BY <2>3, MaxOfTwo
  <2>5. Weight(c) = IF c = "cooldown" THEN Max({10, z}) ELSE z
    BY DEF Weight, x, y, z
  <2> QED BY <2>3, <2>4, <2>5
<1>2. IsFiniteSet(Criteria)
  <2>1. IsFiniteSet({"cooldown"})
    BY FS_Singleton
  <2>2. IsFiniteSet({"cooldown"} \cup {"partner"} \cup {"opponent"} \cup {"surrogate"}
                      \cup {"color"} \cup {"station"})
    BY <2>1, FS_AddElement
  <2>3. Criteria = {"cooldown"} \cup {"partner"} \cup {"opponent"} \cup {"surrogate"}
                      \cup {"color"} \cup {"station"}
    BY DEF Criteria
  <2> QED BY <2>2, <2>3
<1>3. "cooldown" \in Criteria
  BY DEF Criteria
<1> QED BY <1>1, <1>2, <1>3

\* Organisers' weights are clamped, and one of them is never zero: a composite
\* is a weighted mean of curves, so it is a number of points and falls as they do.
LEMMA MeansFall ==
  ASSUME NEW a \in Int, NEW b \in Int, NEW w \in Nat, w >= 10,
         0 <= a, a <= b, b <= Full * w
  PROVE  a \div w \in 0 .. Full /\ b \div w \in 0 .. Full /\ a \div w <= b \div w
<1> DEFINE x == a \div w
           y == b \div w
<1>1. Full \in Nat
  BY DEF Full
<1> HIDE DEF Full
<1>2. x \in Nat /\ y \in Nat /\ x <= y
  OBVIOUS
<1>3. y * w <= b
  OBVIOUS
<1> HIDE DEF x, y
<1>4. y <= Full
  <2> SUFFICES ASSUME y >= Full + 1 PROVE FALSE
    BY <1>1, <1>2
  <2>1. y * w >= (Full + 1) * w /\ (Full + 1) * w = Full * w + w
    BY <1>1, <1>2
  <2> DEFINE k == y * w
             l == Full * w
  <2>2. k \in Int /\ l \in Int /\ k >= l + w /\ k <= b /\ b <= l
    BY <1>1, <1>2, <1>3, <2>1
  <2> HIDE DEF k, l
  <2> QED BY <2>2
<1> QED BY <1>1, <1>2, <1>4 DEF x, y

LEMMA TermInSum ==
  ASSUME NEW S, IsFiniteSet(S), NEW f \in [S -> Nat]
  PROVE  Sum(f) \in Nat /\ \A y \in S : f[y] <= Sum(f)
<1> DEFINE P == {s \in SUBSET S : Part(f, s) \in Nat /\ \A y \in s : f[y] <= Part(f, s)}
<1>1. {} \in P
  BY PartIs
<1>2. ASSUME NEW s \in SUBSET S, s # {}, s \ {Pick(s)} \in P PROVE s \in P
  <2> DEFINE x == Pick(s)
             r == s \ {x}
             b == Part(f, r)
  <2>1. Part(f, s) = f[x] + b /\ x \in s /\ f[x] \in Nat
    BY <1>2, PartIs, PickIn
  <2>2. b \in Nat /\ \A y \in r : f[y] <= b
    BY <1>2
  <2>3. \A y \in s : y = x \/ y \in r
    OBVIOUS
  <2>4. \A y \in s : f[y] \in Nat
    BY <1>2
  <2> HIDE DEF x, b, r
  <2>5. Part(f, s) \in Nat /\ \A y \in s : f[y] <= Part(f, s)
    BY <2>1, <2>2, <2>3, <2>4
  <2> QED BY <2>5
<1>3. SUBSET S \subseteq P
  <2> HIDE DEF P
  <2> QED BY <1>1, <1>2, EverySubset
<1> QED BY <1>3, PartIs

WeightTable == [c \in Criteria |-> Weight(c)]

LEMMA WeightsSum ==
  /\ IsFiniteSet(Criteria) /\ WeightTable \in [Criteria -> Int]
  /\ Sum(WeightTable) \in Nat /\ Sum(WeightTable) >= 10
<1>1. IsFiniteSet(Criteria) /\ WeightTable \in [Criteria -> Nat] /\ WeightTable["cooldown"] >= 10
  <2>1. "cooldown" \in Criteria
    BY DEF Criteria
  <2> QED BY <2>1, WeightsAreNumbers DEF WeightTable
<1>2. Sum(WeightTable) \in Nat /\ WeightTable["cooldown"] <= Sum(WeightTable)
  <2>1. "cooldown" \in Criteria
    BY DEF Criteria
  <2> QED BY <1>1, <2>1, TermInSum
<1>3. WeightTable["cooldown"] \in Int
  <2>1. "cooldown" \in Criteria
    BY DEF Criteria
  <2> QED BY <1>1, <2>1
<1> QED BY <1>1, <1>2, <1>3

Weighted(m)   == [c \in Criteria |-> Weight(c) * Curve(c, m[c], Against(c))]
Measures(m)   == \A c \in Criteria : m[c] \in Nat
Betters(m, n) == \A c \in Criteria : m[c] <= n[c]

LEMMA WeightedFalls ==
  ASSUME NEW m, NEW n, Measures(m), Measures(n), Betters(m, n),
         \A c \in Criteria : Against(c) \in Nat
  PROVE  /\ Weighted(m) \in [Criteria -> Int] /\ Weighted(n) \in [Criteria -> Int]
         /\ \A c \in Criteria : /\ 0 <= Weighted(n)[c] /\ Weighted(n)[c] <= Weighted(m)[c]
                                /\ Weighted(m)[c] <= Full * WeightTable[c]
<1>1. ASSUME NEW c \in Criteria
      PROVE  /\ Weighted(m)[c] \in Int /\ Weighted(n)[c] \in Int
             /\ 0 <= Weighted(n)[c] /\ Weighted(n)[c] <= Weighted(m)[c]
             /\ Weighted(m)[c] <= Full * WeightTable[c]
  <2> DEFINE w == Weight(c)
             x == Curve(c, m[c], Against(c))
             y == Curve(c, n[c], Against(c))
  <2>1. m[c] \in Nat /\ n[c] \in Nat /\ m[c] <= n[c] /\ Against(c) \in Nat
    BY <1>1 DEF Measures, Betters
  <2>2. x \in 0 .. Full /\ y \in 0 .. Full /\ y <= x
    BY <2>1, CurvesFall
  <2>3. w \in Nat /\ Weighted(m)[c] = w * x /\ Weighted(n)[c] = w * y /\ WeightTable[c] = w
    BY WeightsAreNumbers DEF Weighted, WeightTable
  <2> HIDE DEF w, x, y
  <2>4. Full \in Nat
    BY DEF Full
  <2>5. x \in Nat /\ y \in Nat /\ x <= Full /\ y <= x
    BY <2>2, <2>4
  <2> HIDE DEF Full
  <2>6. w * x \in Int /\ w * y \in Int /\ 0 <= w * y /\ w * y <= w * x /\ w * x <= Full * w
    BY <2>3, <2>4, <2>5
  <2> QED BY <2>3, <2>6
<1> QED BY <1>1 DEF Weighted

LEMMA PointsFall ==
  ASSUME NEW m, NEW n, Measures(m), Measures(n), Betters(m, n),
         \A c \in Criteria : Against(c) \in Nat
  PROVE  Uncapped(m) \in 0 .. Full /\ Uncapped(m) >= Uncapped(n)
<1> DEFINE zero == [c \in Criteria |-> 0]
           top == [c \in Criteria |-> Full * WeightTable[c]]
           f == Weighted(m)
           g == Weighted(n)
           W == Sum(WeightTable)
           a == Sum(g)
           b == Sum(f)
<1>1. Full \in Nat
  BY DEF Full
<1>2. W \in Nat /\ W >= 10 /\ IsFiniteSet(Criteria) /\ WeightTable \in [Criteria -> Int]
  BY WeightsSum
<1> HIDE DEF Full
<1>3. /\ f \in [Criteria -> Int] /\ g \in [Criteria -> Int]
      /\ \A c \in Criteria : 0 <= g[c] /\ g[c] <= f[c] /\ f[c] <= Full * WeightTable[c]
  BY WeightedFalls
<1>4. zero \in [Criteria -> Int] /\ top \in [Criteria -> Int]
      /\ \A c \in Criteria : zero[c] = 0 /\ zero[c] <= g[c] /\ f[c] <= top[c]
  BY <1>1, <1>2, <1>3
<1>5. Uncapped(m) = b \div W /\ Uncapped(n) = a \div W
  BY DEF Uncapped, Weighted, WeightTable
<1>6. Combines(top, Full, WeightTable, 0, WeightTable)
  BY <1>1, <1>2 DEF Combines
<1> HIDE DEF zero, top, f, g
<1>7. Sum(top) = Full * W + 0 * W
  <2>1. Full \in Int /\ 0 \in Int
    BY <1>1
  <2> QED BY <1>2, <1>4, <1>6, <2>1, SumLinear
<1>8. Sum(zero) = 0 * Cardinality(Criteria)
  <2>1. 0 \in Int
    OBVIOUS
  <2> QED BY <1>2, <1>4, <2>1, SumConstant
<1>9. Sum(zero) <= a /\ a <= b /\ b <= Sum(top)
  BY <1>2, <1>3, <1>4, SumMonotone
<1>10. a \in Int /\ b \in Int
  BY <1>2, <1>3, SumIsInt
<1>11. Cardinality(Criteria) \in Nat
  BY <1>2, FS_CardinalityType
<1> HIDE DEF a, b, W
<1>12. Sum(zero) = 0
  BY <1>8, <1>11
<1>13. Sum(top) = Full * W
  BY <1>1, <1>2, <1>7
<1>14. 0 <= a /\ a <= b /\ b <= Full * W
  BY <1>9, <1>12, <1>13
<1> QED BY <1>2, <1>5, <1>10, <1>14, MeansFall

\* What every search keeps of its input has the matches, and the appearances and
\* flags of every team, that the input has.
LEMMA EverySearchFits ==
  ASSUME NEW w, start \in Starts, w \in [DOMAIN start -> Matches], SameLoads(w, start)
  PROVE  Fits(w, DOMAIN start) /\ (QuotaIsPlayed(start) => QuotaIsPlayed(w))
<1> DEFINE D == DOMAIN start
<1>1. IsFiniteSet(D) /\ start \in [D -> Matches]
  BY StartIsSchedule
<1>2. Cardinality(D) = TotalMatches
  <2>1. start \in Seq(Matches) /\ Len(start) = TotalMatches
    BY StartsAssumption, MatchesAssumption
  <2>2. Len(start) \in Nat /\ D = 1 .. Len(start)
    BY <2>1
  <2> DEFINE n == Len(start)
  <2>3. Cardinality(1 .. n) = n
    <3>1. 1 \in Int /\ n \in Int /\ n \in Nat
      BY <2>2
    <3> HIDE DEF n
    <3>2. Cardinality(1 .. n) = IF 1 > n THEN 0 ELSE n - 1 + 1
      BY <3>1, FS_Interval
    <3> QED BY <3>1, <3>2
  <2> QED BY <2>1, <2>2, <2>3
<1>3. ASSUME QuotaIsPlayed(start) PROVE QuotaIsPlayed(w)
  BY <1>3 DEF QuotaIsPlayed, SameLoads, SurrogateIn
<1> QED BY <1>1, <1>2, <1>3 DEF Fits

\* The floors that quality_floors.py calls proven are below what any schedule of
\* the searches achieves: those of cooldown, partners and opponents for whatever
\* the construction hands over, those of surrogates, colours and stations where
\* every team plays its quota but for its flagged appearances.  And whatever the
\* weights and the library's best-known values, the composite is a number of
\* points from 0 to 100 that does not fall when no criterion gets worse.
THEOREM GradesHold == Spec => []GradesStand
<1>1. ASSUME IInv PROVE GradesStand
  <2> DEFINE m == Metric(work)
             n == Metric(start)
             D == DOMAIN start
  <2>1. /\ start \in Starts /\ IsFiniteSet(D) /\ start \in [D -> Matches]
        /\ work \in [D -> Matches] /\ SameLoads(work, start)
    BY <1>1, StartIsSchedule DEF IInv, Books
  <2>2. \A c \in Criteria :
          /\ Floor[c] \in Nat
          /\ c \in {"cooldown", "partner", "opponent"} \/ QuotaIsPlayed(start) => Floor[c] <= m[c]
    <3>1. Fits(work, D) /\ (QuotaIsPlayed(start) => QuotaIsPlayed(work))
      BY <2>1, EverySearchFits
    <3> HIDE DEF D
    <3> QED BY <3>1, FloorsAreLow
  <2>3. (\A c \in Criteria : m[c] \in Nat) /\ (\A c \in Criteria : n[c] \in Nat)
    BY <2>1, MetricsAreNumbers
  <2> HIDE DEF m, n
  <2>4. \A c \in Criteria :
          c \in {"cooldown", "partner", "opponent"} \/ QuotaIsPlayed(start) => m[c] >= Floor[c]
    BY <2>2, <2>3
  <2>5. FloorsHold
    BY <2>4 DEF FloorsHold, m
  <2>6. Measures(m) /\ Measures(n) /\ Betters(m, m) /\ \A c \in Criteria : Against(c) \in Nat
    BY <2>2, <2>3, QuotaAssumption DEF Measures, Betters, Against
  <2>7. Uncapped(m) \in 0 .. Full
    BY <2>6, PointsFall
  <2>8. Composite(m) \in 0 .. Full
    <3>1. Composite(m) = 0 \/ Composite(m) = Uncapped(m)
      BY DEF Composite
    <3>2. 0 \in 0 .. Full
      BY DEF Full
    <3> QED BY <2>7, <3>1, <3>2
  <2>9. (\A c \in Criteria : m[c] <= n[c]) => Uncapped(m) >= Uncapped(n)
    BY <2>6, PointsFall DEF Betters
  <2>10. GradesAreFair
    BY <2>7, <2>8, <2>9 DEF GradesAreFair, m, n
  <2> QED BY <2>5, <2>10 DEF GradesStand
<1> QED BY <1>1, InvariantHolds, PTL

=============================================================================
