----------------------------- MODULE PlanProofs -----------------------------
(***************************************************************************)
(* What the stored day plans keep, for any plans, files and number of saves *)
(* and script runs: their shape, every window they were given, the order of *)
(* qualifications and playoffs, room for the matches, and what the view in  *)
(* V1 shape may not lose.  The operators of DayPlans and PlanSources are     *)
(* recursive functions; the first lemmas say that such functions exist and   *)
(* what Picked, ByStart and the conversions built from them return for any   *)
(* plan.                                                                     *)
(***************************************************************************)
EXTENDS PlanStore, FiniteSetTheorems, SequenceTheorems, TLAPS

-----------------------------------------------------------------------------
\* Natural numbers and functions defined by recursion over them.

LEMMA NatByStep ==
  ASSUME NEW P \in SUBSET Nat, 0 \in P, \A n \in P : n + 1 \in P
  PROVE  P = Nat
<1> SUFFICES ASSUME Nat \ P # {} PROVE FALSE
  OBVIOUS
<1>1. \E n \in Nat \ P : \A m \in Nat \ P : ~(<<m, n>> \in OpToRel(<, Nat))
  BY NatLessThanWellFounded, WFMin
<1>2. PICK n \in Nat \ P : \A m \in Nat \ P : ~(m < n)
  BY <1>1 DEF OpToRel
<1>3. n # 0 /\ n - 1 \in Nat /\ n - 1 \in P
  BY <1>2
<1>4. (n - 1) + 1 \in P
  BY <1>3
<1> QED BY <1>2, <1>4

\* A property of the numbers up to n that is handed on from each to the next.
LEMMA UpToByStep ==
  ASSUME NEW n \in Nat, NEW P, 0 \in P, \A k \in 0 .. n - 1 : k \in P => k + 1 \in P
  PROVE  \A k \in 0 .. n : k \in P
<1> DEFINE Q == {k \in Nat : k <= n => k \in P}
<1>1. 0 \in Q
  OBVIOUS
<1>2. \A k \in Q : k + 1 \in Q
  OBVIOUS
<1>3. Q = Nat
  BY <1>1, <1>2, NatByStep
<1> QED BY <1>3

IsRun(f, n, base, step) ==
  f = [k \in 0 .. n |-> IF k = 0 THEN base ELSE step[<<k, f[k - 1]>>]]

LEMMA RunExists ==
  ASSUME NEW T, NEW n \in Nat, NEW base \in T, NEW step \in [(1 .. n) \X T -> T]
  PROVE  \E f \in [0 .. n -> T] : IsRun(f, n, base, step)
<1> DEFINE P == {m \in Nat : m <= n => \E f \in [0 .. m -> T] : IsRun(f, m, base, step)}
<1>1. 0 \in P
  <2> DEFINE f == [k \in 0 .. 0 |-> base]
  <2>1. f \in [0 .. 0 -> T] /\ IsRun(f, 0, base, step)
    BY DEF IsRun
  <2> QED BY <2>1
<1>2. ASSUME NEW m \in P PROVE m + 1 \in P
  <2> SUFFICES ASSUME m + 1 <= n
               PROVE  \E g \in [0 .. m + 1 -> T] : IsRun(g, m + 1, base, step)
    OBVIOUS
  <2>1. PICK f \in [0 .. m -> T] : IsRun(f, m, base, step)
    OBVIOUS
  <2> DEFINE g == [k \in 0 .. m + 1 |-> IF k = m + 1 THEN step[<<m + 1, f[m]>>] ELSE f[k]]
  <2>2. f[m] \in T /\ step[<<m + 1, f[m]>>] \in T
    BY <2>1
  <2>3. g \in [0 .. m + 1 -> T]
    BY <2>1, <2>2
  <2>4. ASSUME NEW k \in 0 .. m + 1
        PROVE  g[k] = IF k = 0 THEN base ELSE step[<<k, g[k - 1]>>]
    <3>1. CASE k = m + 1
      <4>1. k # 0 /\ k - 1 = m /\ k - 1 # m + 1 /\ k - 1 \in 0 .. m + 1
        BY <3>1
      <4> QED BY <3>1, <4>1
    <3>2. CASE k # m + 1
      <4>1. k \in 0 .. m /\ g[k] = f[k] /\ (k # 0 => g[k - 1] = f[k - 1])
        BY <3>2
      <4>2. f[k] = IF k = 0 THEN base ELSE step[<<k, f[k - 1]>>]
        BY <2>1, <4>1 DEF IsRun
      <4> QED BY <4>1, <4>2
    <3> QED BY <3>1, <3>2
  <2>5. IsRun(g, m + 1, base, step)
    BY <2>4 DEF IsRun
  <2> QED BY <2>3, <2>5
<1>3. P = Nat
  BY <1>1, <1>2, NatByStep
<1> QED BY <1>3

-----------------------------------------------------------------------------
\* Picked: the elements at the positions of I, in their order.

IsPicking(f, s, I) ==
  f = [k \in 0 .. Len(s) |->
         IF k = 0 THEN <<>>
         ELSE IF k \in I THEN Append(f[k - 1], s[k]) ELSE f[k - 1]]

LEMMA PickingExists ==
  ASSUME NEW T, NEW s \in Seq(T), NEW I
  PROVE  \E f \in [0 .. Len(s) -> Seq(T)] : IsPicking(f, s, I) /\ Picked(s, I) = f[Len(s)]
<1> DEFINE step == [x \in (1 .. Len(s)) \X Seq(T) |->
                      IF x[1] \in I THEN Append(x[2], s[x[1]]) ELSE x[2]]
<1>1. step \in [(1 .. Len(s)) \X Seq(T) -> Seq(T)]
  OBVIOUS
<1>2. <<>> \in Seq(T) /\ Len(s) \in Nat
  OBVIOUS
<1>3. PICK f \in [0 .. Len(s) -> Seq(T)] : IsRun(f, Len(s), <<>>, step)
  <2> HIDE DEF step
  <2> QED BY <1>1, <1>2, RunExists
<1>4. IsPicking(f, s, I)
  <2>1. ASSUME NEW k \in 0 .. Len(s), k # 0
        PROVE  step[<<k, f[k - 1]>>] = IF k \in I THEN Append(f[k - 1], s[k]) ELSE f[k - 1]
    <3>1. k \in 1 .. Len(s) /\ f[k - 1] \in Seq(T)
      BY <2>1
    <3> QED BY <3>1
  <2> QED BY <2>1, <1>3 DEF IsRun, IsPicking
<1>5. ASSUME NEW g, IsPicking(g, s, I) PROVE g = f
  <2> DEFINE P == {k \in Nat : k <= Len(s) => g[k] = f[k]}
  <2>1. 0 \in P
    BY <1>4, <1>5 DEF IsPicking
  <2>2. ASSUME NEW k \in P PROVE k + 1 \in P
    <3> SUFFICES ASSUME k + 1 <= Len(s) PROVE g[k + 1] = f[k + 1]
      OBVIOUS
    <3>1. g[k] = f[k] /\ k + 1 \in 0 .. Len(s) /\ k + 1 # 0 /\ (k + 1) - 1 = k
      OBVIOUS
    <3>2. g[k + 1] = IF k + 1 \in I THEN Append(g[k], s[k + 1]) ELSE g[k]
      BY <1>5, <3>1 DEF IsPicking
    <3>3. f[k + 1] = IF k + 1 \in I THEN Append(f[k], s[k + 1]) ELSE f[k]
      BY <1>4, <3>1 DEF IsPicking
    <3> QED BY <3>1, <3>2, <3>3
  <2>3. P = Nat
    BY <2>1, <2>2, NatByStep
  <2>4. \A k \in 0 .. Len(s) : g[k] = f[k]
    BY <2>3
  <2> QED BY <1>4, <1>5, <2>4 DEF IsPicking
<1>6. Picked(s, I) = (CHOOSE g : IsPicking(g, s, I))[Len(s)]
  BY DEF Picked, IsPicking
<1> QED BY <1>4, <1>5, <1>6

\* r lists the elements of s at the positions of J, at[k] that of the k-th.
Lists(at, r, s, J) ==
  /\ at \in [1 .. Len(r) -> J]
  /\ \A k \in 1 .. Len(r) : r[k] = s[at[k]]
  /\ \A j, k \in 1 .. Len(r) : j < k => at[j] < at[k]
  /\ \A i \in J : \E k \in 1 .. Len(r) : at[k] = i

LEMMA ListsOneMore ==
  ASSUME NEW T, NEW s \in Seq(T), NEW r \in Seq(T), NEW J \in SUBSET Nat, NEW at,
         NEW k \in DOMAIN s, \A j \in J : j < k, Lists(at, r, s, J)
  PROVE  \E to : Lists(to, Append(r, s[k]), s, J \cup {k})
<1> DEFINE n == Len(r)
           to == [j \in 1 .. n + 1 |-> IF j = n + 1 THEN k ELSE at[j]]
           q == Append(r, s[k])
<1>1. n \in Nat /\ Len(q) = n + 1 /\ q[n + 1] = s[k] /\ \A j \in 1 .. n : q[j] = r[j]
  OBVIOUS
<1>2. at \in [1 .. n -> J] /\ \A j \in 1 .. n : r[j] = s[at[j]]
  BY DEF Lists
<1>3. (n + 1 \in 1 .. n + 1 /\ to[n + 1] = k) /\ \A j \in 1 .. n : j \in 1 .. n + 1 /\ to[j] = at[j]
  BY <1>1
<1> HIDE DEF n, to, q
<1>4. \A j \in 1 .. n + 1 : j = n + 1 \/ j \in 1 .. n
  BY <1>1
<1>5. to \in [1 .. n + 1 -> J \cup {k}]
  <2>1. \A j \in 1 .. n + 1 : to[j] \in J \cup {k}
    BY <1>2, <1>3, <1>4
  <2> QED BY <2>1 DEF to
<1>6. \A j \in 1 .. n + 1 : q[j] = s[to[j]]
  BY <1>1, <1>2, <1>3, <1>4
<1>7. ASSUME NEW i \in 1 .. n + 1, NEW j \in 1 .. n + 1, i < j PROVE to[i] < to[j]
  <2>1. i \in 1 .. n
    BY <1>1, <1>7
  <2>2. CASE j = n + 1
    BY <2>1, <2>2, <1>2, <1>3
  <2>3. CASE j \in 1 .. n
    BY <2>1, <2>3, <1>3, <1>7 DEF Lists, n
  <2> QED BY <2>2, <2>3, <1>4
<1>8. ASSUME NEW i \in J \cup {k} PROVE \E j \in 1 .. n + 1 : to[j] = i
  <2>1. CASE i = k
    BY <2>1, <1>1, <1>3
  <2>2. CASE i \in J
    <3>1. PICK j \in 1 .. n : at[j] = i
      BY <2>2 DEF Lists, n
    <3> QED BY <3>1, <1>3
  <2> QED BY <2>1, <2>2
<1>9. Lists(to, q, s, J \cup {k})
  BY <1>1, <1>5, <1>6, <1>7, <1>8 DEF Lists
<1> QED BY <1>9 DEF q

LEMMA PickedLists ==
  ASSUME NEW T, NEW s \in Seq(T), NEW I
  PROVE  Picked(s, I) \in Seq(T) /\ \E at : Lists(at, Picked(s, I), s, I \cap DOMAIN s)
<1>1. PICK f \in [0 .. Len(s) -> Seq(T)] : IsPicking(f, s, I) /\ Picked(s, I) = f[Len(s)]
  BY PickingExists
<1> DEFINE Upto(k) == I \cap (1 .. k)
           P == {k \in Nat : k <= Len(s) => \E at : Lists(at, f[k], s, Upto(k))}
<1>2. 0 \in P
  <2>1. f[0] = <<>> /\ Upto(0) = {}
    BY <1>1 DEF IsPicking
  <2>2. Lists([k \in {} |-> 0], <<>>, s, {})
    BY DEF Lists
  <2> QED BY <2>1, <2>2
<1>3. ASSUME NEW k \in P PROVE k + 1 \in P
  <2> SUFFICES ASSUME k + 1 <= Len(s) PROVE \E at : Lists(at, f[k + 1], s, Upto(k + 1))
    BY SMTT(30)
  <2>0. k \in Nat /\ Len(s) \in Nat /\ k <= Len(s)
    OBVIOUS
  <2>1. PICK at : Lists(at, f[k], s, Upto(k))
    <3> HIDE DEF Upto
    <3> QED BY <2>0
  <2>2. k + 1 \in 0 .. Len(s) /\ k + 1 # 0 /\ (k + 1) - 1 = k /\ k \in 0 .. Len(s)
    OBVIOUS
  <2>3. f[k + 1] = IF k + 1 \in I THEN Append(f[k], s[k + 1]) ELSE f[k]
    BY <1>1, <2>2 DEF IsPicking
  <2>4. CASE k + 1 \in I
    <3>1. Upto(k + 1) = Upto(k) \cup {k + 1}
      BY <2>4
    <3>2. /\ f[k] \in Seq(T) /\ k + 1 \in DOMAIN s
          /\ Upto(k) \in SUBSET Nat /\ \A j \in Upto(k) : j < k + 1
      BY <2>2
    <3> HIDE DEF Upto
    <3>3. \E to : Lists(to, Append(f[k], s[k + 1]), s, Upto(k) \cup {k + 1})
      BY <2>1, <3>2, ListsOneMore
    <3> QED BY <2>3, <2>4, <3>1, <3>3
  <2>5. CASE k + 1 \notin I
    <3>1. Upto(k + 1) = Upto(k)
      BY <2>5
    <3> QED BY <2>1, <2>3, <2>5, <3>1
  <2> QED BY <2>4, <2>5
<1>4. P = Nat
  <2> HIDE DEF P
  <2>1. P \in SUBSET Nat
    BY DEF P
  <2> QED BY <1>2, <1>3, <2>1, NatByStep
<1>5. Len(s) \in Nat /\ DOMAIN s = 1 .. Len(s)
  OBVIOUS
<1>6. \E at : Lists(at, f[Len(s)], s, Upto(Len(s)))
  <2>1. Len(s) \in P
    BY <1>4, <1>5
  <2> HIDE DEF Upto
  <2> QED BY <1>5, <2>1
<1> QED BY <1>1, <1>5, <1>6

\* What Picked keeps as a set, and when the positions are told by a test.
LEMMA PickedIs ==
  ASSUME NEW T, NEW s \in Seq(T), NEW I \in SUBSET DOMAIN s
  PROVE  Picked(s, I) \in Seq(T) /\ ToSet(Picked(s, I)) = {s[i] : i \in I}
<1>1. PICK at : Lists(at, Picked(s, I), s, I \cap DOMAIN s)
  BY PickedLists
<1>2. I \cap DOMAIN s = I
  OBVIOUS
<1>3. Picked(s, I) \in Seq(T)
  BY PickedLists
<1> DEFINE r == Picked(s, I)
<1>4. DOMAIN r = 1 .. Len(r)
  BY <1>3
<1> HIDE DEF r
<1>5. \A k \in DOMAIN r : r[k] = s[at[k]] /\ at[k] \in I
  BY <1>1, <1>2, <1>4 DEF Lists, r
<1>6. \A i \in I : \E k \in DOMAIN r : r[k] = s[i]
  BY <1>1, <1>2, <1>4 DEF Lists, r
<1>7. ToSet(r) = {s[i] : i \in I}
  BY <1>5, <1>6 DEF ToSet
<1> QED BY <1>3, <1>7 DEF r

-----------------------------------------------------------------------------
\* ByStart: a sort by insertion.

Sorted(s) == \A j, k \in DOMAIN s : j < k => s[j].start <= s[k].start

LEMMA LeastNumber ==
  ASSUME NEW S \in SUBSET Nat, S # {}
  PROVE  \E n \in S : \A m \in S : n <= m
<1>1. \E n \in S : \A m \in S : ~(<<m, n>> \in OpToRel(<, Nat))
  BY NatLessThanWellFounded, WFMin
<1>2. PICK n \in S : \A m \in S : ~(m < n)
  BY <1>1 DEF OpToRel
<1> QED BY <1>2

\* A set of positions that holds those before each of its own is an interval.
LEMMA PrefixIsInterval ==
  ASSUME NEW n \in Nat, NEW D \in SUBSET (1 .. n),
         \A j \in D : \A i \in 1 .. j : i \in D
  PROVE  Cardinality(D) \in 0 .. n /\ D = 1 .. Cardinality(D)
<1> DEFINE Out == {k \in Nat : k # 0 /\ k \notin D}
<1>1. n + 1 \in Out
  OBVIOUS
<1>2. PICK k \in Out : \A m \in Out : k <= m
  <2>1. Out \in SUBSET Nat /\ Out # {}
    BY <1>1
  <2> HIDE DEF Out
  <2> QED BY <2>1, LeastNumber
<1>3. k - 1 \in Nat /\ k <= n + 1
  BY <1>1, <1>2
<1>4. D = 1 .. k - 1
  <2>1. ASSUME NEW i \in 1 .. k - 1 PROVE i \in D
    BY <1>2, <2>1
  <2>2. ASSUME NEW i \in D PROVE i \in 1 .. k - 1
    <3>1. ~(k <= i)
      <4> SUFFICES ASSUME k <= i PROVE FALSE
        OBVIOUS
      <4>1. k \in 1 .. i
        BY <1>2
      <4> QED BY <4>1, <1>2
    <3> QED BY <3>1, <1>3
  <2> QED BY <2>1, <2>2
<1>5. Cardinality(1 .. k - 1) = k - 1
  <2>1. 1 \in Int /\ k - 1 \in Int
    BY <1>3
  <2>2. Cardinality(1 .. k - 1) = IF 1 > k - 1 THEN 0 ELSE (k - 1) - 1 + 1
    BY <2>1, FS_Interval
  <2> QED BY <2>2, <1>3
<1> QED BY <1>3, <1>4, <1>5

LEMMA InsertedIs ==
  ASSUME NEW T, \A x \in T : x.start \in Int,
         NEW r \in Seq(T), Sorted(r), NEW b \in T
  PROVE  /\ Inserted(r, b) \in Seq(T) /\ Sorted(Inserted(r, b))
         /\ ToSet(Inserted(r, b)) = ToSet(r) \cup {b}
<1> DEFINE n == Len(r)
           D == {k \in DOMAIN r : r[k].start <= b.start}
           p == Cardinality(D)
           q == SubSeq(r, 1, p) \o <<b>> \o SubSeq(r, p + 1, n)
<1>1. n \in Nat /\ DOMAIN r = 1 .. n /\ \A k \in 1 .. n : r[k] \in T /\ r[k].start \in Int
  OBVIOUS
<1>2. p \in 0 .. n /\ D = 1 .. p
  <2>1. D \in SUBSET (1 .. n) /\ \A j \in D : \A i \in 1 .. j : i \in D
    <3>1. ASSUME NEW j \in D, NEW i \in 1 .. j PROVE i \in D
      <4>1. j \in 1 .. n /\ i \in 1 .. n /\ r[j].start <= b.start
        BY <1>1
      <4>2. i = j \/ r[i].start <= r[j].start
        BY <1>1, <4>1 DEF Sorted
      <4> QED BY <1>1, <4>1, <4>2
    <3> QED BY <1>1, <3>1
  <2> HIDE DEF D, n
  <2> QED BY <1>1, <2>1, PrefixIsInterval
<1>3. Inserted(r, b) = q
  BY DEF Inserted
<1>4. \A k \in 1 .. p : r[k].start <= b.start
  BY <1>2
<1> HIDE DEF D, p, n
<1>5. \A k \in p + 1 .. n : b.start <= r[k].start
  <2> SUFFICES ASSUME NEW k \in p + 1 .. n PROVE b.start <= r[k].start
    OBVIOUS
  <2>1. k \in 1 .. n /\ k \notin D
    BY <1>1, <1>2
  <2> QED BY <1>1, <2>1 DEF D
<1> DEFINE u == SubSeq(r, 1, p)
           w == SubSeq(r, p + 1, n)
<1>6a. u \in Seq(T) /\ Len(u) = p /\ \A k \in 1 .. p : u[k] = r[k]
  <2>1. 1 \in 1 .. n + 1 /\ p \in 1 - 1 .. n
    BY <1>1, <1>2
  <2> QED BY <1>2, <2>1, SubSeqProperties DEF n
<1>6b. w \in Seq(T) /\ Len(w) = n - p /\ \A k \in 1 .. n - p : w[k] = r[k + p]
  <2>1. p + 1 \in 1 .. n + 1 /\ n \in (p + 1) - 1 .. n
    BY <1>1, <1>2
  <2>2. /\ w \in Seq(T) /\ Len(w) = n - (p + 1) + 1
        /\ \A k \in 1 .. n - (p + 1) + 1 : w[k] = r[(p + 1) + k - 1]
    BY <2>1, SubSeqProperties DEF n
  <2>3. n - (p + 1) + 1 = n - p /\ \A k \in Int : (p + 1) + k - 1 = k + p
    BY <1>1, <1>2
  <2>4. \A k \in 1 .. n - p : w[k] = r[(p + 1) + k - 1] /\ (p + 1) + k - 1 = k + p
    BY <2>2, <2>3
  <2> QED BY <2>2, <2>3, <2>4
<1> HIDE DEF u, w
<1> DEFINE c == u \o <<b>>
<1>6. c \in Seq(T) /\ Len(c) = p + 1 /\ c[p + 1] = b /\ \A k \in 1 .. p : c[k] = r[k]
  BY <1>2, <1>6a
<1>6c. q = c \o w
  BY DEF u, w
<1> HIDE DEF c
<1>7. /\ q \in Seq(T) /\ Len(q) = n + 1
      /\ \A k \in 1 .. p : q[k] = r[k]
      /\ q[p + 1] = b
      /\ \A k \in p + 2 .. n + 1 : q[k] = r[k - 1]
  <2> HIDE DEF q
  <2>1. /\ q \in Seq(T) /\ Len(q) = (p + 1) + (n - p)
        /\ \A k \in 1 .. p + 1 : q[k] = c[k]
    <3>1. c \o w \in Seq(T) /\ Len(c \o w) = Len(c) + Len(w)
      BY <1>6, <1>6b, ConcatProperties
    <3>2. \A k \in 1 .. p + 1 : (c \o w)[k] = c[k]
      BY <1>2, <1>6, <1>6b
    <3> QED BY <1>6, <1>6b, <1>6c, <3>1, <3>2
  <2>2. ASSUME NEW k \in p + 2 .. n + 1 PROVE q[k] = r[k - 1]
    <3>1. k - (p + 1) \in 1 .. n - p /\ k = (p + 1) + (k - (p + 1)) /\ (k - (p + 1)) + p = k - 1
      BY <1>1, <1>2
    <3>2. q[k] = w[k - (p + 1)]
      BY <1>1, <1>2, <1>6, <1>6b, <1>6c, <3>1
    <3> QED BY <3>1, <3>2, <1>6b
  <2>3. \A k \in 1 .. p : k \in 1 .. p + 1
    BY <1>2
  <2>4. p + 1 \in 1 .. p + 1 /\ (p + 1) + (n - p) = n + 1
    BY <1>1, <1>2
  <2> QED BY <2>1, <2>2, <2>3, <2>4, <1>6
<1> HIDE DEF q
<1>8. DOMAIN q = 1 .. n + 1
  BY <1>7
<1>9. ASSUME NEW j \in 1 .. n + 1, NEW k \in 1 .. n + 1, j < k
      PROVE  q[j].start <= q[k].start
  <2>1. \A i \in 1 .. n, m \in 1 .. n : i < m => r[i].start <= r[m].start
    BY <1>1 DEF Sorted
  <2>2. CASE k \in 1 .. p
    <3>1. j \in 1 .. p /\ j \in 1 .. n /\ k \in 1 .. n
      BY <2>2, <1>1, <1>2, <1>9
    <3>2. q[j] = r[j] /\ q[k] = r[k] /\ r[j].start <= r[k].start
      BY <2>1, <2>2, <3>1, <1>7, <1>9
    <3> QED BY <3>2
  <2>3. CASE k = p + 1
    <3>1. j \in 1 .. p
      BY <2>3, <1>2, <1>9
    <3> QED BY <2>3, <3>1, <1>4, <1>7
  <2>4. CASE k \in p + 2 .. n + 1
    <3>1. k - 1 \in p + 1 .. n /\ k - 1 \in 1 .. n /\ q[k] = r[k - 1]
      BY <2>4, <1>1, <1>2, <1>7
    <3>2. CASE j \in 1 .. p
      <4>1. j \in 1 .. n /\ j < k - 1
        BY <3>1, <3>2, <1>1, <1>2
      <4> QED BY <2>1, <3>1, <3>2, <4>1, <1>7
    <3>3. CASE j = p + 1
      BY <3>1, <3>3, <1>5, <1>7
    <3>4. CASE j \in p + 2 .. n + 1
      <4>1. j - 1 \in 1 .. n /\ j - 1 < k - 1 /\ q[j] = r[j - 1]
        BY <3>4, <1>1, <1>2, <1>7, <1>9
      <4> QED BY <2>1, <3>1, <4>1
    <3>5. j \in 1 .. p \/ j = p + 1 \/ j \in p + 2 .. n + 1
      BY <1>1, <1>2
    <3> QED BY <3>2, <3>3, <3>4, <3>5
  <2>5. k \in 1 .. p \/ k = p + 1 \/ k \in p + 2 .. n + 1
    BY <1>1, <1>2
  <2> QED BY <2>2, <2>3, <2>4, <2>5
<1>10. ToSet(q) = ToSet(r) \cup {b}
  <2>1. ASSUME NEW k \in 1 .. n + 1 PROVE q[k] \in ToSet(r) \cup {b}
    <3>1. k \in 1 .. p \/ k = p + 1 \/ k \in p + 2 .. n + 1
      BY <1>1, <1>2
    <3>2. k \in 1 .. p => k \in DOMAIN r
      BY <1>1, <1>2
    <3>3. k \in p + 2 .. n + 1 => k - 1 \in DOMAIN r
      BY <1>1, <1>2
    <3> QED BY <1>7, <3>1, <3>2, <3>3 DEF ToSet
  <2>2. ASSUME NEW k \in 1 .. n PROVE \E i \in 1 .. n + 1 : q[i] = r[k]
    <3>1. CASE k \in 1 .. p
      <4>1. k \in 1 .. n + 1
        BY <1>1
      <4> QED BY <3>1, <4>1, <1>7
    <3>2. CASE k \notin 1 .. p
      <4>1. k + 1 \in p + 2 .. n + 1 /\ k + 1 \in 1 .. n + 1 /\ (k + 1) - 1 = k
        BY <3>2, <1>1, <1>2
      <4> QED BY <4>1, <1>7
    <3> QED BY <3>1, <3>2
  <2>3. p + 1 \in 1 .. n + 1
    BY <1>1, <1>2
  <2>4. ToSet(q) = {q[k] : k \in 1 .. n + 1} /\ ToSet(r) = {r[k] : k \in 1 .. n}
    BY <1>1, <1>8 DEF ToSet
  <2>5. b \in ToSet(q)
    BY <1>7, <2>3, <2>4
  <2>6. \A x \in ToSet(r) : x \in ToSet(q)
    BY <2>2, <2>4
  <2>7. \A x \in ToSet(q) : x \in ToSet(r) \cup {b}
    BY <2>1, <2>4
  <2> QED BY <2>5, <2>6, <2>7
<1>11. Sorted(q)
  BY <1>8, <1>9 DEF Sorted
<1> QED BY <1>3, <1>7, <1>10, <1>11

IsSorting(f, s) ==
  f = [k \in 0 .. Len(s) |-> IF k = 0 THEN <<>> ELSE Inserted(f[k - 1], s[k])]
\* The sequences sorted by start.
SortedSeqs(T) == {r \in Seq(T) : Sorted(r)}

LEMMA ByStartIs ==
  ASSUME NEW T, \A x \in T : x.start \in Int, NEW s \in Seq(T)
  PROVE  ByStart(s) \in Seq(T) /\ Sorted(ByStart(s)) /\ ToSet(ByStart(s)) = ToSet(s)
<1> DEFINE n == Len(s)
           step == [x \in (1 .. n) \X SortedSeqs(T) |-> Inserted(x[2], s[x[1]])]
<1>0. n \in Nat /\ DOMAIN s = 1 .. n /\ \A k \in 1 .. n : s[k] \in T
  OBVIOUS
<1>1. step \in [(1 .. n) \X SortedSeqs(T) -> SortedSeqs(T)]
  <2>1. ASSUME NEW x \in (1 .. n) \X SortedSeqs(T) PROVE Inserted(x[2], s[x[1]]) \in SortedSeqs(T)
    <3>1. x[2] \in Seq(T) /\ Sorted(x[2]) /\ s[x[1]] \in T
      BY <1>0 DEF SortedSeqs
    <3>2. Inserted(x[2], s[x[1]]) \in Seq(T) /\ Sorted(Inserted(x[2], s[x[1]]))
      BY <3>1, InsertedIs
    <3> QED BY <3>2 DEF SortedSeqs
  <2> QED BY <2>1
<1>2. <<>> \in SortedSeqs(T)
  BY DEF SortedSeqs, Sorted
<1>3. PICK f \in [0 .. n -> SortedSeqs(T)] : IsRun(f, n, <<>>, step)
  <2> HIDE DEF step, n
  <2> QED BY <1>0, <1>1, <1>2, RunExists
<1>4. IsSorting(f, s)
  <2>1. ASSUME NEW k \in 0 .. n, k # 0
        PROVE  step[<<k, f[k - 1]>>] = Inserted(f[k - 1], s[k])
    <3>1. k \in 1 .. n /\ f[k - 1] \in SortedSeqs(T)
      BY <2>1
    <3> QED BY <3>1
  <2> QED BY <2>1, <1>3 DEF IsRun, IsSorting
<1> HIDE DEF n
<1> DEFINE g == CHOOSE g : IsSorting(g, s)
<1>5. IsSorting(g, s) /\ ByStart(s) = g[n]
  BY <1>4 DEF ByStart, IsSorting, n
<1> HIDE DEF g
<1> DEFINE Upto(k) == {s[i] : i \in 1 .. k}
           P == {k \in Nat : k <= n =>
                   g[k] \in Seq(T) /\ Sorted(g[k]) /\ ToSet(g[k]) = Upto(k)}
<1>6. 0 \in P
  <2>1. g[0] = <<>> /\ Upto(0) = {}
    BY <1>0, <1>5 DEF IsSorting, n
  <2>2. <<>> \in Seq(T) /\ Sorted(<<>>) /\ ToSet(<<>>) = {}
    BY DEF Sorted, ToSet
  <2> HIDE DEF Upto
  <2> QED BY <2>1, <2>2
<1>7. ASSUME NEW k \in P PROVE k + 1 \in P
  <2> SUFFICES ASSUME k + 1 <= n
               PROVE  g[k + 1] \in Seq(T) /\ Sorted(g[k + 1]) /\ ToSet(g[k + 1]) = Upto(k + 1)
    BY <1>0
  <2>0. k \in Nat /\ k <= n /\ k + 1 \in 0 .. n /\ k + 1 # 0 /\ (k + 1) - 1 = k /\ k + 1 \in 1 .. n
    BY <1>0
  <2>1. g[k] \in Seq(T) /\ Sorted(g[k]) /\ ToSet(g[k]) = Upto(k) /\ s[k + 1] \in T
    BY <1>0, <2>0
  <2>2. g[k + 1] = Inserted(g[k], s[k + 1])
    BY <1>5, <2>0 DEF IsSorting, n
  <2>3. Upto(k + 1) = Upto(k) \cup {s[k + 1]}
    BY <2>0
  <2>4. /\ Inserted(g[k], s[k + 1]) \in Seq(T) /\ Sorted(Inserted(g[k], s[k + 1]))
        /\ ToSet(Inserted(g[k], s[k + 1])) = ToSet(g[k]) \cup {s[k + 1]}
    <3>1. \A x \in T : x.start \in Int
      OBVIOUS
    <3> DEFINE r == g[k]
               e == s[k + 1]
    <3>2. r \in Seq(T) /\ Sorted(r) /\ e \in T
      BY <2>1
    <3> HIDE DEF P, r, e
    <3>3. /\ Inserted(r, e) \in Seq(T) /\ Sorted(Inserted(r, e))
          /\ ToSet(Inserted(r, e)) = ToSet(r) \cup {e}
      BY <3>1, <3>2, InsertedIs
    <3> QED BY <3>3 DEF r, e
  <2> HIDE DEF Upto
  <2> QED BY <2>1, <2>2, <2>3, <2>4
<1>8. P = Nat
  <2> HIDE DEF P
  <2>1. P \in SUBSET Nat
    BY DEF P
  <2> QED BY <1>6, <1>7, <2>1, NatByStep
<1>9. n \in P
  BY <1>0, <1>8
<1>10. g[n] \in Seq(T) /\ Sorted(g[n]) /\ ToSet(g[n]) = Upto(n)
  <2> HIDE DEF Upto
  <2> QED BY <1>0, <1>9
<1>11. ToSet(s) = Upto(n)
  BY <1>0 DEF ToSet
<1> QED BY <1>5, <1>10, <1>11

-----------------------------------------------------------------------------
\* The shape of what the conversions make.

LEMMA FunctionIsSeq ==
  ASSUME NEW S, NEW s \in Seq(S), NEW T, NEW m \in [DOMAIN s -> T]
  PROVE  m \in Seq(T) /\ DOMAIN m = DOMAIN s /\ Len(m) = Len(s)
<1>1. Len(s) \in Nat /\ DOMAIN s = 1 .. Len(s)
  OBVIOUS
<1> QED BY <1>1

LEMMA LeafType ==
  ASSUME NEW type \in Tier3, NEW b \in BreaksV1, NEW kind \in BlockKinds
  PROVE  /\ Leaf(type, b, kind) \in NestedV2 /\ Leaf(type, b, kind) \in BlocksV2
         /\ Leaf(type, b, kind).type = type
         /\ Leaf(type, b, kind).start = b.start /\ Leaf(type, b, kind).end = b.end
         /\ Leaf(type, b, kind).name = (IF b.name = "" THEN "break" ELSE b.name)
         /\ Leaf(type, b, kind).breaks = <<>> /\ Leaf(type, b, kind).changes = <<>>
<1>1. "break" \in Names
  BY DEF Names
<1>2. <<>> \in Seq(ChangesV2) /\ <<>> \in Seq(NestedV2)
  OBVIOUS
<1> QED BY <1>1, <1>2 DEF Leaf, BreaksV1, NestedV2, BlocksV2

LEMMA MatchBlockType ==
  ASSUME NEW type \in Tier2, NEW w, w.start \in Nat, w.end \in Nat, NEW ct \in Nat,
         NEW changes \in Seq(ChangesV2), NEW breaks \in Seq(NestedV2)
  PROVE  LET b == MatchBlock(type, w, ct, changes, breaks)
         IN  /\ b \in BlocksV2 /\ b.type = type /\ b.start = w.start /\ b.end = w.end
             /\ b.ct = ct /\ b.changes = changes /\ b.breaks = breaks
<1> DEFINE b == MatchBlock(type, w, ct, changes, breaks)
<1>1. "" \in Names /\ "" \in BlockKinds /\ type \in Tier2 \cup Tier3
  BY DEF Names, BlockKinds
<1>2. /\ b.type = type /\ b.start = w.start /\ b.end = w.end
      /\ b.ct = ct /\ b.changes = changes /\ b.breaks = breaks
  BY DEF MatchBlock
<1>3. b \in BlocksV2
  BY <1>1 DEF MatchBlock, BlocksV2
<1> QED BY <1>2, <1>3

LEMMA LaterChangesType ==
  ASSUME NEW changes \in Seq(ChangesV1)
  PROVE  LaterChanges(changes) \in Seq(ChangesV2)
<1> DEFINE I == {k \in DOMAIN changes : ~changes[k].isStart /\ changes[k].after # 0
                                          /\ changes[k].time # 0}
           p == Picked(changes, I)
           m == [k \in DOMAIN p |-> [after |-> p[k].after, time |-> p[k].time]]
<1>1. LaterChanges(changes) = m
  BY DEF LaterChanges, Mapped, Where
<1>2. p \in Seq(ChangesV1)
  BY PickedIs
<1> HIDE DEF p
<1>3. m \in [DOMAIN p -> ChangesV2]
  <2>1. ASSUME NEW k \in DOMAIN p PROVE [after |-> p[k].after, time |-> p[k].time] \in ChangesV2
    <3>1. p[k] \in ChangesV1
      BY <1>2
    <3> QED BY <3>1 DEF ChangesV1, ChangesV2
  <2> QED BY <2>1
<1> HIDE DEF m
<1>4. m \in Seq(ChangesV2)
  BY <1>2, <1>3, FunctionIsSeq
<1> QED BY <1>1, <1>4

LEMMA BaseCycleType ==
  ASSUME NEW changes \in Seq(ChangesV1), NEW n \in Nat
  PROVE  BaseCycle(changes, n) \in Nat
<1> DEFINE I == {k \in DOMAIN changes : changes[k].isStart /\ changes[k].time # 0}
           p == Picked(changes, I)
<1>1. BaseCycle(changes, n) = IF p = <<>> THEN n ELSE Last(p).time
  BY DEF BaseCycle, Where
<1>2. p \in Seq(ChangesV1)
  BY PickedIs
<1> HIDE DEF p
<1>3. CASE p # <<>>
  <2>1. Len(p) \in 1 .. Len(p) /\ p[Len(p)] \in ChangesV1
    BY <1>2, <1>3
  <2> QED BY <1>1, <1>3, <2>1 DEF Last, ChangesV1
<1> QED BY <1>1, <1>3

LEMMA OrElseType == ASSUME NEW x \in Nat, NEW y \in Nat PROVE OrElse(x, y) \in Nat
BY DEF OrElse

LEMMA SubtypeType ==
  ASSUME NEW name
  PROVE  /\ DetectSubtype(name) \in Tier3
         /\ \A hint : DetectCeremonyKind(name, hint) \in BlockKinds
BY DEF DetectSubtype, DetectCeremonyKind, Tier3, BlockKinds

\* A leaf keeps a name that tells its type.
LEMMA LeafTells ==
  ASSUME NEW b \in BreaksV1, NEW kind \in BlockKinds, NEW type, type = DetectSubtype(b.name)
  PROVE  NameTells(Leaf(type, b, kind))
<1> DEFINE leaf == Leaf(type, b, kind)
<1>1. type \in Tier3
  BY SubtypeType
<1>2. leaf.type = type /\ leaf.name = (IF b.name = "" THEN "break" ELSE b.name)
  BY <1>1, LeafType
<1> HIDE DEF leaf
<1>3. BreakName(leaf) = leaf.name
  <2>1. CASE b.name = ""
    <3>1. leaf.name = "break"
      BY <1>2, <2>1
    <3>2. leaf.name # ""
      BY <3>1
    <3> QED BY <3>2 DEF BreakName
  <2>2. CASE b.name # ""
    <3>1. leaf.name # ""
      BY <1>2, <2>2
    <3> QED BY <3>1 DEF BreakName
  <2> QED BY <2>1, <2>2
<1>4. DetectSubtype(leaf.name) = type
  <2>1. CASE b.name = ""
    <3>1. DetectSubtype("") = "break" /\ DetectSubtype("break") = "break"
      BY DEF DetectSubtype
    <3> QED BY <1>2, <2>1, <3>1
  <2>2. CASE b.name # ""
    BY <1>2, <2>2
  <2> QED BY <2>1, <2>2
<1> QED BY <1>2, <1>3, <1>4 DEF NameTells, leaf

LEMMA BreakLeavesIs ==
  ASSUME NEW breaks \in Seq(BreaksV1)
  PROVE  /\ BreakLeaves(breaks) \in Seq(NestedV2) /\ DOMAIN BreakLeaves(breaks) = DOMAIN breaks
         /\ \A k \in DOMAIN breaks :
              /\ BreakLeaves(breaks)[k].type = "break"
              /\ BreakLeaves(breaks)[k].start = breaks[k].start
              /\ BreakLeaves(breaks)[k].end = breaks[k].end
              /\ DetectSubtype(breaks[k].name) = "break" => NameTells(BreakLeaves(breaks)[k])
<1> DEFINE m == [k \in DOMAIN breaks |-> Leaf("break", breaks[k], DetectBreakKind(breaks[k].name))]
<1>1. BreakLeaves(breaks) = m
  BY DEF BreakLeaves, Mapped
<1>2. ASSUME NEW k \in DOMAIN breaks
      PROVE  /\ m[k] \in NestedV2 /\ m[k].type = "break" /\ m[k].start = breaks[k].start
             /\ m[k].end = breaks[k].end
             /\ DetectSubtype(breaks[k].name) = "break" => NameTells(m[k])
  <2> DEFINE b == breaks[k]
             kind == DetectBreakKind(b.name)
  <2>1. m[k] = Leaf("break", b, kind)
    OBVIOUS
  <2>2. b \in BreaksV1
    OBVIOUS
  <2>3. kind \in BlockKinds
    BY DEF DetectBreakKind, BlockKinds
  <2>4. "break" \in Tier3
    BY DEF Tier3
  <2> HIDE DEF m, b, kind
  <2>5. /\ Leaf("break", b, kind) \in NestedV2 /\ Leaf("break", b, kind).type = "break"
        /\ Leaf("break", b, kind).start = b.start /\ Leaf("break", b, kind).end = b.end
    BY <2>2, <2>3, <2>4, LeafType
  <2>6. DetectSubtype(b.name) = "break" => NameTells(Leaf("break", b, kind))
    BY <2>2, <2>3, LeafTells
  <2> QED BY <2>1, <2>5, <2>6 DEF b
<1>3. m \in [DOMAIN breaks -> NestedV2]
  BY <1>2
<1> HIDE DEF m
<1>4. m \in Seq(NestedV2) /\ DOMAIN m = DOMAIN breaks
  BY <1>3, FunctionIsSeq
<1> QED BY <1>1, <1>2, <1>4

LEMMA TimelyIs ==
  ASSUME NEW T, NEW s \in Seq(T)
  PROVE  Timely(s) \in Seq(T) /\ ToSet(Timely(s)) = {b \in ToSet(s) : HasWindow(b)}
<1> DEFINE I == {k \in DOMAIN s : HasWindow(s[k])}
<1>1. Timely(s) = Picked(s, I)
  BY DEF Timely, Where
<1>2. Picked(s, I) \in Seq(T) /\ ToSet(Picked(s, I)) = {s[i] : i \in I}
  <2>1. I \in SUBSET DOMAIN s
    OBVIOUS
  <2> HIDE DEF I
  <2> QED BY <2>1, PickedIs
<1>3. {s[i] : i \in I} = {b \in ToSet(s) : HasWindow(b)}
  BY DEF ToSet
<1> QED BY <1>1, <1>2, <1>3

LEMMA InRange ==
  ASSUME NEW T, NEW s \in Seq(T)
  PROVE  ToSet(s) \subseteq T /\ \A k \in DOMAIN s : s[k] \in T /\ s[k] \in ToSet(s)
BY DEF ToSet

\* What blocks say, kind by kind.
Spans(blocks) == {<<b.type, b.start, b.end>> : b \in blocks}
SpansAs(type, blocks) == {<<type, b.start, b.end>> : b \in blocks}
NamedSpans(breaks) == {<<DetectSubtype(b.name), b.start, b.end>> : b \in breaks}

LEMMA BreakLeavesSpans ==
  ASSUME NEW breaks \in Seq(BreaksV1)
  PROVE  /\ BreakLeaves(breaks) \in Seq(NestedV2)
         /\ \A c \in ToSet(BreakLeaves(breaks)) : c.type = "break"
         /\ Spans(ToSet(BreakLeaves(breaks))) = SpansAs("break", ToSet(breaks))
         /\ (\A b \in ToSet(breaks) : DetectSubtype(b.name) = "break")
              => \A c \in ToSet(BreakLeaves(breaks)) : NameTells(c)
<1> DEFINE m == BreakLeaves(breaks)
<1>1. /\ m \in Seq(NestedV2) /\ DOMAIN m = DOMAIN breaks
      /\ \A k \in DOMAIN breaks :
           /\ m[k].type = "break" /\ m[k].start = breaks[k].start /\ m[k].end = breaks[k].end
           /\ DetectSubtype(breaks[k].name) = "break" => NameTells(m[k])
  BY BreakLeavesIs
<1> HIDE DEF m
<1>2. \A c \in ToSet(m) : c.type = "break"
  BY <1>1 DEF ToSet
<1>3. Spans(ToSet(m)) = {<<m[k].type, m[k].start, m[k].end>> : k \in DOMAIN m}
  BY DEF Spans, ToSet
<1>4. SpansAs("break", ToSet(breaks)) = {<<"break", breaks[k].start, breaks[k].end>> : k \in DOMAIN breaks}
  BY DEF SpansAs, ToSet
<1>5. Spans(ToSet(m)) = SpansAs("break", ToSet(breaks))
  BY <1>1, <1>3, <1>4, SMTT(30)
<1>6. (\A b \in ToSet(breaks) : DetectSubtype(b.name) = "break") => \A c \in ToSet(m) : NameTells(c)
  BY <1>1 DEF ToSet
<1> QED BY <1>1, <1>2, <1>5, <1>6 DEF m

\* The windows of a V1 day, and of the practice day.
TimelyOf(S) == {b \in S : HasWindow(b)}
PlainBreaks(S) == {b \in TimelyOf(S) : DetectSubtype(b.name) = "break"}
OtherBreaks(S) == {b \in TimelyOf(S) : DetectSubtype(b.name) # "break"}
PlayoffsAt(plan, i) == {p \in TimelyOf(ToSet(plan.playoffs)) : p.day = i - 1}
Practising(plan) == plan.practice # NoPractice /\ HasWindow(plan.practice)

LEMMA QualIs ==
  ASSUME NEW plan \in PlansV1, NEW d \in DaysV1
  PROVE  LET q == QualOf(plan, d)
         IN  /\ q \in BlocksV2 /\ q.type = "qualification"
             /\ q.start = d.start /\ q.end = d.end
             /\ \A c \in ToSet(q.breaks) : c.type = "break" /\ NameTells(c)
             /\ Spans(ToSet(q.breaks)) = SpansAs("break", PlainBreaks(ToSet(d.breaks)))
<1> DEFINE q == QualOf(plan, d)
           n == NestedBreaks(d)
           I == {k \in DOMAIN d.breaks : HasWindow(d.breaks[k]) /\ DetectSubtype(d.breaks[k].name) = "break"}
           ct == BaseCycle(d.changes, OrElse(d.ct, plan.ct))
           later == LaterChanges(d.changes)
           breaks == BreakLeaves(n)
<1>1. d.breaks \in Seq(BreaksV1) /\ d.changes \in Seq(ChangesV1) /\ d.ct \in Nat
      /\ plan.ct \in Nat /\ d.start \in Nat /\ d.end \in Nat
  BY DEF DaysV1, PlansV1
<1>2. n = Picked(d.breaks, I)
  BY DEF NestedBreaks, Where
<1>3. n \in Seq(BreaksV1) /\ ToSet(n) = {d.breaks[k] : k \in I}
  <2>1. I \in SUBSET DOMAIN d.breaks
    OBVIOUS
  <2> HIDE DEF I, n
  <2> QED BY <1>1, <1>2, <2>1, PickedIs
<1>4. {d.breaks[k] : k \in I} = PlainBreaks(ToSet(d.breaks))
  BY DEF PlainBreaks, TimelyOf, ToSet
<1>5. ct \in Nat /\ later \in Seq(ChangesV2)
  BY <1>1, OrElseType, BaseCycleType, LaterChangesType
<1>6. q = MatchBlock("qualification", d, ct, later, breaks)
  BY DEF QualOf
<1> HIDE DEF q, n, ct, later
<1>7. /\ breaks \in Seq(NestedV2) /\ \A c \in ToSet(breaks) : c.type = "break" /\ NameTells(c)
      /\ Spans(ToSet(breaks)) = SpansAs("break", ToSet(n))
  <2>1. \A b \in ToSet(n) : DetectSubtype(b.name) = "break"
    BY <1>3, <1>4 DEF PlainBreaks
  <2> QED BY <1>3, <2>1, BreakLeavesSpans
<1> HIDE DEF breaks
<1>8. "qualification" \in Tier2
  BY DEF Tier2
<1>9. /\ q \in BlocksV2 /\ q.type = "qualification"
      /\ q.start = d.start /\ q.end = d.end /\ q.breaks = breaks
  BY <1>1, <1>5, <1>6, <1>7, <1>8, MatchBlockType
<1> QED BY <1>3, <1>4, <1>7, <1>9 DEF q

LEMMA PracticeIs ==
  ASSUME NEW plan \in PlansV1
  PROVE  /\ ~Practising(plan) => PracticeDays(plan) = <<>>
         /\ Practising(plan) => \E p \in BlocksV2 :
              /\ PracticeDays(plan) = << <<p>> >> /\ p.type = "practice"
              /\ p.start = plan.practice.start /\ p.end = plan.practice.end
              /\ \A c \in ToSet(p.breaks) : c.type = "break"
              /\ Spans(ToSet(p.breaks)) = SpansAs("break", TimelyOf(ToSet(plan.practice.breaks)))
<1>1. ~Practising(plan) => PracticeDays(plan) = <<>>
  BY DEF Practising, PracticeDays
<1> SUFFICES ASSUME Practising(plan)
             PROVE  \E p \in BlocksV2 :
              /\ PracticeDays(plan) = << <<p>> >> /\ p.type = "practice"
              /\ p.start = plan.practice.start /\ p.end = plan.practice.end
              /\ \A c \in ToSet(p.breaks) : c.type = "break"
              /\ Spans(ToSet(p.breaks)) = SpansAs("break", TimelyOf(ToSet(plan.practice.breaks)))
  BY <1>1
<1> DEFINE d == plan.practice
           n == Timely(d.breaks)
           ct == BaseCycle(d.changes, OrElse(d.ct, plan.ct))
           later == LaterChanges(d.changes)
           breaks == BreakLeaves(n)
           q == MatchBlock("practice", d, ct, later, breaks)
<1>2. d \in PracticesV1 /\ plan.ct \in Nat
  BY DEF Practising, PlansV1
<1>3. PracticeDays(plan) = << <<q>> >>
  BY DEF Practising, PracticeDays
<1> HIDE DEF d
<1>4. d.breaks \in Seq(BreaksV1) /\ d.changes \in Seq(ChangesV1) /\ d.ct \in Nat
      /\ d.start \in Nat /\ d.end \in Nat
  BY <1>2 DEF PracticesV1
<1>5. n \in Seq(BreaksV1) /\ ToSet(n) = TimelyOf(ToSet(d.breaks))
  BY <1>4, TimelyIs DEF TimelyOf
<1>6. ct \in Nat /\ later \in Seq(ChangesV2)
  BY <1>2, <1>4, OrElseType, BaseCycleType, LaterChangesType
<1> HIDE DEF n, ct, later
<1>7. /\ breaks \in Seq(NestedV2) /\ \A c \in ToSet(breaks) : c.type = "break"
      /\ Spans(ToSet(breaks)) = SpansAs("break", ToSet(n))
  BY <1>5, BreakLeavesSpans
<1> HIDE DEF breaks
<1>8. "practice" \in Tier2
  BY DEF Tier2
<1>9. /\ q \in BlocksV2 /\ q.type = "practice"
      /\ q.start = d.start /\ q.end = d.end /\ q.breaks = breaks
  BY <1>4, <1>6, <1>7, <1>8, MatchBlockType
<1> HIDE DEF q
<1> QED BY <1>3, <1>5, <1>7, <1>9 DEF d

LeavesOf(up, kind) == [k \in DOMAIN up |-> Leaf(DetectSubtype(up[k].name), up[k], kind[k])]

LEMMA HoistedIs ==
  ASSUME NEW d \in DaysV1
  PROVE  /\ Hoisted(d) \in Seq(BlocksV2)
         /\ \A b \in ToSet(Hoisted(d)) : b.type \in Tier3 /\ b.breaks = <<>> /\ NameTells(b)
         /\ Spans(ToSet(Hoisted(d))) = NamedSpans(OtherBreaks(ToSet(d.breaks)))
<1> DEFINE up == HoistedBreaks(d)
           I == {k \in DOMAIN d.breaks : HasWindow(d.breaks[k]) /\ DetectSubtype(d.breaks[k].name) # "break"}
           m == Hoisted(d)
<1>1. d.breaks \in Seq(BreaksV1)
  BY DEF DaysV1
<1>2. up = Picked(d.breaks, I)
  BY DEF HoistedBreaks, Where
<1>3. up \in Seq(BreaksV1) /\ ToSet(up) = {d.breaks[k] : k \in I}
  <2>1. I \in SUBSET DOMAIN d.breaks
    OBVIOUS
  <2> HIDE DEF I, up
  <2> QED BY <1>1, <1>2, <2>1, PickedIs
<1>4. {d.breaks[k] : k \in I} = OtherBreaks(ToSet(d.breaks))
  BY DEF OtherBreaks, TimelyOf, ToSet
<1>5. \E kind \in [DOMAIN up -> BlockKinds] : m = LeavesOf(up, kind)
  <2> DEFINE ceremonies ==
        Cardinality({k \in DOMAIN d.breaks : DetectSubtype(d.breaks[k].name) = "ceremony"})
             Hint(k) == IF k = 1 THEN "first" ELSE IF k = ceremonies THEN "last" ELSE "none"
             Kind(k) == IF DetectSubtype(up[k].name) = "ceremony"
                        THEN DetectCeremonyKind(up[k].name, Hint(k)) ELSE ""
             kind == [k \in DOMAIN up |-> Kind(k)]
  <2>1. m = [k \in DOMAIN up |-> Leaf(DetectSubtype(up[k].name), up[k], Kind(k))]
    BY DEF Hoisted
  <2>2. ASSUME NEW k \in DOMAIN up PROVE Kind(k) \in BlockKinds
    <3>1. "" \in BlockKinds
      BY DEF BlockKinds
    <3> QED BY <3>1, SubtypeType
  <2> HIDE DEF m, up, Kind
  <2>3. kind \in [DOMAIN up -> BlockKinds] /\ m = LeavesOf(up, kind)
    BY <2>1, <2>2 DEF LeavesOf
  <2> HIDE DEF kind
  <2> QED BY <2>3
<1>6. PICK kind \in [DOMAIN up -> BlockKinds] : m = LeavesOf(up, kind)
  BY <1>5
<1> HIDE DEF m, up
<1>7. ASSUME NEW k \in DOMAIN up
      PROVE  /\ m[k] \in BlocksV2 /\ m[k].type = DetectSubtype(up[k].name)
             /\ m[k].type \in Tier3 /\ m[k].breaks = <<>>
             /\ m[k].start = up[k].start /\ m[k].end = up[k].end /\ NameTells(m[k])
  <2> DEFINE b == up[k]
             type == DetectSubtype(b.name)
             e == kind[k]
  <2>1. b \in BreaksV1 /\ type \in Tier3 /\ e \in BlockKinds /\ m[k] = Leaf(type, b, e)
    BY <1>3, <1>6, SubtypeType DEF LeavesOf
  <2>3. type = DetectSubtype(b.name)
    OBVIOUS
  <2> HIDE DEF b, type, e
  <2>2. /\ Leaf(type, b, e) \in BlocksV2 /\ Leaf(type, b, e).type = type
        /\ Leaf(type, b, e).start = b.start /\ Leaf(type, b, e).end = b.end
        /\ Leaf(type, b, e).breaks = <<>>
    BY <2>1, LeafType
  <2>4. NameTells(Leaf(type, b, e))
    BY <2>1, <2>3, LeafTells
  <2> QED BY <2>1, <2>2, <2>4 DEF b, type
<1>8. m \in [DOMAIN up -> BlocksV2]
  BY <1>6, <1>7 DEF LeavesOf
<1>9. m \in Seq(BlocksV2) /\ DOMAIN m = DOMAIN up
  BY <1>3, <1>8, FunctionIsSeq
<1>10. \A b \in ToSet(m) : b.type \in Tier3 /\ b.breaks = <<>> /\ NameTells(b)
  BY <1>7, <1>9 DEF ToSet
<1>11. Spans(ToSet(m)) = {<<m[k].type, m[k].start, m[k].end>> : k \in DOMAIN up}
  BY <1>9 DEF Spans, ToSet
<1>12. NamedSpans(ToSet(up)) = {<<DetectSubtype(up[k].name), up[k].start, up[k].end>> : k \in DOMAIN up}
  BY DEF NamedSpans, ToSet
<1>13. Spans(ToSet(m)) = NamedSpans(ToSet(up))
  BY <1>7, <1>11, <1>12
<1> QED BY <1>3, <1>4, <1>9, <1>10, <1>13 DEF m

LEMMA PlayoffsOfIs ==
  ASSUME NEW plan \in PlansV1, NEW i
  PROVE  /\ PlayoffsOf(plan, i) \in Seq(BlocksV2)
         /\ \A b \in ToSet(PlayoffsOf(plan, i)) : b.type = "playoff" /\ b.breaks = <<>>
         /\ Spans(ToSet(PlayoffsOf(plan, i))) = SpansAs("playoff", PlayoffsAt(plan, i))
<1> DEFINE s == plan.playoffs
           I == {k \in DOMAIN s : s[k].day = i - 1 /\ HasWindow(s[k])}
           p == Picked(s, I)
           m == PlayoffsOf(plan, i)
<1>1. s \in Seq(PlayoffsV1)
  BY DEF PlansV1
<1>2. m = [k \in DOMAIN p |-> MatchBlock("playoff", p[k], OrElse(p[k].ct, PlayoffCycle), <<>>, <<>>)]
  BY DEF PlayoffsOf, Mapped, Where
<1>3. p \in Seq(PlayoffsV1) /\ ToSet(p) = {s[k] : k \in I}
  <2>1. I \in SUBSET DOMAIN s
    OBVIOUS
  <2> HIDE DEF I, s
  <2> QED BY <1>1, <2>1, PickedIs
<1>4. {s[k] : k \in I} = PlayoffsAt(plan, i)
  BY DEF PlayoffsAt, TimelyOf, ToSet
<1> HIDE DEF p, m
<1>5. ASSUME NEW k \in DOMAIN p
      PROVE  /\ m[k] \in BlocksV2 /\ m[k].type = "playoff" /\ m[k].breaks = <<>>
             /\ m[k].start = p[k].start /\ m[k].end = p[k].end
  <2> DEFINE b == p[k]
             ct == OrElse(b.ct, PlayoffCycle)
  <2>1. b \in PlayoffsV1 /\ m[k] = MatchBlock("playoff", b, ct, <<>>, <<>>)
    BY <1>2, <1>3
  <2>2. b.start \in Nat /\ b.end \in Nat /\ ct \in Nat
    BY <2>1, OrElseType, CyclesAssumption DEF PlayoffsV1
  <2> DEFINE none == <<>>
  <2>3. none \in Seq(ChangesV2) /\ none \in Seq(NestedV2) /\ "playoff" \in Tier2
    BY DEF Tier2
  <2> DEFINE x == m[k]
  <2>4. x = MatchBlock("playoff", b, ct, none, none)
    BY <2>1
  <2> HIDE DEF b, ct, none, x
  <2>5. x \in BlocksV2 /\ x.type = "playoff" /\ x.start = b.start /\ x.end = b.end
          /\ x.breaks = none
    BY <2>2, <2>3, <2>4, MatchBlockType
  <2> QED BY <2>5 DEF b, none, x
<1>6. m \in [DOMAIN p -> BlocksV2]
  <2>1. DOMAIN m = DOMAIN p
    BY <1>2
  <2> QED BY <1>2, <1>5, <2>1
<1>7. m \in Seq(BlocksV2) /\ DOMAIN m = DOMAIN p
  BY <1>3, <1>6, FunctionIsSeq
<1>8. \A b \in ToSet(m) : b.type = "playoff" /\ b.breaks = <<>>
  BY <1>5, <1>7 DEF ToSet
<1>9. Spans(ToSet(m)) = {<<m[k].type, m[k].start, m[k].end>> : k \in DOMAIN p}
  BY <1>7 DEF Spans, ToSet
<1>10. SpansAs("playoff", ToSet(p)) = {<<"playoff", p[k].start, p[k].end>> : k \in DOMAIN p}
  BY DEF SpansAs, ToSet
<1>11. Spans(ToSet(m)) = SpansAs("playoff", ToSet(p))
  BY <1>5, <1>9, <1>10
<1> QED BY <1>3, <1>4, <1>7, <1>8, <1>11 DEF m

-----------------------------------------------------------------------------
\* The windows of a plan, day by day.
DaySpans(blocks) == Spans(blocks) \cup UNION {Spans(ToSet(b.breaks)) : b \in blocks}
RegularSpans(plan, i) ==
  {<<"qualification", plan.days[i].start, plan.days[i].end>>}
    \cup NamedSpans(TimelyOf(ToSet(plan.days[i].breaks)))
    \cup SpansAs("playoff", PlayoffsAt(plan, i))
PracticeSpans(plan) ==
  {<<"practice", plan.practice.start, plan.practice.end>>}
    \cup SpansAs("break", TimelyOf(ToSet(plan.practice.breaks)))

\* Only match blocks have breaks in them, and these are of the lower tier.
Tiered(blocks) ==
  \A b \in blocks : /\ b.type \in Tier3 => b.breaks = <<>>
                    /\ \A c \in ToSet(b.breaks) : c.type \in Tier3

LEMMA ConcatIs ==
  ASSUME NEW T, NEW s \in Seq(T), NEW t \in Seq(T)
  PROVE  s \o t \in Seq(T) /\ ToSet(s \o t) = ToSet(s) \cup ToSet(t)
<1> DEFINE f == s \o t
           n == Len(s)
<1>1. /\ f \in Seq(T) /\ Len(f) = n + Len(t)
      /\ \A k \in 1 .. n : f[k] = s[k]
      /\ \A k \in 1 .. Len(t) : f[n + k] = t[k]
  OBVIOUS
<1>2. /\ n \in Nat /\ Len(t) \in Nat /\ Len(f) \in Nat
      /\ DOMAIN s = 1 .. n /\ DOMAIN t = 1 .. Len(t) /\ DOMAIN f = 1 .. Len(f)
  BY <1>1
<1> HIDE DEF f, n
<1>3. ASSUME NEW x \in ToSet(f) PROVE x \in ToSet(s) \cup ToSet(t)
  <2>1. PICK k \in DOMAIN f : x = f[k]
    BY <1>3 DEF ToSet
  <2>2. CASE k <= n
    BY <1>1, <1>2, <2>1, <2>2 DEF ToSet
  <2>3. CASE k > n
    <3>1. k - n \in 1 .. Len(t) /\ n + (k - n) = k
      BY <1>1, <1>2, <2>1, <2>3
    <3>2. x = t[k - n]
      BY <1>1, <2>1, <3>1
    <3> QED BY <1>2, <3>1, <3>2 DEF ToSet
  <2> QED BY <1>2, <2>1, <2>2, <2>3
<1>4. ASSUME NEW x \in ToSet(s) PROVE x \in ToSet(f)
  <2>1. PICK k \in DOMAIN s : x = s[k]
    BY <1>4 DEF ToSet
  <2> QED BY <1>1, <1>2, <2>1 DEF ToSet
<1>5. ASSUME NEW x \in ToSet(t) PROVE x \in ToSet(f)
  <2>1. PICK k \in DOMAIN t : x = t[k]
    BY <1>5 DEF ToSet
  <2>2. n + k \in DOMAIN f /\ f[n + k] = x
    BY <1>1, <1>2, <2>1
  <2> QED BY <2>2 DEF ToSet
<1> QED BY <1>1, <1>3, <1>4, <1>5 DEF f

LEMMA NoBreaks == Spans(ToSet(<<>>)) = {} /\ ToSet(<<>>) = {}
BY DEF Spans, ToSet

LEMMA SpansOfUnion ==
  ASSUME NEW A, NEW B
  PROVE  Spans(A \cup B) = Spans(A) \cup Spans(B)
BY DEF Spans

LEMMA BreaksSplit ==
  ASSUME NEW S
  PROVE  NamedSpans(TimelyOf(S)) = SpansAs("break", PlainBreaks(S)) \cup NamedSpans(OtherBreaks(S))
<1>1. ASSUME NEW x PROVE x \in NamedSpans(TimelyOf(S))
        <=> \E b \in TimelyOf(S) : x = <<DetectSubtype(b.name), b.start, b.end>>
  BY DEF NamedSpans
<1>2. ASSUME NEW x PROVE x \in NamedSpans(OtherBreaks(S))
        <=> \E b \in TimelyOf(S) : DetectSubtype(b.name) # "break" /\ x = <<DetectSubtype(b.name), b.start, b.end>>
  BY DEF NamedSpans, OtherBreaks
<1>3. ASSUME NEW x PROVE x \in SpansAs("break", PlainBreaks(S))
        <=> \E b \in TimelyOf(S) : DetectSubtype(b.name) = "break" /\ x = <<"break", b.start, b.end>>
  BY DEF SpansAs, PlainBreaks
<1>4. ASSUME NEW x PROVE x \in NamedSpans(TimelyOf(S))
        <=> x \in SpansAs("break", PlainBreaks(S)) \/ x \in NamedSpans(OtherBreaks(S))
  BY <1>1, <1>2, <1>3
<1> QED BY <1>4

LEMMA RegularDayIs ==
  ASSUME NEW plan \in PlansV1, NEW i \in DOMAIN plan.days
  PROVE  /\ RegularDay(plan, i) \in Seq(BlocksV2)
         /\ Tiered(ToSet(RegularDay(plan, i)))
         /\ DaySpans(ToSet(RegularDay(plan, i))) = RegularSpans(plan, i)
         /\ PlainDay(ToSet(RegularDay(plan, i)))
<1> DEFINE d == plan.days[i]
           q == QualOf(plan, d)
           h == Hoisted(d)
           p == PlayoffsOf(plan, i)
           s == <<q>> \o h \o p
           S == {q} \cup ToSet(h) \cup ToSet(p)
<1>1. d \in DaysV1
  BY DEF PlansV1
<1>2. RegularDay(plan, i) = ByStart(s)
  BY DEF RegularDay
<1> HIDE DEF d
<1>3. /\ q \in BlocksV2 /\ q.type = "qualification"
      /\ q.start = d.start /\ q.end = d.end
      /\ \A c \in ToSet(q.breaks) : c.type = "break" /\ NameTells(c)
      /\ Spans(ToSet(q.breaks)) = SpansAs("break", PlainBreaks(ToSet(d.breaks)))
  BY <1>1, QualIs
<1>4. /\ h \in Seq(BlocksV2)
      /\ \A b \in ToSet(h) : b.type \in Tier3 /\ b.breaks = <<>> /\ NameTells(b)
      /\ Spans(ToSet(h)) = NamedSpans(OtherBreaks(ToSet(d.breaks)))
  BY <1>1, HoistedIs
<1>5. /\ p \in Seq(BlocksV2) /\ \A b \in ToSet(p) : b.type = "playoff" /\ b.breaks = <<>>
      /\ Spans(ToSet(p)) = SpansAs("playoff", PlayoffsAt(plan, i))
  BY PlayoffsOfIs
<1> HIDE DEF q, h, p
<1>6. s \in Seq(BlocksV2) /\ ToSet(s) = S
  <2> DEFINE a == <<q>>
             e == a \o h
  <2>1. a \in Seq(BlocksV2) /\ ToSet(a) = {q}
    BY <1>3 DEF ToSet
  <2> HIDE DEF a
  <2>2. e \in Seq(BlocksV2) /\ ToSet(e) = {q} \cup ToSet(h)
    BY <1>4, <2>1, ConcatIs
  <2>3. s = e \o p
    BY DEF a
  <2> HIDE DEF e, s
  <2> QED BY <1>5, <2>2, <2>3, ConcatIs
<1> HIDE DEF s
<1>7. ByStart(s) \in Seq(BlocksV2) /\ ToSet(ByStart(s)) = S
  <2>1. \A x \in BlocksV2 : x.start \in Int
    BY DEF BlocksV2
  <2> QED BY <1>6, <2>1, ByStartIs
<1>8. Tiered(S)
  <2>1. "qualification" \notin Tier3 /\ "break" \in Tier3 /\ "playoff" \notin Tier3
    BY DEF Tier3
  <2>2. ASSUME NEW b \in ToSet(h) PROVE \A c \in ToSet(b.breaks) : c.type \in Tier3
    BY <1>4, NoBreaks
  <2>3. ASSUME NEW b \in ToSet(p) PROVE \A c \in ToSet(b.breaks) : c.type \in Tier3
    BY <1>5, NoBreaks
  <2> QED BY <1>3, <1>4, <1>5, <2>1, <2>2, <2>3 DEF Tiered
<1>9. Spans(S) = {<<"qualification", d.start, d.end>>} \cup NamedSpans(OtherBreaks(ToSet(d.breaks)))
                   \cup SpansAs("playoff", PlayoffsAt(plan, i))
  <2>1. Spans({q}) = {<<"qualification", d.start, d.end>>}
    BY <1>3 DEF Spans
  <2> DEFINE A == {q} \cup ToSet(h)
  <2>2. Spans(A) = Spans({q}) \cup Spans(ToSet(h))
    BY SpansOfUnion
  <2>3. S = A \cup ToSet(p)
    OBVIOUS
  <2> HIDE DEF A, S
  <2>4. Spans(S) = Spans(A) \cup Spans(ToSet(p))
    BY <2>3, SpansOfUnion
  <2> QED BY <1>4, <1>5, <2>1, <2>2, <2>4
<1>10. UNION {Spans(ToSet(b.breaks)) : b \in S} = SpansAs("break", PlainBreaks(ToSet(d.breaks)))
  <2>1. \A b \in ToSet(h) \cup ToSet(p) : Spans(ToSet(b.breaks)) = {}
    BY <1>4, <1>5, NoBreaks
  <2>2. UNION {Spans(ToSet(b.breaks)) : b \in S} = Spans(ToSet(q.breaks))
    BY <2>1
  <2> QED BY <1>3, <2>2
<1>11. DaySpans(S) = RegularSpans(plan, i)
  <2>1. NamedSpans(TimelyOf(ToSet(d.breaks))) =
          SpansAs("break", PlainBreaks(ToSet(d.breaks))) \cup NamedSpans(OtherBreaks(ToSet(d.breaks)))
    BY BreaksSplit
  <2>2. DaySpans(S) = Spans(S) \cup SpansAs("break", PlainBreaks(ToSet(d.breaks)))
    BY <1>10 DEF DaySpans
  <2>3. RegularSpans(plan, i) = {<<"qualification", d.start, d.end>>}
          \cup NamedSpans(TimelyOf(ToSet(d.breaks))) \cup SpansAs("playoff", PlayoffsAt(plan, i))
    BY DEF RegularSpans, d
  <2> QED BY <1>9, <2>1, <2>2, <2>3
<1>12. PlainDay(S)
  <2>1. /\ "qualification" \in MatchTypes /\ "qualification" \notin Tier3
        /\ "playoff" \notin Tier3 \cup MatchTypes /\ Tier3 \cap MatchTypes = {}
    BY DEF Tier3, MatchTypes
  <2>2. q \in S /\ \A b \in S : b = q \/ b \in ToSet(h) \/ b \in ToSet(p)
    OBVIOUS
  <2>3. \A b \in S : b.type \in MatchTypes => b = q
    BY <1>4, <1>5, <2>1, <2>2
  <2>4. ASSUME NEW b \in S
        PROVE  /\ b.type = "playoff" => b.breaks = <<>>
               /\ b.type \in Tier3 => NameTells(b)
               /\ \A c \in ToSet(b.breaks) : NameTells(c)
    <3>1. CASE b = q
      BY <1>3, <2>1, <3>1
    <3>2. CASE b \in ToSet(h)
      BY <1>4, <3>2, NoBreaks
    <3>3. CASE b \in ToSet(p)
      BY <1>5, <2>1, <3>3, NoBreaks
    <3> QED BY <2>2, <3>1, <3>2, <3>3
  <2> HIDE DEF S
  <2> QED BY <1>3, <2>2, <2>3, <2>4 DEF PlainDay
<1> QED BY <1>2, <1>7, <1>8, <1>11, <1>12

LEMMA PracticeDayIs ==
  ASSUME NEW plan \in PlansV1, Practising(plan)
  PROVE  \E day \in Seq(BlocksV2) :
           /\ PracticeDays(plan) = <<day>> /\ Tiered(ToSet(day))
           /\ DaySpans(ToSet(day)) = PracticeSpans(plan) /\ PlainPractice(ToSet(day))
<1>1. PICK p \in BlocksV2 :
        /\ PracticeDays(plan) = << <<p>> >> /\ p.type = "practice"
        /\ p.start = plan.practice.start /\ p.end = plan.practice.end
        /\ \A c \in ToSet(p.breaks) : c.type = "break"
        /\ Spans(ToSet(p.breaks)) = SpansAs("break", TimelyOf(ToSet(plan.practice.breaks)))
  BY PracticeIs
<1> DEFINE day == <<p>>
<1>2. day \in Seq(BlocksV2) /\ ToSet(day) = {p}
  BY DEF ToSet
<1>3. Tiered({p})
  BY <1>1 DEF Tiered, Tier3
<1>4. DaySpans({p}) = PracticeSpans(plan)
  <2>1. Spans({p}) = {<<"practice", plan.practice.start, plan.practice.end>>}
    BY <1>1 DEF Spans
  <2>2. UNION {Spans(ToSet(b.breaks)) : b \in {p}} = Spans(ToSet(p.breaks))
    OBVIOUS
  <2> QED BY <1>1, <2>1, <2>2 DEF DaySpans, PracticeSpans
<1>6. PlainPractice({p})
  BY <1>1 DEF PlainPractice
<1> HIDE DEF day
<1>5. PracticeDays(plan) = <<day>>
  BY <1>1 DEF day
<1> QED BY <1>2, <1>3, <1>4, <1>5, <1>6

-----------------------------------------------------------------------------
\* What a plan says, and that the conversions leave it as it is.
Dated(i, spans) == {<<i, x[1], x[2], x[3]>> : x \in spans}

LEMMA DatedBoth ==
  ASSUME NEW i, NEW A, NEW B
  PROVE  Dated(i, A \cup B) = Dated(i, A) \cup Dated(i, B)
BY DEF Dated

LEMMA DatedOne ==
  ASSUME NEW i, NEW type, NEW b
  PROVE  Dated(i, {<<type, b.start, b.end>>}) = {Window(i, type, b)}
BY DEF Dated, Window

LEMMA DatedSpans ==
  ASSUME NEW i, NEW S
  PROVE  Dated(i, Spans(S)) = {Window(i, b.type, b) : b \in S}
<1> DEFINE X == Spans(S)
           W == {Window(i, b.type, b) : b \in S}
<1>1. ASSUME NEW b \in S
      PROVE  \A x : x = <<b.type, b.start, b.end>> => <<i, x[1], x[2], x[3]>> = Window(i, b.type, b)
  BY DEF Window
<1>2. ASSUME NEW w \in Dated(i, X) PROVE w \in W
  <2>1. PICK x \in X : w = <<i, x[1], x[2], x[3]>>
    BY <1>2 DEF Dated
  <2>2. PICK b \in S : x = <<b.type, b.start, b.end>>
    BY <2>1 DEF Spans
  <2> QED BY <1>1, <2>1, <2>2
<1>3. ASSUME NEW w \in W PROVE w \in Dated(i, X)
  <2>1. PICK b \in S : w = Window(i, b.type, b)
    BY <1>3
  <2> DEFINE x == <<b.type, b.start, b.end>>
  <2>2. x \in X
    BY DEF Spans
  <2>3. <<i, x[1], x[2], x[3]>> = w
    BY <1>1, <2>1
  <2> HIDE DEF x, X
  <2> QED BY <2>2, <2>3 DEF Dated
<1> QED BY <1>2, <1>3

LEMMA DatedSpansAs ==
  ASSUME NEW i, NEW type, NEW S
  PROVE  Dated(i, SpansAs(type, S)) = {Window(i, type, b) : b \in S}
<1> DEFINE X == SpansAs(type, S)
           W == {Window(i, type, b) : b \in S}
<1>1. ASSUME NEW b \in S
      PROVE  \A x : x = <<type, b.start, b.end>> => <<i, x[1], x[2], x[3]>> = Window(i, type, b)
  BY DEF Window
<1>2. ASSUME NEW w \in Dated(i, X) PROVE w \in W
  <2>1. PICK x \in X : w = <<i, x[1], x[2], x[3]>>
    BY <1>2 DEF Dated
  <2>2. PICK b \in S : x = <<type, b.start, b.end>>
    BY <2>1 DEF SpansAs
  <2> QED BY <1>1, <2>1, <2>2
<1>3. ASSUME NEW w \in W PROVE w \in Dated(i, X)
  <2>1. PICK b \in S : w = Window(i, type, b)
    BY <1>3
  <2> DEFINE x == <<type, b.start, b.end>>
  <2>2. x \in X
    BY DEF SpansAs
  <2>3. <<i, x[1], x[2], x[3]>> = w
    BY <1>1, <2>1
  <2> HIDE DEF x, X
  <2> QED BY <2>2, <2>3 DEF Dated
<1> QED BY <1>2, <1>3

LEMMA DatedNamed ==
  ASSUME NEW i, NEW S
  PROVE  Dated(i, NamedSpans(S)) = {Window(i, DetectSubtype(b.name), b) : b \in S}
<1> DEFINE X == NamedSpans(S)
           W == {Window(i, DetectSubtype(b.name), b) : b \in S}
<1>1. ASSUME NEW b \in S
      PROVE  \A x : x = <<DetectSubtype(b.name), b.start, b.end>> => <<i, x[1], x[2], x[3]>> = Window(i, DetectSubtype(b.name), b)
  BY DEF Window
<1>2. ASSUME NEW w \in Dated(i, X) PROVE w \in W
  <2>1. PICK x \in X : w = <<i, x[1], x[2], x[3]>>
    BY <1>2 DEF Dated
  <2>2. PICK b \in S : x = <<DetectSubtype(b.name), b.start, b.end>>
    BY <2>1 DEF NamedSpans
  <2> QED BY <1>1, <2>1, <2>2
<1>3. ASSUME NEW w \in W PROVE w \in Dated(i, X)
  <2>1. PICK b \in S : w = Window(i, DetectSubtype(b.name), b)
    BY <1>3
  <2> DEFINE x == <<DetectSubtype(b.name), b.start, b.end>>
  <2>2. x \in X
    BY DEF NamedSpans
  <2>3. <<i, x[1], x[2], x[3]>> = w
    BY <1>1, <2>1
  <2> HIDE DEF x, X
  <2> QED BY <2>2, <2>3 DEF Dated
<1> QED BY <1>2, <1>3

LEMMA DatedUnion ==
  ASSUME NEW i, NEW F
  PROVE  Dated(i, UNION F) = UNION {Dated(i, spans) : spans \in F}
BY DEF Dated

LEMMA DatedDay ==
  ASSUME NEW i, NEW B
  PROVE  Dated(i, DaySpans(B)) =
           {Window(i, b.type, b) : b \in B}
             \cup UNION {{Window(i, c.type, c) : c \in ToSet(b.breaks)} : b \in B}
<1> DEFINE F == {Spans(ToSet(b.breaks)) : b \in B}
<1>1. Dated(i, DaySpans(B)) = Dated(i, Spans(B)) \cup Dated(i, UNION F)
  <2> DEFINE X == Spans(B)
             Y == UNION F
  <2>1. DaySpans(B) = X \cup Y
    BY DEF DaySpans
  <2> HIDE DEF X, Y
  <2>2. Dated(i, X \cup Y) = Dated(i, X) \cup Dated(i, Y)
    BY DatedBoth
  <2> QED BY <2>1, <2>2 DEF X, Y
<1>2. Dated(i, UNION F) = UNION {Dated(i, spans) : spans \in F}
  <2> HIDE DEF F
  <2> QED BY DatedUnion
<1>3. {Dated(i, spans) : spans \in F} = {Dated(i, Spans(ToSet(b.breaks))) : b \in B}
  OBVIOUS
<1>4. ASSUME NEW b \in B
      PROVE  Dated(i, Spans(ToSet(b.breaks))) = {Window(i, c.type, c) : c \in ToSet(b.breaks)}
  <2> DEFINE S == ToSet(b.breaks)
  <2> HIDE DEF S
  <2>1. Dated(i, Spans(S)) = {Window(i, c.type, c) : c \in S}
    BY DatedSpans
  <2> QED BY <2>1 DEF S
<1>5. Dated(i, Spans(B)) = {Window(i, b.type, b) : b \in B}
  BY DatedSpans
<1>6. {Dated(i, Spans(ToSet(b.breaks))) : b \in B} =
        {{Window(i, c.type, c) : c \in ToSet(b.breaks)} : b \in B}
  BY <1>4
<1> QED BY <1>1, <1>2, <1>3, <1>5, <1>6

LEMMA WindowsV2Is ==
  ASSUME NEW plan
  PROVE  WindowsV2(plan) = UNION {Dated(i, DaySpans(ToSet(plan.days[i]))) : i \in DOMAIN plan.days}
<1>1. ASSUME NEW i \in DOMAIN plan.days
      PROVE  Dated(i, DaySpans(ToSet(plan.days[i]))) =
               {Window(i, b.type, b) : b \in ToSet(plan.days[i])}
                 \cup UNION {{Window(i, c.type, c) : c \in ToSet(b.breaks)} : b \in ToSet(plan.days[i])}
  BY DatedDay
<1> DEFINE Day(i) == {Window(i, b.type, b) : b \in ToSet(plan.days[i])}
             \cup UNION {{Window(i, c.type, c) : c \in ToSet(b.breaks)} : b \in ToSet(plan.days[i])}
<1>2. WindowsV2(plan) = UNION {Day(i) : i \in DOMAIN plan.days}
  BY DEF WindowsV2
<1> DEFINE Said(i) == Dated(i, DaySpans(ToSet(plan.days[i])))
<1>3. \A i \in DOMAIN plan.days : Day(i) = Said(i)
  BY <1>1
<1> HIDE DEF Day, Said
<1>4. {Day(i) : i \in DOMAIN plan.days} = {Said(i) : i \in DOMAIN plan.days}
  BY <1>3
<1> QED BY <1>2, <1>4 DEF Said

Shift(plan) == IF Practising(plan) THEN 1 ELSE 0

LEMMA WindowsV1Is ==
  ASSUME NEW plan \in PlansV1
  PROVE  WindowsV1(plan) =
           (IF Practising(plan) THEN Dated(1, PracticeSpans(plan)) ELSE {})
             \cup UNION {Dated(Shift(plan) + i, RegularSpans(plan, i)) : i \in DOMAIN plan.days}
<1> DEFINE At(i) == IF Practising(plan) THEN i + 1 ELSE i
           Day(i) == {Window(At(i), "qualification", plan.days[i])}
                    \cup {Window(At(i), DetectSubtype(b.name), b) : b \in ToSet(Timely(plan.days[i].breaks))}
                    \cup {Window(At(i), "playoff", p) :
                            p \in {q \in ToSet(Timely(plan.playoffs)) : q.day = i - 1}}
           Practice == {Window(1, "practice", plan.practice)}
              \cup {Window(1, "break", b) : b \in ToSet(Timely(plan.practice.breaks))}
<1>1. WindowsV1(plan) = (IF ~Practising(plan) THEN {} ELSE Practice)
                          \cup UNION {Day(i) : i \in DOMAIN plan.days}
  BY DEF WindowsV1, Practising
<1>2. ASSUME NEW i \in DOMAIN plan.days
      PROVE  Day(i) = Dated(Shift(plan) + i, RegularSpans(plan, i))
  <2> DEFINE at == Shift(plan) + i
             d == plan.days[i]
             B == TimelyOf(ToSet(d.breaks))
             P == PlayoffsAt(plan, i)
  <2>1. at = At(i)
    BY DEF Shift, PlansV1
  <2>2. d \in DaysV1 /\ d.breaks \in Seq(BreaksV1) /\ plan.playoffs \in Seq(PlayoffsV1)
    <3>1. plan.days \in Seq(DaysV1) /\ plan.playoffs \in Seq(PlayoffsV1)
      BY DEF PlansV1
    <3>2. d \in DaysV1
      BY <3>1
    <3> HIDE DEF d
    <3> QED BY <3>1, <3>2 DEF DaysV1
  <2>3. B = ToSet(Timely(d.breaks))
    <3> HIDE DEF d
    <3> QED BY <2>2, TimelyIs DEF TimelyOf
  <2>4. P = {q \in ToSet(Timely(plan.playoffs)) : q.day = i - 1}
    BY <2>2, TimelyIs DEF PlayoffsAt, TimelyOf
  <2>5. RegularSpans(plan, i) = {<<"qualification", d.start, d.end>>} \cup NamedSpans(B)
                                  \cup SpansAs("playoff", P)
    BY DEF RegularSpans
  <2>6. Day(i) = {Window(at, "qualification", d)}
                   \cup {Window(at, DetectSubtype(b.name), b) : b \in B}
                   \cup {Window(at, "playoff", p) : p \in P}
    BY <2>1, <2>3, <2>4
  <2> HIDE DEF at, d, B, P, Day, At
  <2> DEFINE X == {<<"qualification", d.start, d.end>>}
             Y == NamedSpans(B)
             Z == SpansAs("playoff", P)
  <2>7. /\ Dated(at, X) = {Window(at, "qualification", d)}
        /\ Dated(at, Y) = {Window(at, DetectSubtype(b.name), b) : b \in B}
        /\ Dated(at, Z) = {Window(at, "playoff", p) : p \in P}
    BY DatedOne, DatedNamed, DatedSpansAs
  <2>8. RegularSpans(plan, i) = (X \cup Y) \cup Z
    BY <2>5
  <2> HIDE DEF X, Y, Z
  <2>9. Dated(at, (X \cup Y) \cup Z) = Dated(at, X) \cup Dated(at, Y) \cup Dated(at, Z)
    <3>1. Dated(at, X \cup Y) = Dated(at, X) \cup Dated(at, Y)
      BY DatedBoth
    <3> DEFINE XY == X \cup Y
    <3> HIDE DEF XY
    <3>3. Dated(at, XY \cup Z) = Dated(at, XY) \cup Dated(at, Z)
      BY DatedBoth
    <3>2. Dated(at, (X \cup Y) \cup Z) = Dated(at, X \cup Y) \cup Dated(at, Z)
      BY <3>3 DEF XY
    <3> QED BY <3>1, <3>2
  <2>10. Day(i) = Dated(at, RegularSpans(plan, i))
    BY <2>6, <2>7, <2>8, <2>9
  <2> QED BY <2>10 DEF at
<1>3. ASSUME Practising(plan) PROVE Practice = Dated(1, PracticeSpans(plan))
  <2> DEFINE d == plan.practice
             B == TimelyOf(ToSet(d.breaks))
  <2>1. d \in PracticesV1 /\ d.breaks \in Seq(BreaksV1)
    BY <1>3 DEF Practising, PlansV1, PracticesV1
  <2>2. B = ToSet(Timely(d.breaks))
    <3> HIDE DEF d
    <3> QED BY <2>1, TimelyIs DEF TimelyOf
  <2>3. PracticeSpans(plan) = {<<"practice", d.start, d.end>>} \cup SpansAs("break", B)
    BY DEF PracticeSpans
  <2>4. Practice = {Window(1, "practice", d)} \cup {Window(1, "break", b) : b \in B}
    BY <2>2
  <2> HIDE DEF d, B, Practice
  <2>5. /\ Dated(1, {<<"practice", d.start, d.end>>}) = {Window(1, "practice", d)}
        /\ Dated(1, SpansAs("break", B)) = {Window(1, "break", b) : b \in B}
    BY DatedOne, DatedSpansAs
  <2>6. Dated(1, {<<"practice", d.start, d.end>>} \cup SpansAs("break", B)) =
          Dated(1, {<<"practice", d.start, d.end>>}) \cup Dated(1, SpansAs("break", B))
    <3> DEFINE X == {<<"practice", d.start, d.end>>}
               Y == SpansAs("break", B)
    <3> HIDE DEF X, Y
    <3>1. Dated(1, X \cup Y) = Dated(1, X) \cup Dated(1, Y)
      BY DatedBoth
    <3> QED BY <3>1 DEF X, Y
  <2> QED BY <2>3, <2>4, <2>5, <2>6
<1> HIDE DEF Day, Practice
<1>4. {Day(i) : i \in DOMAIN plan.days} =
        {Dated(Shift(plan) + i, RegularSpans(plan, i)) : i \in DOMAIN plan.days}
  BY <1>2
<1> QED BY <1>1, <1>3, <1>4

LEMMA MigratedDays ==
  ASSUME NEW plan \in PlansV1
  PROVE  LET m == MigrateV1ToV2(plan)
             n == Shift(plan)
         IN  /\ m \in PlansV2 /\ Len(m.days) = n + Len(plan.days)
             /\ Practising(plan) => /\ Tiered(ToSet(m.days[1]))
                                    /\ DaySpans(ToSet(m.days[1])) = PracticeSpans(plan)
                                    /\ PlainPractice(ToSet(m.days[1]))
             /\ \A i \in DOMAIN plan.days :
                  m.days[n + i] = RegularDay(plan, i)
<1> DEFINE m == MigrateV1ToV2(plan)
           n == Shift(plan)
           r == [i \in DOMAIN plan.days |-> RegularDay(plan, i)]
           p == PracticeDays(plan)
<1>1. plan.days \in Seq(DaysV1) /\ plan.v = 1 /\ plan.ct \in Nat /\ plan.buffer \in Nat
  BY DEF PlansV1
<1>2. m = [v |-> 2, ct |-> plan.ct, buffer |-> plan.buffer, days |-> p \o r]
  BY <1>1 DEF MigrateV1ToV2
<1>3. r \in [DOMAIN plan.days -> Seq(BlocksV2)]
  BY RegularDayIs
<1>4. r \in Seq(Seq(BlocksV2)) /\ Len(r) = Len(plan.days) /\ DOMAIN r = DOMAIN plan.days
  <2> HIDE DEF r
  <2> QED BY <1>1, <1>3, FunctionIsSeq
<1>5. \A i \in DOMAIN plan.days : r[i] = RegularDay(plan, i)
  OBVIOUS
<1>6. /\ p \in Seq(Seq(BlocksV2)) /\ Len(p) = n
      /\ Practising(plan) => /\ Tiered(ToSet(p[1]))
                             /\ DaySpans(ToSet(p[1])) = PracticeSpans(plan)
                             /\ PlainPractice(ToSet(p[1]))
  <2>1. CASE ~Practising(plan)
    <3>1. p = <<>> /\ n = 0
      BY <2>1, PracticeIs DEF Shift
    <3>2. <<>> \in Seq(Seq(BlocksV2)) /\ Len(<<>>) = 0
      OBVIOUS
    <3> HIDE DEF p, n
    <3> QED BY <2>1, <3>1, <3>2
  <2>2. CASE Practising(plan)
    <3>1. PICK day \in Seq(BlocksV2) : /\ p = <<day>> /\ Tiered(ToSet(day))
                                       /\ DaySpans(ToSet(day)) = PracticeSpans(plan)
                                       /\ PlainPractice(ToSet(day))
      BY <2>2, PracticeDayIs
    <3>2. p[1] = day /\ Len(p) = 1 /\ p \in Seq(Seq(BlocksV2))
      BY <3>1
    <3> QED BY <2>2, <3>1, <3>2 DEF Shift
  <2> QED BY <2>1, <2>2
<1> HIDE DEF p, r
<1>7. n \in {0, 1} /\ (Practising(plan) => n = 1)
  BY DEF Shift
<1> HIDE DEF n
<1> DEFINE q == p \o r
<1>8. /\ q \in Seq(Seq(BlocksV2)) /\ Len(q) = n + Len(plan.days)
      /\ \A i \in 1 .. n : q[i] = p[i]
      /\ \A i \in 1 .. Len(r) : q[n + i] = r[i]
  <2> DEFINE T == Seq(BlocksV2)
  <2>1. p \in Seq(T) /\ r \in Seq(T) /\ Len(p) = n /\ Len(r) = Len(plan.days)
    BY <1>4, <1>6
  <2> HIDE DEF T
  <2>2. /\ q \in Seq(T) /\ Len(q) = Len(p) + Len(r)
        /\ \A i \in 1 .. Len(p) : q[i] = p[i]
        /\ \A i \in 1 .. Len(r) : q[Len(p) + i] = r[i]
    BY <2>1
  <2> QED BY <2>1, <2>2 DEF T
<1>9. DOMAIN plan.days = 1 .. Len(r)
  BY <1>1, <1>4
<1>10. m \in PlansV2 /\ m.days = q
  BY <1>1, <1>2, <1>8 DEF PlansV2
<1>11. Practising(plan) => q[1] = p[1]
  BY <1>7, <1>8
<1> HIDE DEF q, m
<1> QED BY <1>5, <1>6, <1>8, <1>9, <1>10, <1>11 DEF m, n

LEMMA MigrateIs ==
  ASSUME NEW plan \in PlansV1
  PROVE  LET m == MigrateV1ToV2(plan)
         IN  /\ m \in PlansV2 /\ WindowsV2(m) = WindowsV1(plan)
             /\ \A j \in DOMAIN m.days : Tiered(ToSet(m.days[j]))
<1> DEFINE m == MigrateV1ToV2(plan)
           n == Shift(plan)
           Said(j) == Dated(j, DaySpans(ToSet(m.days[j])))
           Regular(i) == Dated(n + i, RegularSpans(plan, i))
           D == DOMAIN plan.days
           M == DOMAIN m.days
<1>1. /\ m \in PlansV2 /\ Len(m.days) = n + Len(plan.days)
      /\ Practising(plan) => /\ Tiered(ToSet(m.days[1]))
                             /\ DaySpans(ToSet(m.days[1])) = PracticeSpans(plan)
      /\ \A i \in DOMAIN plan.days :
           m.days[n + i] = RegularDay(plan, i)
  BY MigratedDays
<1> HIDE DEF m
<1>2. plan.days \in Seq(DaysV1) /\ m.days \in Seq(Seq(BlocksV2))
  BY <1>1 DEF PlansV1, PlansV2
<1>3. D = 1 .. Len(plan.days) /\ M = 1 .. Len(m.days) /\ Len(plan.days) \in Nat
  BY <1>2
<1>4. /\ Practising(plan) => n = 1 /\ 1 \in M
      /\ \A j \in M : (Practising(plan) /\ j = 1) \/ \E i \in D : j = n + i
      /\ \A i \in D : n + i \in M
  <2>1. CASE Practising(plan)
    <3>1. n = 1
      BY <2>1 DEF Shift
    <3>2. \A j \in M : j # 1 => j - 1 \in D /\ j = 1 + (j - 1)
      BY <1>1, <1>3, <3>1
    <3> QED BY <1>1, <1>3, <2>1, <3>1, <3>2
  <2>2. CASE ~Practising(plan)
    <3>1. n = 0
      BY <2>2 DEF Shift
    <3> QED BY <1>1, <1>3, <2>2, <3>1
  <2> QED BY <2>1, <2>2
<1>5. ASSUME NEW i \in D
      PROVE  Said(n + i) = Regular(i) /\ Tiered(ToSet(m.days[n + i]))
  <2>1. /\ Tiered(ToSet(RegularDay(plan, i)))
        /\ DaySpans(ToSet(RegularDay(plan, i))) = RegularSpans(plan, i)
    BY RegularDayIs
  <2> QED BY <1>1, <2>1
<1>6. Practising(plan) => Said(1) = Dated(1, PracticeSpans(plan)) /\ Tiered(ToSet(m.days[1]))
  BY <1>1
<1>7. \A j \in M : Tiered(ToSet(m.days[j]))
  BY <1>4, <1>5, <1>6
<1>8. WindowsV2(m) = UNION {Said(j) : j \in M}
  BY WindowsV2Is
<1>9. WindowsV1(plan) = (IF Practising(plan) THEN Dated(1, PracticeSpans(plan)) ELSE {})
                          \cup UNION {Regular(i) : i \in D}
  BY WindowsV1Is
<1> HIDE DEF Said, Regular, M, D, n
<1>10. UNION {Said(j) : j \in M} = (IF Practising(plan) THEN Said(1) ELSE {})
                                     \cup UNION {Said(n + i) : i \in D}
  <2>1. ASSUME NEW w, NEW j \in M, w \in Said(j)
        PROVE  (Practising(plan) /\ w \in Said(1)) \/ \E i \in D : w \in Said(n + i)
    BY <1>4, <2>1
  <2>2. ASSUME NEW w, NEW i \in D, w \in Said(n + i) PROVE \E j \in M : w \in Said(j)
    BY <1>4, <2>2
  <2>3. ASSUME NEW w, Practising(plan), w \in Said(1) PROVE \E j \in M : w \in Said(j)
    BY <1>4, <2>3
  <2> QED BY <2>1, <2>2, <2>3
<1>11. {Said(n + i) : i \in D} = {Regular(i) : i \in D}
  BY <1>5
<1>12. WindowsV2(m) = WindowsV1(plan)
  BY <1>6, <1>8, <1>9, <1>10, <1>11
<1> QED BY <1>1, <1>7, <1>12 DEF m, M

\* Every window of a day ends after it starts.
Timed2(spans) == \A x \in spans : x[2] # 0 /\ x[3] # 0 /\ x[2] < x[3]
SoundDay(blocks) ==
  /\ Tiered(blocks)
  /\ \A b \in blocks : WindowOk(b) /\ \A c \in ToSet(b.breaks) : WindowOk(c)

LEMMA SoundFromSpans ==
  ASSUME NEW B, Tiered(B), Timed2(DaySpans(B))
  PROVE  SoundDay(B)
<1>1. ASSUME NEW b \in B PROVE WindowOk(b)
  <2> DEFINE x == <<b.type, b.start, b.end>>
  <2>1. x \in DaySpans(B)
    BY DEF DaySpans, Spans
  <2>2. x[2] # 0 /\ x[3] # 0 /\ x[2] < x[3]
    BY <2>1 DEF Timed2
  <2> QED BY <2>2 DEF WindowOk, HasWindow
<1>2. ASSUME NEW b \in B, NEW c \in ToSet(b.breaks) PROVE WindowOk(c)
  <2> DEFINE x == <<c.type, c.start, c.end>>
  <2>1. x \in Spans(ToSet(b.breaks))
    BY DEF Spans
  <2>2. x \in DaySpans(B)
    BY <2>1 DEF DaySpans
  <2>3. x[2] # 0 /\ x[3] # 0 /\ x[2] < x[3]
    BY <2>2 DEF Timed2
  <2> QED BY <2>3 DEF WindowOk, HasWindow
<1> QED BY <1>1, <1>2 DEF SoundDay

LEMMA MigratedIsSound ==
  ASSUME NEW plan \in PlansV1, WellTimed(plan)
  PROVE  LET m == MigrateV1ToV2(plan)
         IN  \A j \in DOMAIN m.days : SoundDay(ToSet(m.days[j]))
<1> DEFINE m == MigrateV1ToV2(plan)
           n == Shift(plan)
<1>1. /\ m \in PlansV2 /\ \A j \in DOMAIN m.days : Tiered(ToSet(m.days[j]))
      /\ Len(m.days) = n + Len(plan.days)
      /\ Practising(plan) => DaySpans(ToSet(m.days[1])) = PracticeSpans(plan)
      /\ \A i \in DOMAIN plan.days : m.days[n + i] = RegularDay(plan, i)
  BY MigrateIs, MigratedDays
<1> HIDE DEF m
<1>2. plan.days \in Seq(DaysV1) /\ m.days \in Seq(Seq(BlocksV2))
  BY <1>1 DEF PlansV1, PlansV2
<1>3. ASSUME NEW i \in DOMAIN plan.days PROVE Timed2(RegularSpans(plan, i))
  <2>1. WindowOk(plan.days[i]) /\ \A b \in ToSet(plan.days[i].breaks) : Forward(b)
    BY DEF WellTimed
  <2>2. \A p \in ToSet(plan.playoffs) : Forward(p)
    BY DEF WellTimed
  <2>3. ASSUME NEW b \in TimelyOf(ToSet(plan.days[i].breaks))
        PROVE  b.start # 0 /\ b.end # 0 /\ b.start < b.end
    BY <2>1 DEF TimelyOf, Forward, HasWindow
  <2>4. ASSUME NEW p \in PlayoffsAt(plan, i)
        PROVE  p.start # 0 /\ p.end # 0 /\ p.start < p.end
    BY <2>2 DEF PlayoffsAt, TimelyOf, Forward, HasWindow
  <2>5. Timed2({<<"qualification", plan.days[i].start, plan.days[i].end>>})
    BY <2>1 DEF Timed2, WindowOk, HasWindow
  <2>6. Timed2(NamedSpans(TimelyOf(ToSet(plan.days[i].breaks))))
    BY <2>3 DEF Timed2, NamedSpans
  <2>7. Timed2(SpansAs("playoff", PlayoffsAt(plan, i)))
    BY <2>4 DEF Timed2, SpansAs
  <2>8. ASSUME NEW A, NEW B, Timed2(A), Timed2(B) PROVE Timed2(A \cup B)
    BY <2>8 DEF Timed2
  <2> QED BY <2>5, <2>6, <2>7, <2>8 DEF RegularSpans
<1>4. Practising(plan) => Timed2(PracticeSpans(plan))
  <2> SUFFICES ASSUME Practising(plan) PROVE Timed2(PracticeSpans(plan))
    OBVIOUS
  <2>1. WindowOk(plan.practice) /\ \A b \in ToSet(plan.practice.breaks) : Forward(b)
    BY DEF WellTimed, Practising, WindowOk, Forward
  <2>2. ASSUME NEW b \in TimelyOf(ToSet(plan.practice.breaks))
        PROVE  b.start # 0 /\ b.end # 0 /\ b.start < b.end
    BY <2>1 DEF TimelyOf, Forward, HasWindow
  <2>3. Timed2({<<"practice", plan.practice.start, plan.practice.end>>})
    BY <2>1 DEF Timed2, WindowOk, HasWindow
  <2>4. Timed2(SpansAs("break", TimelyOf(ToSet(plan.practice.breaks))))
    BY <2>2 DEF Timed2, SpansAs
  <2> QED BY <2>3, <2>4 DEF PracticeSpans, Timed2
<1>5. ASSUME NEW j \in DOMAIN m.days PROVE Timed2(DaySpans(ToSet(m.days[j])))
  <2>1. CASE Practising(plan) /\ j = 1
    BY <1>1, <1>4, <2>1
  <2>2. CASE ~(Practising(plan) /\ j = 1)
    <3> DEFINE i == j - n
    <3>1. i \in DOMAIN plan.days /\ n + i = j
      <4>1. n = IF Practising(plan) THEN 1 ELSE 0
        BY DEF Shift
      <4>2. j \in 1 .. n + Len(plan.days) /\ Len(plan.days) \in Nat
              /\ DOMAIN plan.days = 1 .. Len(plan.days)
        BY <1>1, <1>2
      <4>3. (n = 0 \/ n = 1) /\ ~(n = 1 /\ j = 1)
        BY <2>2, <4>1
      <4> HIDE DEF n
      <4> QED BY <4>2, <4>3
    <3> HIDE DEF i
    <3>2. m.days[j] = RegularDay(plan, i)
      BY <1>1, <3>1
    <3> QED BY <1>3, <3>1, <3>2, RegularDayIs
  <2> QED BY <2>1, <2>2
<1> QED BY <1>1, <1>5, SoundFromSpans DEF m

\* The defaults validation fills in: they leave every window as it is.
LEMMA FilledIs ==
  ASSUME NEW b \in BlocksV2
  PROVE  /\ Filled(b) \in BlocksV2
         /\ Filled(b).type = b.type /\ Filled(b).start = b.start /\ Filled(b).end = b.end
         /\ Filled(b).breaks = b.breaks
         /\ b.ct # 0 => Filled(b).ct = b.ct
<1>1. "break" \in BlockKinds /\ "opening" \in BlockKinds
  BY DEF BlockKinds
<1>2. PlayoffCycle \in Nat /\ PracticeCycle \in Nat /\ DefaultCycle \in Nat
  BY CyclesAssumption
<1>3. Filled(b) \in {b, [b EXCEPT !.ct = PlayoffCycle], [b EXCEPT !.ct = PracticeCycle],
                     [b EXCEPT !.ct = DefaultCycle],
                     [b EXCEPT !.kind = "break"], [b EXCEPT !.kind = "opening"]}
  BY DEF Filled
<1>4. b.ct # 0 => Filled(b).ct = b.ct
  BY DEF Filled, BlocksV2
<1> QED BY <1>1, <1>2, <1>3, <1>4 DEF BlocksV2

FilledDay(day) == [k \in DOMAIN day |-> Filled(day[k])]

LEMMA FilledDayIs ==
  ASSUME NEW day \in Seq(BlocksV2)
  PROVE  /\ FilledDay(day) \in Seq(BlocksV2) /\ DOMAIN FilledDay(day) = DOMAIN day
         /\ DaySpans(ToSet(FilledDay(day))) = DaySpans(ToSet(day))
         /\ SoundDay(ToSet(day)) => SoundDay(ToSet(FilledDay(day)))
<1> DEFINE m == FilledDay(day)
<1>1. ASSUME NEW k \in DOMAIN day
      PROVE  /\ m[k] \in BlocksV2
             /\ m[k].type = day[k].type /\ m[k].start = day[k].start /\ m[k].end = day[k].end
             /\ m[k].breaks = day[k].breaks
  <2> DEFINE b == day[k]
  <2>1. b \in BlocksV2 /\ m[k] = Filled(b)
    BY DEF FilledDay
  <2> HIDE DEF b, m
  <2>2. /\ Filled(b) \in BlocksV2
        /\ Filled(b).type = b.type /\ Filled(b).start = b.start /\ Filled(b).end = b.end
        /\ Filled(b).breaks = b.breaks
    BY <2>1, FilledIs
  <2> QED BY <2>1, <2>2 DEF b
<1>2. m \in [DOMAIN day -> BlocksV2]
  BY <1>1 DEF FilledDay
<1>3. m \in Seq(BlocksV2) /\ DOMAIN m = DOMAIN day
  BY <1>2, FunctionIsSeq
<1> HIDE DEF m
<1>4. Spans(ToSet(m)) = Spans(ToSet(day))
  <2>1. Spans(ToSet(m)) = {<<m[k].type, m[k].start, m[k].end>> : k \in DOMAIN day}
    BY <1>3 DEF Spans, ToSet
  <2>2. Spans(ToSet(day)) = {<<day[k].type, day[k].start, day[k].end>> : k \in DOMAIN day}
    BY DEF Spans, ToSet
  <2> QED BY <1>1, <2>1, <2>2
<1>5. {Spans(ToSet(b.breaks)) : b \in ToSet(m)} = {Spans(ToSet(b.breaks)) : b \in ToSet(day)}
  <2> DEFINE After(k) == Spans(ToSet(m[k].breaks))
             Before(k) == Spans(ToSet(day[k].breaks))
  <2>1. {Spans(ToSet(b.breaks)) : b \in ToSet(m)} = {After(k) : k \in DOMAIN day}
    BY <1>3 DEF ToSet
  <2>2. {Spans(ToSet(b.breaks)) : b \in ToSet(day)} = {Before(k) : k \in DOMAIN day}
    BY DEF ToSet
  <2>3. \A k \in DOMAIN day : After(k) = Before(k)
    BY <1>1
  <2> HIDE DEF After, Before
  <2>4. {After(k) : k \in DOMAIN day} = {Before(k) : k \in DOMAIN day}
    BY <2>3
  <2> QED BY <2>1, <2>2, <2>4
<1>6. DaySpans(ToSet(m)) = DaySpans(ToSet(day))
  BY <1>4, <1>5 DEF DaySpans
<1>7. ASSUME SoundDay(ToSet(day)) PROVE SoundDay(ToSet(m))
  <2>1. ASSUME NEW b \in ToSet(m)
        PROVE  \E c \in ToSet(day) : b.type = c.type /\ b.start = c.start /\ b.end = c.end
                                       /\ b.breaks = c.breaks
    <3>1. PICK k \in DOMAIN day : b = m[k]
      BY <1>3 DEF ToSet
    <3>2. day[k] \in ToSet(day)
      BY DEF ToSet
    <3> QED BY <1>1, <3>1, <3>2
  <2> QED BY <1>7, <2>1 DEF SoundDay, Tiered, WindowOk, HasWindow
<1> QED BY <1>3, <1>6, <1>7 DEF m

Sound(plan) == \A i \in DOMAIN plan.days : SoundDay(ToSet(plan.days[i]))

LEMMA DumpedIs ==
  ASSUME NEW plan \in PlansV2
  PROVE  /\ Dumped(plan) \in PlansV2 /\ DOMAIN Dumped(plan).days = DOMAIN plan.days
         /\ \A i \in DOMAIN plan.days : Dumped(plan).days[i] = FilledDay(plan.days[i])
         /\ WindowsV2(Dumped(plan)) = WindowsV2(plan)
         /\ Sound(plan) => Sound(Dumped(plan))
<1> DEFINE m == Dumped(plan)
           days == [i \in DOMAIN plan.days |-> FilledDay(plan.days[i])]
<1>1. m = [plan EXCEPT !.days = days]
  BY DEF Dumped, Mapped, FilledDay
<1>2. plan.days \in Seq(Seq(BlocksV2))
  BY DEF PlansV2
<1>3. days \in [DOMAIN plan.days -> Seq(BlocksV2)]
  BY <1>2, FilledDayIs
<1>4. days \in Seq(Seq(BlocksV2)) /\ DOMAIN days = DOMAIN plan.days
  <2> HIDE DEF days
  <2> QED BY <1>2, <1>3, FunctionIsSeq
<1>5. \A i \in DOMAIN plan.days : days[i] = FilledDay(plan.days[i])
  OBVIOUS
<1> HIDE DEF days
<1>6. m \in PlansV2 /\ m.days = days
  BY <1>1, <1>4 DEF PlansV2
<1> HIDE DEF m
<1>7. WindowsV2(m) = WindowsV2(plan)
  <2> DEFINE After(i) == Dated(i, DaySpans(ToSet(m.days[i])))
             Before(i) == Dated(i, DaySpans(ToSet(plan.days[i])))
  <2>1. ASSUME NEW i \in DOMAIN plan.days PROVE After(i) = Before(i)
    <3>1. m.days[i] = FilledDay(plan.days[i]) /\ plan.days[i] \in Seq(BlocksV2)
      BY <1>2, <1>5, <1>6
    <3> QED BY <3>1, FilledDayIs
  <2>2. WindowsV2(m) = UNION {After(i) : i \in DOMAIN plan.days}
    BY <1>4, <1>6, WindowsV2Is
  <2>3. WindowsV2(plan) = UNION {Before(i) : i \in DOMAIN plan.days}
    BY WindowsV2Is
  <2> HIDE DEF After, Before
  <2>4. {After(i) : i \in DOMAIN plan.days} = {Before(i) : i \in DOMAIN plan.days}
    BY <2>1
  <2> QED BY <2>2, <2>3, <2>4
<1>8. Sound(plan) => Sound(m)
  <2>1. ASSUME NEW i \in DOMAIN plan.days, SoundDay(ToSet(plan.days[i]))
        PROVE  SoundDay(ToSet(m.days[i]))
    <3>1. m.days[i] = FilledDay(plan.days[i]) /\ plan.days[i] \in Seq(BlocksV2)
      BY <1>2, <1>5, <1>6
    <3> QED BY <2>1, <3>1, FilledDayIs
  <2> QED BY <1>4, <1>6, <2>1 DEF Sound
<1> QED BY <1>4, <1>5, <1>6, <1>7, <1>8 DEF m

LEMMA ValidatesIsSound ==
  ASSUME NEW plan \in PlansV2, Validates(plan)
  PROVE  Sound(plan)
<1>1. ASSUME NEW i \in DOMAIN plan.days PROVE SoundDay(ToSet(plan.days[i]))
  <2>1. plan.days \in Seq(Seq(BlocksV2))
    BY DEF PlansV2
  <2>2. plan.days[i] \in Seq(BlocksV2)
    BY <2>1
  <2>3. ASSUME NEW b \in ToSet(plan.days[i])
        PROVE  /\ WindowOk(b) /\ \A c \in ToSet(b.breaks) : WindowOk(c) /\ c.type \in Tier3
               /\ b.type \in Tier3 => b.breaks = <<>>
    <3>1. BlockOk(b)
      BY DEF Validates
    <3>2. b.breaks \in Seq(NestedV2)
      <4>1. b \in BlocksV2
        BY <2>2, InRange
      <4> QED BY <4>1 DEF BlocksV2
    <3>3. b.type \in Tier3 => b.type \notin Tier2
      BY DEF Tier2, Tier3
    <3>4. ASSUME b.breaks # <<>> PROVE ToSet(b.breaks) # {}
      <4>1. 1 \in DOMAIN b.breaks
        BY <3>2, <3>4
      <4> QED BY <4>1 DEF ToSet
    <3> QED BY <3>1, <3>3, <3>4 DEF BlockOk, TierRule
  <2> QED BY <2>3 DEF SoundDay, Tiered
<1> QED BY <1>1 DEF Sound

LEMMA NormalizedIs ==
  ASSUME NEW plan \in PlansV1 \cup PlansV2, Validates(MigrateV1ToV2(plan))
  PROVE  /\ NormalizeDc(plan) \in PlansV2 /\ Sound(NormalizeDc(plan))
         /\ Windows(NormalizeDc(plan)) = Windows(plan)
<1> DEFINE m == MigrateV1ToV2(plan)
<1>1. NormalizeDc(plan) = Dumped(m)
  BY DEF NormalizeDc
<1>2. m \in PlansV2 /\ WindowsV2(m) = Windows(plan)
  <2>1. CASE plan \in PlansV1
    <3>1. m \in PlansV2 /\ WindowsV2(m) = WindowsV1(plan)
      BY <2>1, MigrateIs
    <3>2. Windows(plan) = WindowsV1(plan)
      BY <2>1 DEF Windows, PlansV1
    <3> QED BY <3>1, <3>2
  <2>2. CASE plan \in PlansV2
    BY <2>2 DEF MigrateV1ToV2, Windows, PlansV2
  <2> QED BY <2>1, <2>2
<1>3. Sound(m)
  BY <1>2, ValidatesIsSound
<1> HIDE DEF m
<1>4. Dumped(m) \in PlansV2 /\ WindowsV2(Dumped(m)) = WindowsV2(m) /\ Sound(Dumped(m))
  BY <1>2, <1>3, DumpedIs
<1>5. Windows(Dumped(m)) = WindowsV2(Dumped(m))
  BY <1>4 DEF Windows, PlansV2
<1> QED BY <1>1, <1>2, <1>4, <1>5

-----------------------------------------------------------------------------
\* Plans from PDF day plans.
LEMMA SeqWithin ==
  ASSUME NEW T, NEW s \in Seq(T), NEW U, \A y \in ToSet(s) : y \in U
  PROVE  s \in Seq(U)
<1>1. \A k \in DOMAIN s : s[k] \in U
  BY DEF ToSet
<1> DEFINE m == [k \in DOMAIN s |-> s[k]]
<1>2. m \in [DOMAIN s -> U]
  BY <1>1
<1>3. m = s
  OBVIOUS
<1> HIDE DEF m
<1>4. m \in Seq(U)
  BY <1>2, FunctionIsSeq
<1> QED BY <1>3, <1>4

LEMMA NaturalMin ==
  ASSUME NEW S \in SUBSET Nat, S # {}
  PROVE  MinOf(S) \in S /\ \A y \in S : MinOf(S) <= y
BY LeastNumber DEF MinOf

FileBlocksOf(kinds) == {b \in FileBlocks : b.kind \in kinds}

LEMMA KindsIs ==
  ASSUME NEW x \in Seq(FileBlocks), NEW kinds
  PROVE  /\ Kinds(x, kinds) \in Seq(FileBlocksOf(kinds))
         /\ ToSet(Kinds(x, kinds)) = {b \in ToSet(x) : b.kind \in kinds}
<1> DEFINE I == {k \in DOMAIN x : x[k].kind \in kinds}
<1>1. Kinds(x, kinds) = Picked(x, I)
  BY DEF Kinds, Where
<1>2. Picked(x, I) \in Seq(FileBlocks) /\ ToSet(Picked(x, I)) = {x[i] : i \in I}
  <2>1. I \in SUBSET DOMAIN x
    OBVIOUS
  <2> HIDE DEF I
  <2> QED BY <2>1, PickedIs
<1>3. {x[i] : i \in I} = {b \in ToSet(x) : b.kind \in kinds}
  BY DEF ToSet
<1>4. ToSet(x) \subseteq FileBlocks
  BY InRange
<1> DEFINE p == Picked(x, I)
<1> DEFINE U == FileBlocksOf(kinds)
<1>5. \A y \in ToSet(p) : y \in U
  BY <1>2, <1>3, <1>4 DEF FileBlocksOf
<1>6. p \in Seq(FileBlocks)
  BY <1>2
<1> HIDE DEF p, U
<1>7. p \in Seq(U)
  BY <1>5, <1>6, SeqWithin
<1> QED BY <1>1, <1>2, <1>3, <1>7 DEF p, U

LEMMA OnDayIs ==
  ASSUME NEW T, NEW x \in Seq(T), NEW d
  PROVE  OnDay(x, d) \in Seq(T) /\ ToSet(OnDay(x, d)) = {b \in ToSet(x) : b.day = d}
<1> DEFINE I == {k \in DOMAIN x : x[k].day = d}
<1>1. OnDay(x, d) = Picked(x, I)
  BY DEF OnDay, Where
<1>2. Picked(x, I) \in Seq(T) /\ ToSet(Picked(x, I)) = {x[i] : i \in I}
  <2>1. I \in SUBSET DOMAIN x
    OBVIOUS
  <2> HIDE DEF I
  <2> QED BY <2>1, PickedIs
<1>3. {x[i] : i \in I} = {b \in ToSet(x) : b.day = d}
  BY DEF ToSet
<1> QED BY <1>1, <1>2, <1>3

LEMMA FileBlocksTimes ==
  ASSUME NEW kinds
  PROVE  \A b \in FileBlocksOf(kinds) :
           /\ b.start \in Nat /\ b.end \in Nat /\ b.day \in Nat
           /\ b.name \in Names /\ b.kind \in kinds /\ b.start \in Int
BY DEF FileBlocksOf, FileBlocks

LEMMA TimedQualsIs ==
  ASSUME NEW x \in Seq(FileBlocks), NEW d
  PROVE  /\ TimedQuals(x, d) \in Seq(FileBlocksOf({"qual"}))
         /\ ToSet(TimedQuals(x, d)) =
              {b \in ToSet(x) : b.kind \in {"qual"} /\ b.day = d /\ HasWindow(b)}
<1> DEFINE T == FileBlocksOf({"qual"})
           s == Kinds(x, {"qual"})
           t == OnDay(s, d)
           u == Timely(t)
<1>1. s \in Seq(T) /\ ToSet(s) = {b \in ToSet(x) : b.kind \in {"qual"}}
  BY KindsIs
<1>2. \A b \in T : b.start \in Int
  BY FileBlocksTimes
<1> HIDE DEF s, T
<1>3. t \in Seq(T) /\ ToSet(t) = {b \in ToSet(s) : b.day = d}
  BY <1>1, OnDayIs
<1> HIDE DEF t
<1>4. u \in Seq(T) /\ ToSet(u) = {b \in ToSet(t) : HasWindow(b)}
  BY <1>3, TimelyIs
<1> HIDE DEF u
<1>5. ByStart(u) \in Seq(T) /\ ToSet(ByStart(u)) = ToSet(u)
  BY <1>2, <1>4, ByStartIs
<1>6. TimedQuals(x, d) = ByStart(u)
  BY DEF TimedQuals, u, t, s
<1> QED BY <1>1, <1>3, <1>4, <1>5, <1>6 DEF T

LEMMA CappedIs ==
  ASSUME NEW x \in Seq(FileBlocks), NEW d, NEW end \in Nat
  PROVE  /\ Capped(x, d, end) \in Nat
         /\ \A b \in ToSet(x) : b.kind = "playoff" /\ b.day = d /\ b.start # 0
              => Capped(x, d, end) <= b.start
<1> DEFINE p == Kinds(x, {"playoff"})
           t == OnDay(p, d)
           starts == {b.start : b \in ToSet(t)} \ {0}
<1>1. p \in Seq(FileBlocksOf({"playoff"})) /\ ToSet(p) = {b \in ToSet(x) : b.kind \in {"playoff"}}
  BY KindsIs
<1> HIDE DEF p
<1>2. t \in Seq(FileBlocksOf({"playoff"})) /\ ToSet(t) = {b \in ToSet(p) : b.day = d}
  BY <1>1, OnDayIs
<1>3. Capped(x, d, end) = IF starts # {} /\ end > MinOf(starts) THEN MinOf(starts) ELSE end
  BY DEF Capped, p
<1> HIDE DEF t
<1>4. starts \in SUBSET Nat
  BY <1>2, InRange, FileBlocksTimes
<1>5. ASSUME NEW b \in ToSet(x), b.kind = "playoff", b.day = d, b.start # 0
      PROVE  b.start \in starts
  <2>1. b \in ToSet(t)
    BY <1>1, <1>2, <1>5
  <2> QED BY <1>5, <2>1
<1> HIDE DEF starts
<1>6. starts # {} => MinOf(starts) \in starts /\ \A y \in starts : MinOf(starts) <= y
  BY <1>4, NaturalMin
<1>7. Capped(x, d, end) \in Nat
  BY <1>3, <1>4, <1>6
<1>8. ASSUME NEW y \in starts PROVE Capped(x, d, end) <= y
  <2>1. starts # {} /\ MinOf(starts) <= y /\ y \in Nat /\ MinOf(starts) \in Nat
    BY <1>4, <1>6, <1>8
  <2> QED BY <1>3, <2>1
<1> QED BY <1>5, <1>7, <1>8

LEMMA LegacyDayIs ==
  ASSUME NEW x \in Seq(FileBlocks), NEW d, TimedQuals(x, d) # <<>>
  PROVE  /\ LegacyDay(x, d) \in DaysV1
         /\ \A b \in ToSet(x) : b.kind = "playoff" /\ b.day = d /\ b.start # 0
              => LegacyDay(x, d).end <= b.start
<1> DEFINE q == TimedQuals(x, d)
           start == Head(q).start
           end == Last(q).end
           K == {"lunch", "break"}
           s == Kinds(x, K)
           t == OnDay(s, d)
           u == ByStart(t)
           I == {k \in DOMAIN u : HasWindow(u[k]) /\ u[k].start >= start /\ u[k].end <= end}
           p == Picked(u, I)
           m == [k \in DOMAIN p |-> [start |-> p[k].start, end |-> p[k].end, name |->
                                      IF p[k].name = "" THEN p[k].kind ELSE p[k].name]]
           capped == Capped(x, d, end)
<1>1. LegacyDay(x, d) = [start |-> start, end |-> capped, ct |-> 0, changes |-> <<>>,
                         earlyEnd |-> 0, breaks |-> m]
  BY DEF LegacyDay, Mapped, Where
<1>2. start \in Nat /\ end \in Nat
  <2>1. q \in Seq(FileBlocksOf({"qual"}))
    BY TimedQualsIs
  <2>2. q # <<>>
    OBVIOUS
  <2> HIDE DEF q
  <2>3. Len(q) \in 1 .. Len(q) /\ 1 \in 1 .. Len(q)
    BY <2>1, <2>2
  <2>4. q[1] \in FileBlocksOf({"qual"}) /\ q[Len(q)] \in FileBlocksOf({"qual"})
    BY <2>1, <2>3
  <2>5. Head(q) = q[1] /\ Last(q) = q[Len(q)]
    BY <2>1, <2>2 DEF Last
  <2> QED BY <2>4, <2>5, FileBlocksTimes
<1> HIDE DEF q, start, end
<1>3. capped \in Nat /\ \A b \in ToSet(x) : b.kind = "playoff" /\ b.day = d /\ b.start # 0
              => capped <= b.start
  BY <1>2, CappedIs
<1>4. s \in Seq(FileBlocksOf(K))
  BY KindsIs
<1> HIDE DEF s
<1>5. t \in Seq(FileBlocksOf(K))
  BY <1>4, OnDayIs
<1> HIDE DEF t
<1>6. u \in Seq(FileBlocksOf(K))
  <2> DEFINE T == FileBlocksOf(K)
  <2>1. t \in Seq(T) /\ \A b \in T : b.start \in Int
    BY <1>5, FileBlocksTimes
  <2> HIDE DEF T
  <2> QED BY <2>1, ByStartIs DEF T
<1> HIDE DEF u
<1>7. p \in Seq(FileBlocksOf(K))
  <2>1. I \in SUBSET DOMAIN u
    OBVIOUS
  <2> HIDE DEF I, K
  <2> QED BY <1>6, <2>1, PickedIs
<1> HIDE DEF p
<1>8. ASSUME NEW k \in DOMAIN p PROVE m[k] \in BreaksV1
  <2>1. p[k] \in FileBlocksOf(K)
    BY <1>7
  <2>2. p[k].start \in Nat /\ p[k].end \in Nat /\ p[k].name \in Names /\ p[k].kind \in K
    BY <2>1, FileBlocksTimes
  <2>3. K \subseteq Names
    BY DEF Names
  <2> HIDE DEF K
  <2> QED BY <2>2, <2>3 DEF BreaksV1
<1>9. m \in [DOMAIN p -> BreaksV1]
  BY <1>8
<1> HIDE DEF m
<1>10. m \in Seq(BreaksV1)
  BY <1>7, <1>9, FunctionIsSeq
<1> HIDE DEF capped
<1>11. <<>> \in Seq(ChangesV1)
  OBVIOUS
<1>12. LegacyDay(x, d) \in DaysV1 /\ LegacyDay(x, d).end = capped
  BY <1>1, <1>2, <1>3, <1>10, <1>11 DEF DaysV1
<1> QED BY <1>3, <1>12

LEMMA QualDaysIs ==
  ASSUME NEW x \in Seq(FileBlocks)
  PROVE  QualDays(x) \in Seq(ToSet(QualDays(x)))
<1> DEFINE q == Kinds(x, {"qual"})
           S == {b.day : b \in ToSet(q)}
           n == Cardinality(S)
           m == QualDays(x)
<1>1. q \in Seq(FileBlocksOf({"qual"}))
  BY KindsIs
<1>2. m = [k \in 1 .. n |-> CHOOSE d \in S : Cardinality({e \in S : e <= d}) = k]
  BY DEF QualDays, Ascending
<1> HIDE DEF q, m
<1>3. n \in Nat
  <2>1. IsFiniteSet(DOMAIN q)
    <3>1. DOMAIN q = 1 .. Len(q) /\ Len(q) \in Nat /\ 1 \in Int /\ Len(q) \in Int
      BY <1>1
    <3>2. IsFiniteSet(1 .. Len(q))
      BY <3>1, FS_Interval
    <3> QED BY <3>1, <3>2
  <2> DEFINE D == DOMAIN q
             f == [k \in D |-> q[k].day]
  <2>2. S = {f[k] : k \in D}
    BY DEF ToSet
  <2>3. f \in Surjection(D, S)
    BY <2>2 DEF Surjection
  <2> HIDE DEF D, f, S
  <2>4. IsFiniteSet(S)
    BY <2>1, <2>3, FS_Surjection DEF D
  <2> QED BY <2>4, FS_CardinalityType
<1> DEFINE T == ToSet(m)
<1>4. m \in [1 .. n -> T]
  BY <1>2 DEF ToSet
<1> HIDE DEF n, T
<1>5. m \in Seq(T)
  BY <1>3, <1>4
<1> QED BY <1>5 DEF T, m

LEMMA PlannedDaysIs ==
  ASSUME NEW x \in Seq(FileBlocks)
  PROVE  /\ PlannedDays(x) \in Seq(ToSet(QualDays(x)))
         /\ \A d \in ToSet(PlannedDays(x)) : TimedQuals(x, d) # <<>>
<1> DEFINE q == QualDays(x)
           D == ToSet(q)
           I == {k \in DOMAIN q : TimedQuals(x, q[k]) # <<>>}
<1>1. PlannedDays(x) = Picked(q, I)
  BY DEF PlannedDays, Where
<1>2. q \in Seq(D) /\ I \in SUBSET DOMAIN q
  BY QualDaysIs
<1>3. \A k \in I : TimedQuals(x, q[k]) # <<>>
  OBVIOUS
<1> HIDE DEF q, D, I
<1>4. Picked(q, I) \in Seq(D) /\ ToSet(Picked(q, I)) = {q[k] : k \in I}
  BY <1>2, PickedIs
<1> QED BY <1>1, <1>3, <1>4 DEF D, q

LegacyDays(x) == [k \in DOMAIN PlannedDays(x) |-> LegacyDay(x, PlannedDays(x)[k])]

LEMMA LegacyIs ==
  ASSUME NEW x \in Seq(FileBlocks)
  PROVE  /\ ToLegacyDayConfig(x) \in PlansV1
         /\ PlannedDays(x) # <<>> => ToLegacyDayConfig(x).days = LegacyDays(x)
         /\ DOMAIN LegacyDays(x) = DOMAIN PlannedDays(x)
         /\ ToLegacyDayConfig(x).days =
              IF PlannedDays(x) = <<>> THEN <<EmptyDay>> ELSE LegacyDays(x)
<1> DEFINE p == PlannedDays(x)
           days == LegacyDays(x)
           practice == LegacyPractice(x)
           legacy == ToLegacyDayConfig(x)
           D == ToSet(QualDays(x))
<1>1. p \in Seq(D) /\ \A d \in ToSet(p) : TimedQuals(x, d) # <<>>
  BY PlannedDaysIs
<1>2. legacy = [v |-> 1, ct |-> DefaultCycle, buffer |-> DefaultBuffer, practice |-> practice,
                playoffs |-> <<>>, days |-> IF days = <<>> THEN <<EmptyDay>> ELSE days]
  BY DEF ToLegacyDayConfig, Mapped, LegacyDays
<1> HIDE DEF p, D
<1>3. days = [k \in DOMAIN p |-> LegacyDay(x, p[k])]
  BY DEF p, LegacyDays
<1>4. days \in [DOMAIN p -> DaysV1]
  <2>1. ASSUME NEW k \in DOMAIN p PROVE LegacyDay(x, p[k]) \in DaysV1
    <3>1. TimedQuals(x, p[k]) # <<>>
      BY <1>1 DEF ToSet
    <3> QED BY <3>1, LegacyDayIs
  <2> QED BY <1>3, <2>1
<1> HIDE DEF days
<1>5. days \in Seq(DaysV1) /\ DOMAIN days = DOMAIN p /\ Len(days) = Len(p)
  BY <1>1, <1>4, FunctionIsSeq
<1>6. days = <<>> <=> p = <<>>
  BY <1>1, <1>5
<1>7. <<EmptyDay>> \in Seq(DaysV1)
  BY DEF EmptyDay, DaysV1
<1>8. practice \in PracticesV1 \cup {NoPractice}
  <2> DEFINE k == Kinds(x, {"practice"})
  <2>1. k \in Seq(FileBlocksOf({"practice"}))
    BY KindsIs
  <2>2. practice = IF k = <<>> THEN NoPractice
                   ELSE [start |-> Head(k).start, end |-> Head(k).end, ct |-> DefaultCycle + 2,
                         changes |-> <<>>, breaks |-> <<>>]
    BY DEF LegacyPractice
  <2> HIDE DEF k, practice
  <2>3. CASE k # <<>>
    <3>1. 1 \in DOMAIN k /\ Head(k) = k[1]
      BY <2>1, <2>3
    <3>2. Head(k) \in FileBlocksOf({"practice"})
      BY <2>1, <3>1
    <3>3. Head(k).start \in Nat /\ Head(k).end \in Nat
      BY <3>2, FileBlocksTimes
    <3>4. DefaultCycle + 2 \in Nat
      BY CyclesAssumption
    <3>5. <<>> \in Seq(ChangesV1) /\ <<>> \in Seq(BreaksV1)
      OBVIOUS
    <3> QED BY <2>2, <2>3, <3>3, <3>4, <3>5 DEF PracticesV1
  <2> QED BY <2>2, <2>3
<1> HIDE DEF practice
<1>9. <<>> \in Seq(PlayoffsV1) /\ DefaultCycle \in Nat /\ DefaultBuffer \in Nat
  BY CyclesAssumption
<1>10. legacy \in PlansV1 /\ legacy.days = IF days = <<>> THEN <<EmptyDay>> ELSE days
  BY <1>2, <1>5, <1>7, <1>8, <1>9 DEF PlansV1
<1> QED BY <1>5, <1>6, <1>10 DEF p, days

LEMMA OutputDayIs ==
  ASSUME NEW x \in Seq(FileBlocks), NEW d
  PROVE  /\ OutputDay(x, d) \in Nat
         /\ d \in ToSet(QualDays(x)) =>
              OutputDay(x, d) + 1 \in DOMAIN QualDays(x) /\ QualDays(x)[OutputDay(x, d) + 1] = d
<1> DEFINE q == QualDays(x)
           at == {k \in DOMAIN q : q[k] = d}
<1>1. q \in Seq(ToSet(q))
  BY QualDaysIs
<1>2. OutputDay(x, d) = IF at = {} THEN 0 ELSE MinOf(at) - 1
  BY DEF OutputDay
<1> HIDE DEF q
<1>3. at \in SUBSET Nat /\ \A k \in at : k >= 1
  BY <1>1
<1>4. at # {} => MinOf(at) \in at
  BY <1>3, NaturalMin
<1>5. d \in ToSet(q) => at # {}
  BY DEF ToSet
<1>6. CASE at = {}
  BY <1>2, <1>5, <1>6 DEF q
<1>7. CASE at # {}
  <2>1. MinOf(at) \in Nat /\ MinOf(at) >= 1 /\ MinOf(at) \in DOMAIN q /\ q[MinOf(at)] = d
    BY <1>3, <1>4, <1>7
  <2>2. (MinOf(at) - 1) + 1 = MinOf(at) /\ MinOf(at) - 1 \in Nat
    BY <2>1
  <2> QED BY <1>2, <1>7, <2>1, <2>2 DEF q
<1> QED BY <1>6, <1>7

LEMMA AddedBreaksType ==
  ASSUME NEW x \in Seq(FileBlocks), NEW i
  PROVE  AddedBreaks(x, i) \in Seq(BreaksV1)
<1> DEFINE q == Kinds(x, {"ceremony"})
           I == {k \in DOMAIN q : HasWindow(q[k]) /\ OutputDay(x, q[k].day) = i - 1}
           c == Picked(q, I)
           m == [k \in DOMAIN c |-> [start |-> c[k].start, end |-> c[k].end,
                                     name |-> IF c[k].name = "" THEN "ceremony" ELSE c[k].name]]
           T == FileBlocksOf({"ceremony"})
<1>1. AddedBreaks(x, i) = m
  BY DEF AddedBreaks, Mapped, Where
<1>2. q \in Seq(T)
  BY KindsIs
<1>3. I \in SUBSET DOMAIN q /\ \A b \in T : b.start \in Nat /\ b.end \in Nat /\ b.name \in Names
  BY FileBlocksTimes
<1> HIDE DEF q, I, T
<1>4. c \in Seq(T)
  BY <1>2, <1>3, PickedIs
<1> HIDE DEF c
<1>5. ASSUME NEW k \in DOMAIN c PROVE m[k] \in BreaksV1
  <2>1. c[k] \in T
    BY <1>4
  <2>2. "ceremony" \in Names
    BY DEF Names
  <2> QED BY <1>3, <2>1, <2>2 DEF BreaksV1
<1>6. m \in [DOMAIN c -> BreaksV1]
  BY <1>5
<1> HIDE DEF m
<1>7. m \in Seq(BreaksV1)
  BY <1>4, <1>6, FunctionIsSeq
<1> QED BY <1>1, <1>7

LEMMA FilePlayoffsIs ==
  ASSUME NEW x \in Seq(FileBlocks)
  PROVE  /\ FilePlayoffs(x) \in Seq(PlayoffsV1)
         /\ \A p \in ToSet(FilePlayoffs(x)) : \E b \in ToSet(x) :
              /\ b.kind = "playoff" /\ b.start # 0 /\ p.start = b.start
              /\ p.day = OutputDay(x, b.day)
<1> DEFINE q == Kinds(x, {"playoff"})
           t == Timely(q)
           m == FilePlayoffs(x)
           T == FileBlocksOf({"playoff"})
<1>1. m = [k \in DOMAIN t |-> [day |-> OutputDay(x, t[k].day), start |-> t[k].start,
                               end |-> t[k].end, ct |-> 0]]
  BY DEF FilePlayoffs, Mapped
<1>2. q \in Seq(T) /\ ToSet(q) = {b \in ToSet(x) : b.kind \in {"playoff"}}
  BY KindsIs
<1>3. \A b \in T : b.start \in Nat /\ b.end \in Nat
  BY FileBlocksTimes
<1> HIDE DEF q, T, m
<1>4. t \in Seq(T) /\ ToSet(t) = {b \in ToSet(q) : HasWindow(b)}
  BY <1>2, TimelyIs
<1> HIDE DEF t
<1>5. ASSUME NEW k \in DOMAIN t
      PROVE  m[k] \in PlayoffsV1 /\ m[k].start = t[k].start /\ m[k].day = OutputDay(x, t[k].day)
  <2>1. t[k] \in T
    BY <1>4
  <2>2. OutputDay(x, t[k].day) \in Nat
    BY OutputDayIs
  <2> QED BY <1>1, <1>3, <2>1, <2>2 DEF PlayoffsV1
<1>6. m \in [DOMAIN t -> PlayoffsV1]
  BY <1>1, <1>5
<1>7. m \in Seq(PlayoffsV1) /\ DOMAIN m = DOMAIN t
  BY <1>4, <1>6, FunctionIsSeq
<1>8. ASSUME NEW p \in ToSet(m)
      PROVE  \E b \in ToSet(x) : /\ b.kind = "playoff" /\ b.start # 0 /\ p.start = b.start
                                 /\ p.day = OutputDay(x, b.day)
  <2>1. PICK k \in DOMAIN t : p = m[k]
    BY <1>7, <1>8 DEF ToSet
  <2>2. t[k] \in ToSet(t)
    BY DEF ToSet
  <2>3. t[k] \in ToSet(x) /\ t[k].kind = "playoff" /\ HasWindow(t[k])
    BY <1>2, <1>4, <2>2
  <2> QED BY <1>5, <2>1, <2>3 DEF HasWindow
<1> QED BY <1>7, <1>8 DEF m

LEMMA TimelineIs ==
  ASSUME NEW x \in Seq(FileBlocks), NEW legacy \in PlansV1
  PROVE  LET p == WithTimeline(x, legacy)
         IN  /\ p \in PlansV1 /\ p.playoffs = FilePlayoffs(x)
             /\ DOMAIN p.days = DOMAIN legacy.days
             /\ \A i \in DOMAIN legacy.days :
                  p.days[i].start = legacy.days[i].start /\ p.days[i].end = legacy.days[i].end
<1> DEFINE p == WithTimeline(x, legacy)
           days == [i \in DOMAIN legacy.days |-> WithCeremonies(x, legacy.days[i], i)]
<1>1. p = [legacy EXCEPT !.days = days, !.playoffs = FilePlayoffs(x)]
  BY DEF WithTimeline
<1>2. legacy.days \in Seq(DaysV1)
  BY DEF PlansV1
<1>3. ASSUME NEW i \in DOMAIN legacy.days
      PROVE  /\ days[i] \in DaysV1
             /\ days[i].start = legacy.days[i].start /\ days[i].end = legacy.days[i].end
  <2> DEFINE d == legacy.days[i]
             s == d.breaks
             t == AddedBreaks(x, i)
             r == s \o t
  <2>1. d \in DaysV1 /\ days[i] = [d EXCEPT !.breaks = r]
    BY <1>2 DEF WithCeremonies
  <2> HIDE DEF d, days
  <2>2. s \in Seq(BreaksV1) /\ t \in Seq(BreaksV1)
    BY <2>1, AddedBreaksType DEF DaysV1
  <2> HIDE DEF s, t
  <2>3. r \in Seq(BreaksV1)
    BY <2>2
  <2> HIDE DEF r
  <2>4. days[i] \in DaysV1 /\ days[i].start = d.start /\ days[i].end = d.end
    BY <2>1, <2>3 DEF DaysV1
  <2> QED BY <2>4 DEF d
<1>4. days \in [DOMAIN legacy.days -> DaysV1]
  BY <1>3
<1> HIDE DEF days
<1>5. days \in Seq(DaysV1) /\ DOMAIN days = DOMAIN legacy.days
  BY <1>2, <1>4, FunctionIsSeq
<1>6. FilePlayoffs(x) \in Seq(PlayoffsV1)
  BY FilePlayoffsIs
<1>7. p \in PlansV1 /\ p.days = days /\ p.playoffs = FilePlayoffs(x)
  BY <1>1, <1>5, <1>6 DEF PlansV1
<1> QED BY <1>3, <1>5, <1>7

LEMMA DedupedType ==
  ASSUME NEW x \in Seq(FileBlocks)
  PROVE  Deduped(x) \in Seq(FileBlocks)
BY PickedIs DEF Deduped

LegacyOf(x) == WithTimeline(Deduped(x), ToLegacyDayConfig(Deduped(x)))

LEMMA FilePlanIs ==
  ASSUME NEW x \in Seq(FileBlocks)
  PROVE  /\ LegacyOf(x) \in PlansV1
         /\ ToV2DayConfig(x) = MigrateV1ToV2(LegacyOf(x)) /\ ToV2DayConfig(x) \in PlansV2
<1> DEFINE b == Deduped(x)
           l == ToLegacyDayConfig(b)
           p == WithTimeline(b, l)
<1>1. b \in Seq(FileBlocks)
  BY DedupedType
<1>2. ToV2DayConfig(x) = MigrateV1ToV2(p) /\ LegacyOf(x) = p
  BY DEF ToV2DayConfig, LegacyOf
<1> HIDE DEF b
<1>3. l \in PlansV1
  BY <1>1, LegacyIs
<1> HIDE DEF l
<1>4. p \in PlansV1
  BY <1>1, <1>3, TimelineIs
<1> HIDE DEF p
<1>5. MigrateV1ToV2(p) \in PlansV2
  BY <1>4, MigrateIs
<1> QED BY <1>2, <1>4, <1>5

-----------------------------------------------------------------------------
\* Plans derived from match times.
Positive == Nat \ {0}

LEMMA NaturalMax ==
  ASSUME NEW n \in Nat, NEW S \in SUBSET (0 .. n), S # {}
  PROVE  MaxOf(S) \in S /\ \A y \in S : MaxOf(S) >= y
<1> DEFINE R == {n - y : y \in S}
<1>1. R \in SUBSET Nat /\ R # {}
  <2>1. \A y \in S : n - y \in Nat
    <3>1. \A y \in S : y \in 0 .. n
      OBVIOUS
    <3> QED BY <3>1
  <2> QED BY <2>1
<1>2. PICK m \in R : \A z \in R : m <= z
  <2> HIDE DEF R
  <2> QED BY <1>1, LeastNumber
<1>3. PICK x \in S : m = n - x
  BY <1>2
<1>4. ASSUME NEW y \in S PROVE x >= y
  <2>1. n - y \in R
    OBVIOUS
  <2>2. m <= n - y
    BY <1>2, <2>1
  <2>3. x \in 0 .. n /\ y \in 0 .. n
    OBVIOUS
  <2> QED BY <1>3, <2>2, <2>3
<1> QED BY <1>3, <1>4 DEF MaxOf

LEMMA CountIs ==
  ASSUME NEW T, NEW s \in Seq(T), NEW x
  PROVE  Count(x, s) \in 0 .. Len(s)
<1> DEFINE n == Len(s)
           D == {k \in DOMAIN s : s[k] = x}
<1>1. n \in Nat /\ DOMAIN s = 1 .. n /\ 1 \in Int /\ n \in Int /\ D \subseteq 1 .. n
  OBVIOUS
<1>2. Count(x, s) = Cardinality(D)
  BY DEF Count
<1> HIDE DEF n, D
<1>3. IsFiniteSet(1 .. n) /\ Cardinality(1 .. n) = IF 1 > n THEN 0 ELSE n - 1 + 1
  BY <1>1, FS_Interval
<1>4. IsFiniteSet(D) /\ Cardinality(D) <= Cardinality(1 .. n)
  BY <1>1, <1>3, FS_Subset
<1>5. Cardinality(D) \in Nat
  BY <1>4, FS_CardinalityType
<1> QED BY <1>1, <1>2, <1>3, <1>4, <1>5 DEF n

LEMMA ModeIs ==
  ASSUME NEW T, NEW s \in Seq(T), NEW otherwise \in T
  PROVE  ModeOf(s, otherwise) \in T
<1> DEFINE C == {Count(x, s) : x \in ToSet(s)}
           most == MaxOf(C)
           K == {k \in DOMAIN s : Count(s[k], s) = most}
<1>1. CASE s = <<>>
  BY <1>1 DEF ModeOf
<1>2. CASE s # <<>>
  <2>1. ModeOf(s, otherwise) = s[MinOf(K)]
    BY <1>2 DEF ModeOf
  <2>2. C \in SUBSET (0 .. Len(s)) /\ Len(s) \in Nat
    BY CountIs
  <2>3. C # {}
    <3>1. 1 \in DOMAIN s
      BY <1>2
    <3>2. s[1] \in ToSet(s)
      BY <3>1 DEF ToSet
    <3> QED BY <3>2
  <2>4. most \in C
    <3> HIDE DEF C
    <3> QED BY <2>2, <2>3, NaturalMax
  <2>5. K # {}
    <3>1. PICK x \in ToSet(s) : most = Count(x, s)
      BY <2>4
    <3>2. PICK k \in DOMAIN s : x = s[k]
      BY DEF ToSet
    <3> HIDE DEF most
    <3> QED BY <3>1, <3>2
  <2>6. K \in SUBSET Nat /\ K \subseteq DOMAIN s
    OBVIOUS
  <2> HIDE DEF K
  <2>7. MinOf(K) \in K
    BY <2>5, <2>6, NaturalMin
  <2>8. MinOf(K) \in DOMAIN s
    BY <2>6, <2>7
  <2> QED BY <2>1, <2>8
<1> QED BY <1>1, <1>2

LEMMA TimedIs ==
  ASSUME NEW times \in Seq(Nat)
  PROVE  Timed(times) \in Seq(Positive)
<1> DEFINE I == {k \in DOMAIN times : times[k] # 0}
           t == Timed(times)
<1>1. t = Picked(times, I)
  BY DEF Timed, Where
<1>2. I \in SUBSET DOMAIN times
  OBVIOUS
<1>3. \A k \in I : times[k] \in Nat /\ times[k] # 0
  OBVIOUS
<1> HIDE DEF I, t
<1>4. t \in Seq(Nat) /\ ToSet(t) = {times[k] : k \in I}
  BY <1>1, <1>2, PickedIs
<1>5. \A y \in ToSet(t) : y \in Positive
  BY <1>3, <1>4 DEF Positive
<1> QED BY <1>4, <1>5, SeqWithin DEF t

\* Positions of a sequence that pass a test.
LEMMA PositionsIs ==
  ASSUME NEW T, NEW t \in Seq(T), NEW I \in SUBSET DOMAIN t
  PROVE  LET p == Picked([k \in DOMAIN t |-> k], I)
         IN  p \in Seq(DOMAIN t) /\ ToSet(p) = I
<1> DEFINE s == [k \in DOMAIN t |-> k]
           D == DOMAIN t
<1>1. s \in [D -> D] /\ \A k \in D : s[k] = k
  OBVIOUS
<1>2. t \in Seq(T) /\ I \in SUBSET D
  OBVIOUS
<1>3. s \in Seq(D) /\ DOMAIN s = D
  <2> HIDE DEF s
  <2>1. s \in [DOMAIN t -> D]
    BY <1>1
  <2> HIDE DEF D
  <2> QED BY <2>1, FunctionIsSeq DEF D
<1> HIDE DEF s, D
<1>4. Picked(s, I) \in Seq(D) /\ ToSet(Picked(s, I)) = {s[i] : i \in I}
  BY <1>2, <1>3, PickedIs
<1>5. {s[i] : i \in I} = I
  BY <1>1, <1>2
<1> QED BY <1>4, <1>5 DEF s, D

LEMMA DeltasIs ==
  ASSUME NEW times \in Seq(Nat)
  PROVE  Deltas(times) \in Seq(Positive)
<1> DEFINE t == Timed(times)
           I == {j \in DOMAIN [i \in DOMAIN t |-> i] :
                   LET k == [i \in DOMAIN t |-> i][j]
                   IN  k < Len(t) /\ t[k] < t[k + 1] /\ t[k + 1] - t[k] <= BreakGap}
           J == {k \in DOMAIN t : k < Len(t) /\ t[k] < t[k + 1] /\ t[k + 1] - t[k] <= BreakGap}
           p == Picked([k \in DOMAIN t |-> k], J)
           m == [k \in DOMAIN p |-> t[p[k] + 1] - t[p[k]]]
<1>1. t \in Seq(Positive)
  BY TimedIs
<1>2. Deltas(times) = [k \in DOMAIN Picked([i \in DOMAIN t |-> i], I) |->
                        t[Picked([i \in DOMAIN t |-> i], I)[k] + 1]
                          - t[Picked([i \in DOMAIN t |-> i], I)[k]]]
  BY DEF Deltas, Mapped, Where
<1> HIDE DEF t
<1>3. I = J
  OBVIOUS
<1>4. Deltas(times) = m
  BY <1>2, <1>3
<1>5. J \in SUBSET DOMAIN t
  OBVIOUS
<1>6. \A k \in J : /\ k \in DOMAIN t /\ k + 1 \in DOMAIN t /\ t[k] < t[k + 1]
                   /\ t[k] \in Nat /\ t[k + 1] \in Nat
  <2>1. ASSUME NEW k \in J
        PROVE  k \in DOMAIN t /\ k + 1 \in DOMAIN t /\ t[k] < t[k + 1]
    BY <1>1
  <2>2. \A k \in DOMAIN t : t[k] \in Nat
    BY <1>1 DEF Positive
  <2> HIDE DEF J
  <2> QED BY <2>1, <2>2
<1> HIDE DEF J
<1>7. p \in Seq(DOMAIN t) /\ ToSet(p) = J
  BY <1>1, <1>5, PositionsIs
<1> HIDE DEF p
<1>8. ASSUME NEW k \in DOMAIN p PROVE m[k] \in Positive
  <2>1. p[k] \in J
    BY <1>7 DEF ToSet
  <2> QED BY <1>6, <2>1 DEF Positive
<1>9. m \in [DOMAIN p -> Positive]
  BY <1>8
<1> HIDE DEF m
<1>10. m \in Seq(Positive)
  BY <1>7, <1>9, FunctionIsSeq
<1> QED BY <1>4, <1>10

DerivedGaps(t, cycle) ==
  {k \in DOMAIN t : k < Len(t) /\ t[k + 1] - t[k] > BreakGap /\ t[k] + cycle < t[k + 1]}

LEMMA ClockIs ==
  ASSUME NEW t \in Nat, t # 0
  PROVE  /\ Clock(t) \in Nat /\ Clock(t) # 0
         /\ t <= DayLength => Clock(t) = t
<1> DEFINE n == DayLength
<1>1. n \in Nat /\ n # 0
  BY HoursAssumption
<1>2. Clock(t) = 1 + ((t - 1) % n)
  BY DEF Clock
<1> HIDE DEF n
<1>3. (t - 1) % n \in Nat
  BY <1>1
<1>4. t - 1 \in Nat /\ (t <= n => (t - 1) % n = t - 1)
  BY <1>1
<1> QED BY <1>2, <1>3, <1>4 DEF n

LEMMA DerivedBreaksAre ==
  ASSUME NEW t \in Seq(Positive), NEW cycle \in Positive
  PROVE  /\ DerivedBreaks(t, cycle) \in Seq(NestedV2)
         /\ \A b \in ToSet(DerivedBreaks(t, cycle)) : \E k \in DerivedGaps(t, cycle) :
              b.type = "break" /\ b.start = Clock(t[k] + cycle) /\ b.end = Clock(t[k + 1])
<1> DEFINE I == {j \in DOMAIN [k \in DOMAIN t |-> k] :
                   LET k == [k \in DOMAIN t |-> k][j]
                   IN  k < Len(t) /\ t[k + 1] - t[k] > BreakGap /\ t[k] + cycle < t[k + 1]}
           J == DerivedGaps(t, cycle)
           s == [k \in DOMAIN t |-> k]
           p == Picked(s, J)
           Lunch(k) == t[k] + cycle <= NoonTo /\ t[k + 1] >= NoonFrom
           Named(k) == [start |-> Clock(t[k] + cycle), end |-> Clock(t[k + 1]),
                        name |-> IF Lunch(k) THEN "lunch" ELSE "break"]
           Kind(k) == IF Lunch(k) THEN "lunch" ELSE "break"
           m == [k \in DOMAIN p |-> Leaf("break", Named(p[k]), Kind(p[k]))]
<1>1. DerivedBreaks(t, cycle) =
        [k \in DOMAIN Picked(s, I) |->
          Leaf("break", Named(Picked(s, I)[k]), Kind(Picked(s, I)[k]))]
  BY DEF DerivedBreaks, Mapped, Where
<1>2. I = J
  BY DEF DerivedGaps
<1>3. DerivedBreaks(t, cycle) = m
  BY <1>1, <1>2
<1>4. J \in SUBSET DOMAIN t
  BY DEF DerivedGaps
<1>5. \A k \in J : k \in DOMAIN t /\ k + 1 \in DOMAIN t /\ t[k] \in Nat /\ t[k + 1] \in Nat
  <2>1. \A k \in J : k \in DOMAIN t /\ k + 1 \in DOMAIN t
    BY DEF DerivedGaps
  <2>2. \A k \in DOMAIN t : t[k] \in Nat
    BY DEF Positive
  <2> HIDE DEF J
  <2> QED BY <2>1, <2>2
<1>6. p \in Seq(DOMAIN t) /\ ToSet(p) = J
  <2> HIDE DEF J
  <2> QED BY <1>4, PositionsIs
<1> HIDE DEF p, J, I, s
<1>7. ASSUME NEW k \in J
      PROVE  LET b == Leaf("break", Named(k), Kind(k))
             IN  b \in NestedV2 /\ b.type = "break" /\ b.start = Clock(t[k] + cycle) /\ b.end = Clock(t[k + 1])
  <2> DEFINE w == Named(k)
             kind == Kind(k)
  <2>1. w.start = Clock(t[k] + cycle) /\ w.end = Clock(t[k + 1])
    OBVIOUS
  <2>2. w \in BreaksV1
    <3>1. Clock(t[k] + cycle) \in Nat /\ Clock(t[k + 1]) \in Nat
      <4>1. t[k] + cycle \in Nat /\ t[k] + cycle # 0 /\ t[k + 1] \in Nat /\ t[k + 1] # 0
        BY <1>5 DEF Positive
      <4> QED BY <4>1, ClockIs
    <3>2. "lunch" \in Names /\ "break" \in Names
      BY DEF Names
    <3> HIDE DEF Lunch
    <3> QED BY <3>1, <3>2 DEF BreaksV1
  <2>3. kind \in BlockKinds /\ "break" \in Tier3
    BY DEF BlockKinds, Tier3
  <2> HIDE DEF Kind, Named
  <2> HIDE DEF w, kind
  <2>4. /\ Leaf("break", w, kind) \in NestedV2 /\ Leaf("break", w, kind).type = "break"
        /\ Leaf("break", w, kind).start = w.start /\ Leaf("break", w, kind).end = w.end
    BY <2>2, <2>3, LeafType
  <2> QED BY <2>1, <2>4 DEF w, kind
<1> HIDE DEF Named, Kind
<1>8. ASSUME NEW k \in DOMAIN p
      PROVE  m[k] \in NestedV2 /\ m[k].type = "break" /\ \E j \in J :
               m[k].start = Clock(t[j] + cycle) /\ m[k].end = Clock(t[j + 1])
  <2>1. p[k] \in J
    BY <1>6 DEF ToSet
  <2> QED BY <1>7, <2>1
<1>9. m \in [DOMAIN p -> NestedV2]
  BY <1>8
<1> HIDE DEF m
<1>10. m \in Seq(NestedV2) /\ DOMAIN m = DOMAIN p
  BY <1>6, <1>9, FunctionIsSeq
<1>11. ASSUME NEW b \in ToSet(m)
       PROVE  \E j \in J : b.type = "break" /\ b.start = Clock(t[j] + cycle) /\ b.end = Clock(t[j + 1])
  <2>1. PICK k \in DOMAIN p : b = m[k]
    BY <1>10, <1>11 DEF ToSet
  <2> QED BY <1>8, <2>1
<1> QED BY <1>3, <1>10, <1>11 DEF J

LEMMA DerivedWindowIs ==
  ASSUME NEW t \in Seq(Positive), NEW cycle \in Positive
  PROVE  LET w == DerivedWindow(t, cycle)
         IN  /\ w.start \in Nat /\ w.end \in Nat
             /\ t # <<>> => w.start = Clock(t[1]) /\ w.end = Clock(t[Len(t)] + cycle)
<1> DEFINE w == DerivedWindow(t, cycle)
<1>1. CASE t = <<>>
  BY <1>1, HoursAssumption DEF DerivedWindow
<1>2. CASE t # <<>>
  <2>1. 1 \in DOMAIN t /\ Len(t) \in DOMAIN t /\ Head(t) = t[1] /\ Last(t) = t[Len(t)]
    BY <1>2 DEF Last
  <2>2. t[1] \in Nat /\ t[1] # 0 /\ t[Len(t)] + cycle \in Nat /\ t[Len(t)] + cycle # 0
    BY <2>1 DEF Positive
  <2>3. w.start = Clock(t[1]) /\ w.end = Clock(t[Len(t)] + cycle)
    BY <1>2, <2>1 DEF DerivedWindow
  <2> QED BY <2>2, <2>3, ClockIs
<1> QED BY <1>1, <1>2

DerivedCycle(times) == ModeOf(Deltas(times), DefaultCycle)
DerivedQual(times) ==
  MatchBlock("qualification", DerivedWindow(Timed(times), DerivedCycle(times)),
             DerivedCycle(times), <<>>, DerivedBreaks(Timed(times), DerivedCycle(times)))

LEMMA DerivedQualIs ==
  ASSUME NEW times \in Seq(Nat)
  PROVE  LET q == DerivedQual(times)
             t == Timed(times)
             cycle == DerivedCycle(times)
         IN  /\ cycle \in Positive /\ t \in Seq(Positive)
             /\ q \in BlocksV2 /\ q.type = "qualification" /\ q.ct = cycle
             /\ t # <<>> => q.start = Clock(t[1]) /\ q.end = Clock(t[Len(t)] + cycle)
             /\ q.breaks = DerivedBreaks(t, cycle)
<1> DEFINE q == DerivedQual(times)
           t == Timed(times)
           cycle == DerivedCycle(times)
           w == DerivedWindow(t, cycle)
           breaks == DerivedBreaks(t, cycle)
           none == <<>>
<1>1. t \in Seq(Positive)
  BY TimedIs
<1>2. cycle \in Positive
  <2> DEFINE T == Positive
             s == Deltas(times)
  <2>1. s \in Seq(T) /\ DefaultCycle \in T
    BY DeltasIs, CyclesAssumption DEF Positive
  <2> HIDE DEF s, T
  <2>2. ModeOf(s, DefaultCycle) \in T
    BY <2>1, ModeIs
  <2> QED BY <2>2 DEF s, T, DerivedCycle
<1>3. q = MatchBlock("qualification", w, cycle, none, breaks)
  BY DEF DerivedQual
<1> HIDE DEF t, cycle
<1>4. w.start \in Nat /\ w.end \in Nat /\ (t # <<>> => w.start = Clock(t[1]) /\ w.end = Clock(t[Len(t)] + cycle))
  BY <1>1, <1>2, DerivedWindowIs
<1>5. breaks \in Seq(NestedV2)
  BY <1>1, <1>2, DerivedBreaksAre
<1>6. cycle \in Nat /\ "qualification" \in Tier2 /\ none \in Seq(ChangesV2)
  BY <1>2 DEF Positive, Tier2
<1> HIDE DEF w, breaks, none, q
<1>7. /\ q \in BlocksV2 /\ q.type = "qualification" /\ q.start = w.start /\ q.end = w.end
      /\ q.ct = cycle /\ q.breaks = breaks
  BY <1>3, <1>4, <1>5, <1>6, MatchBlockType
<1> QED BY <1>1, <1>2, <1>4, <1>7 DEF q, t, cycle, breaks

LEMMA DerivedPracticeType ==
  ASSUME NEW practice \in Seq(Nat), NEW cycle \in Positive
  PROVE  DerivedPractice(practice, cycle) \in Seq(Seq(BlocksV2))
<1> DEFINE ct == ModeOf(Deltas(practice), cycle)
           t == Timed(practice)
           w == DerivedWindow(t, ct)
           none == <<>>
           q == MatchBlock("practice", w, ct, none, none)
<1>1. CASE practice = <<>>
  BY <1>1 DEF DerivedPractice
<1>2. CASE practice # <<>>
  <2>1. DerivedPractice(practice, cycle) = << <<q>> >>
    BY <1>2 DEF DerivedPractice
  <2>2. t \in Seq(Positive)
    BY TimedIs
  <2>3. ct \in Positive
    <3> DEFINE s == Deltas(practice)
               T == Positive
    <3>1. s \in Seq(T) /\ cycle \in T
      BY DeltasIs
    <3> HIDE DEF s, T
    <3>2. ModeOf(s, cycle) \in T
      BY <3>1, ModeIs
    <3> QED BY <3>2 DEF s, T
  <2> HIDE DEF t, ct
  <2>4. w.start \in Nat /\ w.end \in Nat /\ ct \in Nat
    BY <2>2, <2>3, DerivedWindowIs DEF Positive
  <2>5. "practice" \in Tier2 /\ none \in Seq(ChangesV2) /\ none \in Seq(NestedV2)
    BY DEF Tier2
  <2> DEFINE b == q
  <2>6. b = MatchBlock("practice", w, ct, none, none)
    OBVIOUS
  <2> HIDE DEF w, none, b, q
  <2>7. b \in BlocksV2
    BY <2>4, <2>5, <2>6, MatchBlockType
  <2>8. q \in BlocksV2
    BY <2>7 DEF b
  <2> QED BY <2>1, <2>8
<1> QED BY <1>1, <1>2

LEMMA DerivedPlanIs ==
  ASSUME NEW times \in Seq(Nat), NEW practice \in Seq(Nat)
  PROVE  LET plan == DeriveParameters(times, practice)
         IN  plan \in PlansV2 /\ Last(plan.days) = <<DerivedQual(times)>> /\ plan.days # <<>>
<1> DEFINE plan == DeriveParameters(times, practice)
           cycle == DerivedCycle(times)
           a == DerivedPractice(practice, cycle)
           q == DerivedQual(times)
           b == << <<q>> >>
           days == a \o b
<1>1. plan = [v |-> 2, ct |-> cycle, buffer |-> DefaultBuffer, days |-> days]
  BY DEF DeriveParameters, DerivedCycle, DerivedQual
<1>2. cycle \in Positive /\ q \in BlocksV2
  BY DerivedQualIs
<1> HIDE DEF cycle, q
<1>3. a \in Seq(Seq(BlocksV2))
  BY <1>2, DerivedPracticeType
<1>4. b \in Seq(Seq(BlocksV2)) /\ Len(b) = 1 /\ b[1] = <<q>>
  BY <1>2
<1> HIDE DEF a, b
<1>5. /\ days \in Seq(Seq(BlocksV2)) /\ Len(days) = Len(a) + 1
      /\ days[Len(a) + 1] = <<q>>
  <2> DEFINE T == Seq(BlocksV2)
  <2>1. a \in Seq(T) /\ b \in Seq(T)
    BY <1>3, <1>4
  <2> HIDE DEF T
  <2>2. /\ days \in Seq(T) /\ Len(days) = Len(a) + Len(b)
        /\ \A i \in 1 .. Len(b) : days[Len(a) + i] = b[i]
    BY <2>1
  <2> QED BY <1>4, <2>2 DEF T
<1>6. Last(days) = <<q>> /\ days # <<>>
  BY <1>3, <1>5 DEF Last
<1> HIDE DEF days
<1>7. cycle \in Nat /\ DefaultBuffer \in Nat
  BY <1>2, CyclesAssumption DEF Positive
<1> QED BY <1>1, <1>5, <1>6, <1>7 DEF PlansV2, q

-----------------------------------------------------------------------------
\* What every step keeps: the plans are well shaped, ...
GoodV2 == {plan \in PlansV2 : Sound(plan)}
Stored == OldPlans \cup GoodV2 \cup {NoPlan}
Shaped ==
  /\ rows \in [Rows -> Stored]
  /\ script \in [at : 0 .. Len(Tables), read : BOOLEAN, copy : Stored, late : BOOLEAN,
                 runs : 0 .. MaxRuns]
  /\ saves \in 0 .. MaxSaves

\* ... and each row says what it was given, and the script's copy of a row is the
\* row unless it was written since.
Origins == {From("client", plan) : plan \in OldPlans \cup Typed}
             \cup {From("pdf", x) : x \in DayPlanFiles}
             \cup {From("times", f) : f \in MatchFiles}
             \cup {From("script", plan) : plan \in OldPlans}
Said(r) ==
  /\ Windows(rows[r]) = Windows(Given(wanted[r]))
  /\ rows[r] \in OldPlans => wanted[r].from = "client"
  /\ wanted[r].from \in {"pdf", "times"} => rows[r] = NormalizeDc(Given(wanted[r]))
  /\ wanted[r].from = "script" => Traffic /\ r # "abstract"
CopyIsRow ==
  /\ script.read => script.at # 0
  /\ script.late => Traffic /\ script.read /\ Tables[script.at] # "abstract"
  /\ script.read /\ ~script.late => script.copy = rows[Tables[script.at]]
Kept ==
  /\ wanted \in [Rows -> Origins]
  /\ \A r \in Rows : rows[r] # NoPlan => Said(r)
  /\ CopyIsRow

LEMMA Disjoint ==
  ASSUME NEW plan \in Stored
  PROVE  /\ plan \in OldPlans => plan \in PlansV1 /\ WellTimed(plan) /\ plan.v = 1 /\ plan # NoPlan
         /\ plan \in GoodV2 => plan \in PlansV2 /\ Sound(plan) /\ plan.v = 2 /\ plan # NoPlan
         /\ plan # NoPlan => plan \in OldPlans \/ plan \in GoodV2
         /\ ToWrite(plan) <=> plan \in OldPlans
<1>1. plan \in OldPlans => plan \in PlansV1 /\ WellTimed(plan) /\ plan.v = 1 /\ plan # NoPlan
  BY PlansAssumption DEF PlansV1
<1>2. plan \in GoodV2 => plan \in PlansV2 /\ Sound(plan) /\ plan.v = 2 /\ plan # NoPlan
  BY PlansAssumption DEF GoodV2, PlansV2
<1>3. plan # NoPlan => plan \in OldPlans \/ plan \in GoodV2
  BY DEF Stored
<1> QED BY <1>1, <1>2, <1>3 DEF ToWrite

LEMMA TheRows ==
  /\ Len(Tables) = 3 /\ Rows = {"abstract", "assigned", "history"}
  /\ \A at \in 1 .. 3 : Tables[at] \in Rows
<1>1. Len(Tables) = 3 /\ DOMAIN Tables = 1 .. 3
  BY DEF Tables
<1>2. Tables[1] = "abstract" /\ Tables[2] = "assigned" /\ Tables[3] = "history"
  BY DEF Tables
<1>3. 1 .. 3 = {1, 2, 3}
  OBVIOUS
<1>4. Rows = {Tables[k] : k \in {1, 2, 3}}
  BY <1>1, <1>3 DEF Rows, ToSet
<1> QED BY <1>1, <1>2, <1>3, <1>4

\* What the write endpoints are given, and what they store.
Sent(plan, origin) == \/ plan \in Typed /\ origin = From("client", plan)
                      \/ \E x \in DayPlanFiles : plan = ToV2DayConfig(x) /\ origin = From("pdf", x)
                      \/ \E f \in MatchFiles : plan = DeriveParameters(f.times, f.practice)
                                                 /\ origin = From("times", f)

LEMMA FileTimes ==
  ASSUME NEW f \in MatchFiles
  PROVE  f.times \in Seq(Nat) /\ f.practice \in Seq(Nat)
<1> DEFINE T == 0 .. 2 * DayLength
<1>1. f.times \in Seq(T) /\ f.practice \in Seq(T)
  BY PlansAssumption
<1>2. T \subseteq Nat
  BY HoursAssumption
<1> DEFINE t == f.times
           p == f.practice
<1> HIDE DEF T, t, p
<1>3. (\A x \in ToSet(t) : x \in Nat) /\ (\A x \in ToSet(p) : x \in Nat)
  BY <1>1, <1>2, InRange DEF t, p
<1>4. t \in Seq(Nat) /\ p \in Seq(Nat)
  BY <1>1, <1>3, SeqWithin DEF t, p
<1> QED BY <1>4 DEF t, p

LEMMA SentIs ==
  ASSUME NEW plan, NEW origin, Sent(plan, origin), Validates(MigrateV1ToV2(plan))
  PROVE  /\ NormalizeDc(plan) \in GoodV2 /\ origin \in Origins
         /\ Given(origin) = plan /\ Windows(NormalizeDc(plan)) = Windows(plan)
<1>1. plan \in PlansV1 \cup PlansV2 /\ origin \in Origins /\ Given(origin) = plan
  <2>1. ASSUME plan \in Typed, origin = From("client", plan)
        PROVE  plan \in PlansV1 \cup PlansV2 /\ origin \in Origins /\ Given(origin) = plan
    BY <2>1, PlansAssumption DEF Origins, Given, From
  <2>2. ASSUME NEW x \in DayPlanFiles, plan = ToV2DayConfig(x), origin = From("pdf", x)
        PROVE  plan \in PlansV1 \cup PlansV2 /\ origin \in Origins /\ Given(origin) = plan
    <3>1. ToV2DayConfig(x) \in PlansV2
      BY FilePlanIs, PlansAssumption
    <3>2. Given(From("pdf", x)) = ToV2DayConfig(x)
      BY DEF Given, From
    <3> QED BY <2>2, <3>1, <3>2 DEF Origins
  <2>3. ASSUME NEW f \in MatchFiles, plan = DeriveParameters(f.times, f.practice),
               origin = From("times", f)
        PROVE  plan \in PlansV1 \cup PlansV2 /\ origin \in Origins /\ Given(origin) = plan
    <3>1. f.times \in Seq(Nat) /\ f.practice \in Seq(Nat)
      BY FileTimes
    <3> DEFINE t == f.times
               p == f.practice
    <3>2. t \in Seq(Nat) /\ p \in Seq(Nat)
      BY <3>1
    <3> HIDE DEF t, p
    <3>3. DeriveParameters(t, p) \in PlansV2
      BY <3>2, DerivedPlanIs
    <3>4. Given(From("times", f)) = DeriveParameters(t, p)
      BY DEF Given, From, t, p
    <3> QED BY <2>3, <3>3, <3>4 DEF Origins, t, p
  <2> QED BY <2>1, <2>2, <2>3 DEF Sent
<1>2. /\ NormalizeDc(plan) \in PlansV2 /\ Sound(NormalizeDc(plan))
      /\ Windows(NormalizeDc(plan)) = Windows(plan)
  BY <1>1, NormalizedIs
<1> QED BY <1>1, <1>2 DEF GoodV2

LEMMA ShapedInit == Init => Shaped
<1> SUFFICES ASSUME Init PROVE Shaped
  OBVIOUS
<1>1. PICK old \in OldPlans :
        /\ rows = [r \in Rows |-> IF r = "history" THEN NoPlan ELSE old]
        /\ script = [at |-> 0, read |-> FALSE, copy |-> NoPlan, late |-> FALSE, runs |-> 0]
        /\ saves = 0
  BY DEF Init
<1>2. NoPlan \in Stored /\ old \in Stored
  BY DEF Stored
<1>3. 0 \in 0 .. Len(Tables) /\ 0 \in 0 .. MaxRuns /\ 0 \in 0 .. MaxSaves
  BY TheRows, PlansAssumption
<1> QED BY <1>1, <1>2, <1>3 DEF Shaped

LEMMA ShapedStep == Shaped /\ [Next]_vars => Shaped'
<1> SUFFICES ASSUME Shaped, [Next]_vars PROVE Shaped'
  OBVIOUS
<1>0. /\ rows \in [Rows -> Stored] /\ saves \in 0 .. MaxSaves
      /\ script \in [at : 0 .. 3, read : BOOLEAN, copy : Stored, late : BOOLEAN, runs : 0 .. MaxRuns]
      /\ Rows = {"abstract", "assigned", "history"} /\ MaxSaves \in Nat /\ MaxRuns \in Nat
      /\ NoPlan \in Stored
  BY TheRows, PlansAssumption DEF Shaped, Stored
<1>w. ASSUME Written
      PROVE  script' \in [at : 0 .. 3, read : BOOLEAN, copy : Stored, late : BOOLEAN, runs : 0 .. MaxRuns]
  <2> DEFINE late == script.late \/ ReadByScript("assigned") \/ ReadByScript("history")
  <2>1. script' = [script EXCEPT !.late = late] /\ late \in BOOLEAN
    BY <1>w DEF Written
  <2> HIDE DEF late
  <2> QED BY <1>0, <2>1
<1>1. ASSUME NEW plan, NEW origin, Sent(plan, origin), Save(plan, origin) PROVE Shaped'
  <2>1. NormalizeDc(plan) \in Stored
    BY <1>1, SentIs DEF Save, Stored
  <2>2. rows' = [rows EXCEPT !["assigned"] = NormalizeDc(plan), !["history"] = rows["assigned"]]
        /\ saves' = saves + 1 /\ Written /\ saves < MaxSaves
    BY <1>1 DEF Save, Serving
  <2>3. rows' \in [Rows -> Stored]
    BY <1>0, <2>1, <2>2
  <2>4. saves' \in 0 .. MaxSaves
    BY <1>0, <2>2
  <2> QED BY <1>w, <2>2, <2>3, <2>4, TheRows DEF Shaped
<1>2. CASE SaveTyped
  BY <1>1, <1>2 DEF SaveTyped, Sent
<1>3. CASE SaveDayPlan
  BY <1>1, <1>3 DEF SaveDayPlan, Sent
<1>4. CASE SaveDerived
  BY <1>1, <1>4 DEF SaveDerived, Sent
<1>5. CASE Restore
  <2>1. rows' \in [Rows -> Stored]
    BY <1>0, <1>5 DEF Restore
  <2>2. saves' \in 0 .. MaxSaves /\ Written
    BY <1>0, <1>5 DEF Restore, Serving
  <2> QED BY <1>w, <2>1, <2>2, TheRows DEF Shaped
<1>6. CASE Delete
  <2>1. rows' \in [Rows -> Stored]
    BY <1>0, <1>6 DEF Delete
  <2>2. saves' \in 0 .. MaxSaves /\ Written
    BY <1>0, <1>6 DEF Delete, Serving
  <2> QED BY <1>w, <2>1, <2>2, TheRows DEF Shaped
<1>7. CASE StartScript
  <2>1. /\ script' = [script EXCEPT !.at = 1, !.runs = script.runs + 1]
        /\ script.runs < MaxRuns /\ rows' = rows /\ saves' = saves
    BY <1>7 DEF StartScript
  <2>2. script.runs + 1 \in 0 .. MaxRuns
    BY <1>0, <2>1
  <2>3. script' \in [at : 0 .. 3, read : BOOLEAN, copy : Stored, late : BOOLEAN, runs : 0 .. MaxRuns]
    <3>1. script' = [at |-> 1, read |-> script.read, copy |-> script.copy, late |-> script.late,
                     runs |-> script.runs + 1]
      BY <1>0, <2>1
    <3> QED BY <1>0, <2>2, <3>1
  <2> QED BY <1>0, <2>1, <2>3, TheRows DEF Shaped
<1>8. CASE ReadTable
  <2>1. /\ script' = [script EXCEPT !.read = TRUE, !.copy = rows[Tables[script.at]]]
        /\ script.at # 0 /\ rows' = rows /\ saves' = saves
    BY <1>8 DEF ReadTable
  <2>2. rows[Tables[script.at]] \in Stored
    <3>1. script.at \in 1 .. 3
      BY <1>0, <2>1
    <3> QED BY <1>0, <3>1, TheRows
  <2>3. script' \in [at : 0 .. 3, read : BOOLEAN, copy : Stored, late : BOOLEAN, runs : 0 .. MaxRuns]
    <3> DEFINE c == rows[Tables[script.at]]
    <3>1. script' = [script EXCEPT !.read = TRUE, !.copy = c] /\ c \in Stored
      BY <2>1, <2>2
    <3> HIDE DEF c
    <3>2. script' = [at |-> script.at, read |-> TRUE, copy |-> c, late |-> script.late,
                     runs |-> script.runs]
      BY <1>0, <3>1
    <3> QED BY <1>0, <3>1, <3>2
  <2> QED BY <1>0, <2>1, <2>3, TheRows DEF Shaped
<1>9. CASE CommitTable
  <2> DEFINE row == Tables[script.at]
             writes == ToWrite(script.copy) /\ (script.late => row # "history")
  <2>1. /\ script' = Unread(NextTable) /\ script.at # 0 /\ saves' = saves
        /\ rows' = IF writes
                   THEN [rows EXCEPT ![row] = MigrateV1ToV2(script.copy)] ELSE rows
    BY <1>9 DEF CommitTable
  <2>2. row \in Rows
    <3>1. script.at \in 1 .. 3
      BY <1>0, <2>1
    <3> QED BY <3>1, TheRows
  <2>3. ToWrite(script.copy) => MigrateV1ToV2(script.copy) \in Stored
    <3> SUFFICES ASSUME ToWrite(script.copy) PROVE MigrateV1ToV2(script.copy) \in Stored
      OBVIOUS
    <3> DEFINE c == script.copy
    <3>1. c \in Stored
      BY <1>0
    <3>2. ToWrite(c)
      OBVIOUS
    <3> HIDE DEF c
    <3>3. c \in PlansV1 /\ WellTimed(c)
      BY <3>1, <3>2, Disjoint
    <3>4. MigrateV1ToV2(c) \in PlansV2 /\ Sound(MigrateV1ToV2(c))
      BY <3>3, MigrateIs, MigratedIsSound DEF Sound
    <3> QED BY <3>4 DEF c, Stored, GoodV2
  <2>0. writes => ToWrite(script.copy)
    OBVIOUS
  <2> HIDE DEF row, writes
  <2>4. rows' \in [Rows -> Stored]
    BY <1>0, <2>0, <2>1, <2>2, <2>3
  <2>5. script' \in [at : 0 .. 3, read : BOOLEAN, copy : Stored, late : BOOLEAN, runs : 0 .. MaxRuns]
    <3>1. NextTable \in 0 .. 3
      BY <1>0, <2>1, TheRows DEF NextTable
    <3> QED BY <1>0, <2>1, <3>1 DEF Unread
  <2> QED BY <1>0, <2>1, <2>4, <2>5, TheRows DEF Shaped
<1>10. CASE ScriptDies
  <2>1. script' = Unread(0) /\ rows' = rows /\ saves' = saves
    BY <1>10 DEF ScriptDies
  <2>2. script' \in [at : 0 .. 3, read : BOOLEAN, copy : Stored, late : BOOLEAN, runs : 0 .. MaxRuns]
    <3>1. script' = [at |-> 0, read |-> FALSE, copy |-> NoPlan, late |-> FALSE, runs |-> script.runs]
      BY <1>0, <2>1 DEF Unread
    <3> QED BY <1>0, <3>1
  <2> QED BY <1>0, <2>1, <2>2, TheRows DEF Shaped
<1>11. CASE UNCHANGED vars
  BY <1>11 DEF Shaped, vars
<1> QED BY <1>2, <1>3, <1>4, <1>5, <1>6, <1>7, <1>8, <1>9, <1>10, <1>11 DEF Next

LEMMA ShapedIsTypeOK == Shaped => TypeOK
<1> SUFFICES ASSUME Shaped PROVE TypeOK
  OBVIOUS
<1>1. /\ script.at \in 0 .. Len(Tables) /\ script.read \in BOOLEAN /\ script.runs \in 0 .. MaxRuns
      /\ saves \in 0 .. MaxSaves
  BY DEF Shaped
<1>2. ASSUME NEW r \in Rows, rows[r] # NoPlan PROVE rows[r].v \in {1, 2}
  BY <1>2, Disjoint DEF Shaped
<1>3. ASSUME NEW r \in Rows, rows[r] # NoPlan, rows[r].v = 2,
             NEW i \in DOMAIN rows[r].days, NEW b \in ToSet(rows[r].days[i])
      PROVE  /\ 0 < b.start /\ b.start < b.end
             /\ \A c \in ToSet(b.breaks) : 0 < c.start /\ c.start < c.end /\ c.type \in Tier3
             /\ b.type \in Tier3 => b.breaks = <<>>
  <2>1. rows[r] \in PlansV2 /\ Sound(rows[r])
    <3>1. rows[r] \in Stored
      BY DEF Shaped
    <3> DEFINE plan == rows[r]
    <3>2. plan \in Stored /\ plan # NoPlan /\ plan.v = 2
      BY <1>3, <3>1
    <3> HIDE DEF plan
    <3>3. plan \in PlansV2 /\ Sound(plan)
      BY <3>2, Disjoint
    <3> QED BY <3>3 DEF plan
  <2>2. SoundDay(ToSet(rows[r].days[i]))
    BY <2>1 DEF Sound
  <2>3. rows[r].days \in Seq(Seq(BlocksV2))
    BY <2>1 DEF PlansV2
  <2>4. rows[r].days[i] \in Seq(BlocksV2)
    BY <2>3
  <2>5. b \in BlocksV2
    BY <2>4, InRange
  <2>6. b.breaks \in Seq(NestedV2) /\ b.start \in Nat
    BY <2>5 DEF BlocksV2
  <2>7. \A c \in ToSet(b.breaks) : c.start \in Nat
    <3>1. \A c \in ToSet(b.breaks) : c \in NestedV2
      BY <2>6, InRange
    <3> QED BY <3>1 DEF NestedV2
  <2>8. 0 < b.start /\ b.start < b.end
    BY <2>2, <2>6 DEF SoundDay, WindowOk, HasWindow
  <2>9. \A c \in ToSet(b.breaks) : 0 < c.start /\ c.start < c.end
    BY <2>2, <2>7 DEF SoundDay, WindowOk, HasWindow
  <2> QED BY <2>2, <2>8, <2>9 DEF SoundDay, Tiered
<1> QED BY <1>1, <1>2, <1>3 DEF TypeOK

\* Every row holds a plan of one of the two shapes, and a V2 plan in use is one
\* the schema accepts, whatever plans and files the endpoints are given and
\* however often they, the script and its crashes run: the endpoints validate,
\* and what the script makes of a well-timed old plan needs no validation.
THEOREM PlansAreWellShaped == Spec => []TypeOK
<1>1. Spec => []Shaped
  BY ShapedInit, ShapedStep, PTL DEF Spec
<1> QED BY <1>1, ShapedIsTypeOK, PTL

LEMMA KeptInit == Init => Kept
<1> SUFFICES ASSUME Init PROVE Kept
  OBVIOUS
<1>1. PICK old \in OldPlans :
        /\ rows = [r \in Rows |-> IF r = "history" THEN NoPlan ELSE old]
        /\ wanted = [r \in Rows |-> From("client", old)]
        /\ script = [at |-> 0, read |-> FALSE, copy |-> NoPlan, late |-> FALSE, runs |-> 0]
  BY DEF Init
<1>2. From("client", old) \in Origins
  BY DEF Origins
<1>3. /\ Given(From("client", old)) = old
      /\ From("client", old).from = "client"
  BY DEF Given, From
<1>4. ASSUME NEW r \in Rows, rows[r] # NoPlan PROVE Said(r)
  <2>1. rows[r] = old /\ wanted[r] = From("client", old)
    BY <1>1, <1>4
  <2> QED BY <1>3, <2>1 DEF Said
<1>5. CopyIsRow
  BY <1>1 DEF CopyIsRow
<1> QED BY <1>1, <1>2, <1>4, <1>5 DEF Kept

\* What a row says depends on the row and on what it was given only; what the
\* script gives is a matter of its own.
Says(plan, origin) ==
  /\ Windows(plan) = Windows(Given(origin))
  /\ plan \in OldPlans => origin.from = "client"
  /\ origin.from \in {"pdf", "times"} => plan = NormalizeDc(Given(origin))
ByScript(r, origin) == origin.from = "script" => Traffic /\ r # "abstract"

LEMMA KeptStep == Shaped /\ Kept /\ [Next]_vars => Kept'
<1> SUFFICES ASSUME Shaped, Kept, [Next]_vars PROVE Kept'
  OBVIOUS
<1>0. /\ rows \in [Rows -> Stored] /\ wanted \in [Rows -> Origins]
      /\ Rows = {"abstract", "assigned", "history"}
      /\ script \in [at : 0 .. 3, read : BOOLEAN, copy : Stored, late : BOOLEAN, runs : 0 .. MaxRuns]
      /\ \A r \in Rows : rows[r] # NoPlan => Says(rows[r], wanted[r]) /\ ByScript(r, wanted[r])
      /\ CopyIsRow
  BY TheRows DEF Shaped, Kept, Said, Says, ByScript
<1>a. ASSUME wanted' \in [Rows -> Origins], CopyIsRow',
             \A r \in Rows : rows'[r] # NoPlan => Says(rows'[r], wanted'[r]) /\ ByScript(r, wanted'[r])
      PROVE  Kept'
  BY <1>a DEF Kept, Said, Says, ByScript
<1>b. ASSUME Written, Serving, rows'["abstract"] = rows["abstract"] PROVE CopyIsRow'
  <2>1. /\ script'.at = script.at /\ script'.read = script.read /\ script'.copy = script.copy
        /\ script'.late = (script.late \/ ReadByScript("assigned") \/ ReadByScript("history"))
    BY <1>0, <1>b DEF Written
  <2>2. script.read => script.at # 0 /\ Traffic
    BY <1>0, <1>b DEF CopyIsRow, Serving
  <2>3. script.at # 0 => Tables[script.at] \in {"abstract", "assigned", "history"}
    <3>1. script.at # 0 => script.at \in 1 .. 3
      BY <1>0
    <3> QED BY <1>0, <3>1, TheRows
  <2>4. script'.late => Traffic /\ script.read /\ Tables[script.at] # "abstract"
    BY <1>0, <2>1, <2>2 DEF CopyIsRow, ReadByScript
  <2>5. script.read /\ ~script'.late => Tables[script.at] = "abstract" /\ ~script.late
    BY <2>1, <2>2, <2>3 DEF ReadByScript
  <2>6. script.read /\ ~script'.late => script.copy = rows'[Tables[script.at]]
    BY <1>0, <1>b, <2>5 DEF CopyIsRow
  <2> QED BY <2>1, <2>2, <2>4, <2>6 DEF CopyIsRow
<1>1. ASSUME NEW plan, NEW origin, Sent(plan, origin), Save(plan, origin) PROVE Kept'
  <2> DEFINE n == NormalizeDc(plan)
  <2>1. /\ n \in GoodV2 /\ origin \in Origins /\ Given(origin) = plan /\ Windows(n) = Windows(plan)
        /\ origin.from # "script"
    <3>1. origin.from \in {"client", "pdf", "times"}
      BY <1>1 DEF Sent, From
    <3> QED BY <1>1, <3>1, SentIs DEF Save
  <2>2. /\ rows' = [rows EXCEPT !["assigned"] = n, !["history"] = rows["assigned"]]
        /\ wanted' = [wanted EXCEPT !["assigned"] = origin, !["history"] = wanted["assigned"]]
        /\ Serving /\ Written /\ rows["assigned"] # NoPlan
    BY <1>1 DEF Save
  <2>3. Says(n, origin)
    <3>1. n = NormalizeDc(Given(origin))
      BY <2>1
    <3>2. n \notin OldPlans
      <4> HIDE DEF n
      <4>1. n \in Stored
        BY <2>1 DEF Stored
      <4> QED BY <2>1, <4>1, Disjoint
    <3> HIDE DEF n
    <3> QED BY <2>1, <3>1, <3>2 DEF Says
  <2> HIDE DEF n
  <2>4. wanted' \in [Rows -> Origins]
    BY <1>0, <2>1, <2>2
  <2>6. rows'["assigned"] = n /\ rows'["history"] = rows["assigned"] /\ rows'["abstract"] = rows["abstract"]
    BY <1>0, <2>2
  <2>5. ASSUME NEW r \in Rows, rows'[r] # NoPlan
        PROVE  Says(rows'[r], wanted'[r]) /\ ByScript(r, wanted'[r])
    <3>2. wanted'["assigned"] = origin /\ wanted'["history"] = wanted["assigned"]
            /\ wanted'["abstract"] = wanted["abstract"]
      BY <1>0, <2>2
    <3>3. CASE r = "assigned"
      BY <2>1, <2>3, <2>6, <3>2, <3>3 DEF ByScript
    <3>4. CASE r = "history"
      <4>1. Says(rows["assigned"], wanted["assigned"]) /\ ByScript("assigned", wanted["assigned"])
        BY <1>0, <2>2
      <4> QED BY <2>6, <3>2, <3>4, <4>1 DEF ByScript
    <3>5. CASE r = "abstract"
      BY <1>0, <2>5, <2>6, <3>2, <3>5
    <3> QED BY <1>0, <3>3, <3>4, <3>5
  <2>7. CopyIsRow'
    BY <1>b, <2>2, <2>6
  <2> QED BY <1>a, <2>4, <2>5, <2>7
<1>2. CASE SaveTyped
  BY <1>1, <1>2 DEF SaveTyped, Sent
<1>3. CASE SaveDayPlan
  BY <1>1, <1>3 DEF SaveDayPlan, Sent
<1>4. CASE SaveDerived
  BY <1>1, <1>4 DEF SaveDerived, Sent
<1>5. CASE Restore
  <2>2. /\ rows' = [rows EXCEPT !["assigned"] = rows["history"], !["history"] = rows["assigned"]]
        /\ wanted' = [wanted EXCEPT !["assigned"] = wanted["history"],
                                    !["history"] = wanted["assigned"]]
        /\ Serving /\ Written
    BY <1>5 DEF Restore
  <2>4. wanted' \in [Rows -> Origins]
    BY <1>0, <2>2
  <2>6. rows'["assigned"] = rows["history"] /\ rows'["history"] = rows["assigned"]
          /\ rows'["abstract"] = rows["abstract"]
    BY <1>0, <2>2
  <2>5. ASSUME NEW r \in Rows, rows'[r] # NoPlan
        PROVE  Says(rows'[r], wanted'[r]) /\ ByScript(r, wanted'[r])
    <3>2. wanted'["assigned"] = wanted["history"] /\ wanted'["history"] = wanted["assigned"]
            /\ wanted'["abstract"] = wanted["abstract"]
      BY <1>0, <2>2
    <3>3. CASE r = "assigned"
      BY <1>0, <2>5, <2>6, <3>2, <3>3 DEF ByScript
    <3>4. CASE r = "history"
      BY <1>0, <2>5, <2>6, <3>2, <3>4 DEF ByScript
    <3>5. CASE r = "abstract"
      BY <1>0, <2>5, <2>6, <3>2, <3>5
    <3> QED BY <1>0, <3>3, <3>4, <3>5
  <2>7. CopyIsRow'
    BY <1>b, <2>2, <2>6
  <2> QED BY <1>a, <2>4, <2>5, <2>7
<1>6. CASE Delete
  <2>2. /\ rows' = [rows EXCEPT !["assigned"] = NoPlan, !["history"] = NoPlan]
        /\ wanted' = wanted /\ Serving /\ Written
    BY <1>6 DEF Delete
  <2>5. ASSUME NEW r \in Rows, rows'[r] # NoPlan
        PROVE  Says(rows'[r], wanted'[r]) /\ ByScript(r, wanted'[r])
    <3>1. rows'[r] = rows[r]
      BY <1>0, <2>2, <2>5
    <3> QED BY <1>0, <2>2, <2>5, <3>1
  <2>6. rows'["abstract"] = rows["abstract"]
    BY <1>0, <2>2
  <2>7. CopyIsRow'
    BY <1>b, <2>2, <2>6
  <2> QED BY <1>0, <1>a, <2>2, <2>5, <2>7
<1>c. ASSUME rows' = rows, wanted' = wanted, CopyIsRow' PROVE Kept'
  BY <1>0, <1>a, <1>c
<1>7. CASE StartScript
  <2>1. /\ script' = [script EXCEPT !.at = 1, !.runs = script.runs + 1]
        /\ script.at = 0 /\ rows' = rows /\ wanted' = wanted
    BY <1>7 DEF StartScript
  <2>2. ~script'.read /\ ~script'.late
    BY <1>0, <2>1 DEF CopyIsRow
  <2> QED BY <1>c, <2>1, <2>2 DEF CopyIsRow
<1>8. CASE ReadTable
  <2>1. /\ script' = [script EXCEPT !.read = TRUE, !.copy = rows[Tables[script.at]]]
        /\ script.at # 0 /\ ~script.read /\ rows' = rows /\ wanted' = wanted
    BY <1>8 DEF ReadTable
  <2>2. script'.at = script.at /\ script'.copy = rows'[Tables[script'.at]] /\ ~script'.late
    BY <1>0, <2>1 DEF CopyIsRow
  <2> QED BY <1>c, <2>1, <2>2 DEF CopyIsRow
<1>9. CASE CommitTable
  <2> DEFINE row == Tables[script.at]
             c == script.copy
             n == MigrateV1ToV2(c)
             writes == ToWrite(c) /\ (script.late => row # "history")
  <2>1. /\ script' = Unread(NextTable) /\ script.at # 0 /\ script.read
        /\ ToWrite(c) => rows[row] # NoPlan
        /\ rows' = IF writes THEN [rows EXCEPT ![row] = n] ELSE rows
        /\ wanted' = IF writes /\ script.late
                     THEN [wanted EXCEPT ![row] = From("script", c)] ELSE wanted
    BY <1>9 DEF CommitTable
  <2>2. CopyIsRow'
    <3>1. ~script'.read /\ ~script'.late
      BY <1>0, <2>1 DEF Unread
    <3> QED BY <3>1 DEF CopyIsRow
  <2>3. row \in Rows /\ c \in Stored
    <3>1. script.at \in 1 .. 3
      BY <1>0, <2>1
    <3> QED BY <1>0, <3>1, TheRows
  <2>4. /\ script.late => Traffic /\ row # "abstract"
        /\ ~script.late => c = rows[row]
    BY <1>0, <2>1 DEF CopyIsRow
  <2>5. writes => ToWrite(c)
    OBVIOUS
  <2> HIDE DEF row, writes, c
  <2>6. ASSUME ToWrite(c)
        PROVE  c \in OldPlans /\ n \notin OldPlans /\ Windows(n) = Windows(c)
    <3>1. c \in OldPlans /\ c \in PlansV1 /\ c # NoPlan /\ WellTimed(c) /\ c.v = 1
      BY <2>3, <2>6, Disjoint
    <3>2. n \in PlansV2 /\ WindowsV2(n) = WindowsV1(c) /\ n.v = 2
      BY <3>1, MigrateIs DEF PlansV2
    <3>3. Windows(n) = Windows(c)
      BY <3>1, <3>2 DEF Windows
    <3>4. \A plan \in OldPlans : plan.v = 1
      BY PlansAssumption DEF PlansV1
    <3> QED BY <3>1, <3>2, <3>3, <3>4
  <2> HIDE DEF n
  <2>7. ASSUME writes PROVE Says(n, wanted'[row]) /\ ByScript(row, wanted'[row])
    <3>1. CASE script.late
      <4>1. wanted'[row] = From("script", c)
        BY <1>0, <2>1, <2>3, <2>7, <3>1
      <4>2. Given(From("script", c)) = c /\ From("script", c).from = "script"
        BY DEF Given, From
      <4>3. Windows(n) = Windows(c) /\ n \notin OldPlans
        BY <2>5, <2>6, <2>7
      <4> QED BY <2>4, <3>1, <4>1, <4>2, <4>3 DEF Says, ByScript
    <3>2. CASE ~script.late
      <4>1. wanted'[row] = wanted[row] /\ c = rows[row] /\ c \in OldPlans
        BY <2>1, <2>4, <2>5, <2>6, <2>7, <3>2
      <4>2. Says(c, wanted[row]) /\ ByScript(row, wanted[row])
        BY <1>0, <2>1, <2>3, <2>5, <2>7, <4>1
      <4>3. wanted[row].from = "client"
        BY <4>1, <4>2 DEF Says
      <4>4. Windows(n) = Windows(c) /\ n \notin OldPlans
        BY <2>5, <2>6, <2>7
      <4> QED BY <4>1, <4>2, <4>3, <4>4 DEF Says
    <3> QED BY <3>1, <3>2
  <2>8. ASSUME NEW r \in Rows, rows'[r] # NoPlan
        PROVE  Says(rows'[r], wanted'[r]) /\ ByScript(r, wanted'[r])
    <3>1. CASE writes /\ r = row
      <4>1. rows'[r] = n
        BY <1>0, <2>1, <2>3, <3>1
      <4> QED BY <2>7, <3>1, <4>1
    <3>2. CASE ~(writes /\ r = row)
      <4>1. rows'[r] = rows[r] /\ wanted'[r] = wanted[r]
        BY <1>0, <2>1, <3>2
      <4> QED BY <1>0, <2>8, <4>1
    <3> QED BY <3>1, <3>2
  <2>9. wanted' \in [Rows -> Origins]
    <3>1. writes => From("script", c) \in Origins
      BY <2>5, <2>6 DEF Origins
    <3> QED BY <1>0, <2>1, <2>3, <3>1
  <2> QED BY <1>a, <2>2, <2>8, <2>9
<1>10. CASE ScriptDies
  <2>1. script' = Unread(0) /\ rows' = rows /\ wanted' = wanted
    BY <1>10 DEF ScriptDies
  <2>2. ~script'.read /\ ~script'.late
    BY <1>0, <2>1 DEF Unread
  <2> QED BY <1>c, <2>1, <2>2 DEF CopyIsRow
<1>11. CASE UNCHANGED vars
  <2>1. rows' = rows /\ wanted' = wanted /\ script' = script
    BY <1>11 DEF vars
  <2>2. CopyIsRow'
    BY <1>0, <2>1 DEF CopyIsRow
  <2> QED BY <1>c, <2>1, <2>2
<1> QED BY <1>2, <1>3, <1>4, <1>5, <1>6, <1>7, <1>8, <1>9, <1>10, <1>11 DEF Next

LEMMA PlansInvariant == Spec => [](Shaped /\ Kept)
<1>1. Init => Shaped /\ Kept
  BY ShapedInit, KeptInit
<1>2. Shaped /\ Kept /\ [Next]_vars => (Shaped /\ Kept)'
  BY ShapedStep, KeptStep
<1> QED BY <1>1, <1>2, PTL DEF Spec

\* No window a user gave is lost, or moved to another day or another kind, for
\* any plans, files and times and any number of saves, restores, script runs and
\* crashes, in any order, with the server up or down: a row says what it was last
\* given. Only a write that reaches the assigned row between the script's read of
\* its table and the commit is lost, and the row then says what the script had
\* read; with the server down (Traffic = FALSE) no save is lost. The conversions are shown to keep
\* every window of every plan (MigrateIs, DumpedIs).
THEOREM NoWindowIsLost == Spec => []SavesAreKept
<1>1. Kept => SavesAreKept
  BY DEF Kept, Said, SavesAreKept
<1> QED BY <1>1, PlansInvariant, PTL

-----------------------------------------------------------------------------
\* In a plan from a PDF the qualifications stop before the playoffs.
LEMMA FirstOfEach ==
  ASSUME NEW x \in Seq(FileBlocks)
  PROVE  /\ ToSet(Deduped(x)) \subseteq ToSet(x)
         /\ \A b \in ToSet(x) : \E c \in ToSet(Deduped(x)) : SameBlock(c, b)
<1> DEFINE I == {k \in DOMAIN x : \A j \in 1 .. k - 1 : ~SameBlock(x[j], x[k])}
<1>1. ToSet(Deduped(x)) = {x[k] : k \in I}
  <2>1. I \in SUBSET DOMAIN x /\ Deduped(x) = Picked(x, I)
    BY DEF Deduped
  <2> HIDE DEF I
  <2> QED BY <2>1, PickedIs
<1>2. ASSUME NEW b \in ToSet(x) PROVE \E k \in I : SameBlock(x[k], b)
  <2> DEFINE S == {k \in DOMAIN x : SameBlock(x[k], b)}
  <2>1. S \in SUBSET Nat
    OBVIOUS
  <2>2. S # {}
    BY DEF ToSet, SameBlock
  <2>3. PICK k \in S : \A m \in S : k <= m
    <3> HIDE DEF S
    <3> QED BY <2>1, <2>2, LeastNumber
  <2>4. ASSUME NEW j \in 1 .. k - 1 PROVE ~SameBlock(x[j], x[k])
    <3>1. j \in DOMAIN x /\ ~(k <= j)
      BY <2>3
    <3>2. ~SameBlock(x[j], b)
      BY <2>3, <3>1
    <3>3. SameBlock(x[k], b)
      BY <2>3
    <3> QED BY <3>2, <3>3 DEF SameBlock
  <2> QED BY <2>3, <2>4
<1>3. ToSet(Deduped(x)) \subseteq ToSet(x)
  BY <1>1 DEF ToSet
<1> HIDE DEF I
<1> QED BY <1>1, <1>2, <1>3

LEMMA DedupedDays ==
  ASSUME NEW x \in Seq(FileBlocks)
  PROVE  /\ QualDays(Deduped(x)) = QualDays(x)
         /\ PlannedDays(Deduped(x)) = PlannedDays(x)
<1> DEFINE y == Deduped(x)
           K == {"qual"}
<1>1. y \in Seq(FileBlocks)
  BY DedupedType
<1>2. ToSet(y) \subseteq ToSet(x) /\ \A b \in ToSet(x) : \E c \in ToSet(y) : SameBlock(c, b)
  BY FirstOfEach
<1> HIDE DEF y
<1>3. {b.day : b \in ToSet(Kinds(y, K))} = {b.day : b \in ToSet(Kinds(x, K))}
  <2>1. /\ ToSet(Kinds(x, K)) = {b \in ToSet(x) : b.kind \in K}
        /\ ToSet(Kinds(y, K)) = {b \in ToSet(y) : b.kind \in K}
    BY <1>1, KindsIs
  <2>2. ASSUME NEW b \in ToSet(x), b.kind \in K
        PROVE  \E c \in ToSet(y) : c.kind \in K /\ c.day = b.day
    BY <1>2, <2>2 DEF SameBlock
  <2> HIDE DEF K
  <2> QED BY <1>2, <2>1, <2>2
<1>4. QualDays(y) = QualDays(x)
  BY <1>3 DEF QualDays
<1>5. ASSUME NEW d PROVE TimedQuals(y, d) # <<>> <=> TimedQuals(x, d) # <<>>
  <2> DEFINE s == TimedQuals(x, d)
             t == TimedQuals(y, d)
  <2>1. /\ s \in Seq(FileBlocksOf(K)) /\ ToSet(s) = {b \in ToSet(x) : b.kind \in K /\ b.day = d /\ HasWindow(b)}
        /\ t \in Seq(FileBlocksOf(K)) /\ ToSet(t) = {b \in ToSet(y) : b.kind \in K /\ b.day = d /\ HasWindow(b)}
    BY <1>1, TimedQualsIs
  <2> HIDE DEF s, t, K
  <2>2. (s # <<>> <=> ToSet(s) # {}) /\ (t # <<>> <=> ToSet(t) # {})
    <3>1. ASSUME NEW T, NEW u \in Seq(T) PROVE u # <<>> <=> ToSet(u) # {}
      <4>1. u # <<>> => 1 \in DOMAIN u
        OBVIOUS
      <4>2. u = <<>> => DOMAIN u = {}
        OBVIOUS
      <4> QED BY <4>1, <4>2 DEF ToSet
    <3> QED BY <2>1, <3>1
  <2>3. ToSet(s) # {} <=> ToSet(t) # {}
    <3>1. ASSUME NEW b \in ToSet(s) PROVE \E c \in ToSet(t) : TRUE
      <4>1. b \in ToSet(x) /\ b.kind \in K /\ b.day = d /\ HasWindow(b)
        BY <2>1
      <4>2. PICK c \in ToSet(y) : SameBlock(c, b)
        BY <1>2, <4>1
      <4> QED BY <2>1, <4>1, <4>2 DEF SameBlock, HasWindow
    <3>2. ASSUME NEW b \in ToSet(t) PROVE \E c \in ToSet(s) : TRUE
      BY <1>2, <2>1
    <3> QED BY <3>1, <3>2
  <2> QED BY <2>2, <2>3 DEF s, t
<1>6. PlannedDays(y) = PlannedDays(x)
  <2> DEFINE q == QualDays(x)
             I == {k \in DOMAIN q : TimedQuals(x, q[k]) # <<>>}
             J == {k \in DOMAIN q : TimedQuals(y, q[k]) # <<>>}
  <2>1. PlannedDays(x) = Picked(q, I) /\ PlannedDays(y) = Picked(q, J)
    BY <1>4 DEF PlannedDays, Where
  <2>2. I = J
    BY <1>5
  <2> QED BY <2>1, <2>2
<1> QED BY <1>4, <1>6 DEF y

\* The windows of one kind, read back from what a V1 plan says.
LEMMA DayNumber ==
  ASSUME NEW plan \in PlansV1, NEW j \in DOMAIN plan.days
  PROVE  j = (Shift(plan) + j) - Shift(plan)
<1>1. plan.days \in Seq(DaysV1)
  BY DEF PlansV1
<1>2. j \in Nat
  BY <1>1
<1> QED BY <1>2 DEF Shift

LEMMA QualsSaid ==
  ASSUME NEW plan \in PlansV1, NEW i, NEW s, NEW e,
         <<i, "qualification", s, e>> \in WindowsV1(plan)
  PROVE  \E j \in DOMAIN plan.days : j = i - Shift(plan) /\ e = plan.days[j].end
<1> DEFINE w == <<i, "qualification", s, e>>
<1>1. \A type \in Tier3 : type # "qualification"
  BY DEF Tier3
<1>2. \A x \in PracticeSpans(plan) : x[1] \in {"practice", "break"}
  BY DEF PracticeSpans, SpansAs
<1>3. w \notin Dated(1, PracticeSpans(plan))
  BY <1>2 DEF Dated
<1>4. PICK j \in DOMAIN plan.days : w \in Dated(Shift(plan) + j, RegularSpans(plan, j))
  <2> DEFINE P == IF Practising(plan) THEN Dated(1, PracticeSpans(plan)) ELSE {}
             R(j) == Dated(Shift(plan) + j, RegularSpans(plan, j))
  <2>1. WindowsV1(plan) = P \cup UNION {R(j) : j \in DOMAIN plan.days}
    BY WindowsV1Is
  <2>2. w \notin P
    BY <1>3
  <2> HIDE DEF P, R
  <2>3. \E j \in DOMAIN plan.days : w \in R(j)
    BY <2>1, <2>2
  <2> QED BY <2>3 DEF R
<1>5. PICK x \in RegularSpans(plan, j) : w = <<Shift(plan) + j, x[1], x[2], x[3]>>
  BY <1>4 DEF Dated
<1>6. x[1] = "qualification" /\ x[3] = e /\ i = Shift(plan) + j
  BY <1>5
<1>7. x \in {<<"qualification", plan.days[j].start, plan.days[j].end>>}
  <2>1. x \notin NamedSpans(TimelyOf(ToSet(plan.days[j].breaks)))
    BY <1>1, <1>6, SubtypeType DEF NamedSpans
  <2>2. x \notin SpansAs("playoff", PlayoffsAt(plan, j))
    BY <1>6 DEF SpansAs
  <2> QED BY <1>5, <2>1, <2>2 DEF RegularSpans
<1>8. j = i - Shift(plan)
  BY <1>6, DayNumber
<1> QED BY <1>6, <1>7, <1>8

LEMMA PlayoffsSaid ==
  ASSUME NEW plan \in PlansV1, NEW i, NEW s, NEW e,
         <<i, "playoff", s, e>> \in WindowsV1(plan)
  PROVE  \E j \in DOMAIN plan.days : \E p \in PlayoffsAt(plan, j) :
           j = i - Shift(plan) /\ s = p.start
<1> DEFINE w == <<i, "playoff", s, e>>
<1>1. \A type \in Tier3 : type # "playoff"
  BY DEF Tier3
<1>2. \A x \in PracticeSpans(plan) : x[1] \in {"practice", "break"}
  BY DEF PracticeSpans, SpansAs
<1>3. w \notin Dated(1, PracticeSpans(plan))
  BY <1>2 DEF Dated
<1>4. PICK j \in DOMAIN plan.days : w \in Dated(Shift(plan) + j, RegularSpans(plan, j))
  <2> DEFINE P == IF Practising(plan) THEN Dated(1, PracticeSpans(plan)) ELSE {}
             R(j) == Dated(Shift(plan) + j, RegularSpans(plan, j))
  <2>1. WindowsV1(plan) = P \cup UNION {R(j) : j \in DOMAIN plan.days}
    BY WindowsV1Is
  <2>2. w \notin P
    BY <1>3
  <2> HIDE DEF P, R
  <2>3. \E j \in DOMAIN plan.days : w \in R(j)
    BY <2>1, <2>2
  <2> QED BY <2>3 DEF R
<1>5. PICK x \in RegularSpans(plan, j) : w = <<Shift(plan) + j, x[1], x[2], x[3]>>
  BY <1>4 DEF Dated
<1>6. x[1] = "playoff" /\ x[2] = s /\ i = Shift(plan) + j
  BY <1>5
<1>7. x \in SpansAs("playoff", PlayoffsAt(plan, j))
  <2>1. x \notin NamedSpans(TimelyOf(ToSet(plan.days[j].breaks)))
    BY <1>1, <1>6, SubtypeType DEF NamedSpans
  <2>2. x \notin {<<"qualification", plan.days[j].start, plan.days[j].end>>}
    BY <1>6
  <2> QED BY <1>5, <2>1, <2>2 DEF RegularSpans
<1>8. PICK p \in PlayoffsAt(plan, j) : x = <<"playoff", p.start, p.end>>
  BY <1>7 DEF SpansAs
<1>9. j = i - Shift(plan)
  BY <1>6, DayNumber
<1> QED BY <1>6, <1>8, <1>9

LEMMA CappedDays ==
  ASSUME NEW x \in Seq(FileBlocks), OnQualDays(x), PlannedDays(x) = QualDays(x),
         NEW j \in DOMAIN LegacyOf(x).days, NEW p \in PlayoffsAt(LegacyOf(x), j)
  PROVE  LegacyOf(x).days[j].end <= p.start
<1> DEFINE y == Deduped(x)
           l == ToLegacyDayConfig(y)
           plan == LegacyOf(x)
<1>1. y \in Seq(FileBlocks) /\ ToSet(y) \subseteq ToSet(x)
  BY DedupedType, FirstOfEach
<1>2. PlannedDays(y) = QualDays(y) /\ PlannedDays(y) = PlannedDays(x)
  BY DedupedDays
<1>3. plan = WithTimeline(y, l)
  BY DEF LegacyOf
<1> HIDE DEF y
<1>4. /\ l \in PlansV1
      /\ PlannedDays(y) # <<>> => l.days = LegacyDays(y)
      /\ DOMAIN LegacyDays(y) = DOMAIN PlannedDays(y)
  BY <1>1, LegacyIs
<1> HIDE DEF l
<1>5. /\ plan.playoffs = FilePlayoffs(y) /\ DOMAIN plan.days = DOMAIN l.days
      /\ \A i \in DOMAIN l.days : plan.days[i].end = l.days[i].end
  BY <1>1, <1>3, <1>4, TimelineIs
<1>6. p \in ToSet(FilePlayoffs(y)) /\ p.day = j - 1
  BY <1>5 DEF PlayoffsAt, TimelyOf
<1>7. PICK b \in ToSet(y) : /\ b.kind = "playoff" /\ b.start # 0 /\ p.start = b.start
                            /\ p.day = OutputDay(y, b.day)
  BY <1>1, <1>6, FilePlayoffsIs
<1> HIDE DEF plan
<1>8. b.day \in ToSet(PlannedDays(y))
  <2>1. b \in ToSet(x)
    BY <1>1
  <2>2. \E d \in ToSet(PlannedDays(x)) : d = b.day
    BY <1>7, <2>1 DEF OnQualDays
  <2> QED BY <1>2, <2>2
<1>9. j \in DOMAIN PlannedDays(y) /\ PlannedDays(y)[j] = b.day
  <2>1. OutputDay(y, b.day) + 1 \in DOMAIN QualDays(y) /\ QualDays(y)[OutputDay(y, b.day) + 1] = b.day
          /\ OutputDay(y, b.day) \in Nat
    BY <1>1, <1>2, <1>8, OutputDayIs
  <2>2. OutputDay(y, b.day) + 1 = j
    <3>1. j \in Int
      <4>1. plan.days \in Seq(DaysV1)
        <5>1. plan \in PlansV1
          BY FilePlanIs DEF plan
        <5> QED BY <5>1 DEF PlansV1
      <4> QED BY <4>1 DEF plan
    <3> QED BY <1>6, <1>7, <2>1, <3>1
  <2> QED BY <1>2, <2>1, <2>2
<1>10. PlannedDays(y) # <<>>
  BY <1>9
<1>11. plan.days[j].end = LegacyDay(y, b.day).end
  <2>1. l.days = LegacyDays(y) /\ j \in DOMAIN LegacyDays(y)
    BY <1>4, <1>9, <1>10
  <2>2. LegacyDays(y)[j] = LegacyDay(y, b.day)
    BY <1>4, <1>9 DEF LegacyDays
  <2> QED BY <1>5, <2>1, <2>2
<1>12. TimedQuals(y, b.day) # <<>>
  BY <1>1, <1>8, PlannedDaysIs
<1>13. LegacyDay(y, b.day).end <= b.start
  BY <1>1, <1>7, <1>12, LegacyDayIs
<1> QED BY <1>7, <1>11, <1>13 DEF plan

LEMMA CapOfTheDay ==
  ASSUME NEW x \in Seq(FileBlocks), NEW j \in DOMAIN PlannedDays(x)
  PROVE  /\ Len(LegacyOf(x).days) = Len(PlannedDays(x))
         /\ \A p \in ToSet(x) : p.kind = "playoff" /\ p.day = PlannedDays(x)[j] /\ p.start # 0
              => LegacyOf(x).days[j].end <= p.start
<1> DEFINE y == Deduped(x)
           l == ToLegacyDayConfig(y)
           plan == LegacyOf(x)
           d == PlannedDays(x)[j]
<1>1. y \in Seq(FileBlocks) /\ \A p \in ToSet(x) : \E b \in ToSet(y) : SameBlock(b, p)
  BY DedupedType, FirstOfEach
<1>2. PlannedDays(y) = PlannedDays(x)
  BY DedupedDays
<1>3. plan = WithTimeline(y, l)
  BY DEF LegacyOf
<1> HIDE DEF y
<1>4. /\ l \in PlansV1 /\ l.days = LegacyDays(y)
      /\ DOMAIN LegacyDays(y) = DOMAIN PlannedDays(y) /\ LegacyDays(y)[j] = LegacyDay(y, d)
  <2>1. PlannedDays(y) # <<>>
    BY <1>2
  <2> QED BY <1>1, <1>2, <2>1, LegacyIs DEF LegacyDays
<1> HIDE DEF l
<1>5. /\ plan \in PlansV1 /\ DOMAIN plan.days = DOMAIN l.days
      /\ \A i \in DOMAIN l.days : plan.days[i].end = l.days[i].end
  BY <1>1, <1>3, <1>4, TimelineIs
<1> HIDE DEF plan
<1>6. PlannedDays(y) \in Seq(ToSet(QualDays(y))) /\ TimedQuals(y, d) # <<>>
  <2>1. PlannedDays(y) \in Seq(ToSet(QualDays(y)))
          /\ \A e \in ToSet(PlannedDays(y)) : TimedQuals(y, e) # <<>>
    BY <1>1, PlannedDaysIs
  <2>2. d \in ToSet(PlannedDays(y))
    BY <1>2 DEF ToSet
  <2> QED BY <2>1, <2>2
<1>7. Len(plan.days) = Len(PlannedDays(x))
  <2>1. plan.days \in Seq(DaysV1) /\ DOMAIN plan.days = DOMAIN PlannedDays(y)
    BY <1>4, <1>5 DEF PlansV1
  <2>2. DOMAIN plan.days = 1 .. Len(plan.days) /\ Len(plan.days) \in Nat
    BY <2>1
  <2>3. DOMAIN PlannedDays(y) = 1 .. Len(PlannedDays(y)) /\ Len(PlannedDays(y)) \in Nat
    BY <1>6
  <2>4. 1 .. Len(plan.days) = 1 .. Len(PlannedDays(y))
    BY <2>1, <2>2, <2>3
  <2> DEFINE a == Len(plan.days)
             b == Len(PlannedDays(y))
  <2>5. a \in Nat /\ b \in Nat /\ 1 .. a = 1 .. b
    BY <2>2, <2>3, <2>4
  <2> HIDE DEF a, b
  <2>6. a = b
    BY <2>5
  <2> QED BY <1>2, <2>6 DEF a, b
<1>8. ASSUME NEW p \in ToSet(x), p.kind = "playoff", p.day = d, p.start # 0
      PROVE  plan.days[j].end <= p.start
  <2>1. PICK b \in ToSet(y) : SameBlock(b, p)
    BY <1>1
  <2>2. b.kind = "playoff" /\ b.day = d /\ b.start = p.start /\ b.start # 0
    BY <1>8, <2>1 DEF SameBlock
  <2> HIDE DEF d
  <2>3. LegacyDay(y, d).end <= b.start
    BY <1>1, <1>6, <2>2, LegacyDayIs
  <2>4. plan.days[j].end = LegacyDay(y, d).end
    BY <1>2, <1>4, <1>5
  <2> QED BY <2>2, <2>3, <2>4
<1> QED BY <1>7, <1>8 DEF plan, d

LEMMA RowFromFile ==
  ASSUME Shaped, Kept, NEW r \in Rows, rows[r] # NoPlan, wanted[r].from = "pdf"
  PROVE  /\ rows[r] \in PlansV2 /\ wanted[r].what \in Seq(FileBlocks)
         /\ WindowsV2(rows[r]) = WindowsV1(LegacyOf(wanted[r].what))
         /\ LegacyOf(wanted[r].what) \in PlansV1
         /\ LET l == LegacyOf(wanted[r].what)
            IN  Len(rows[r].days) = Shift(l) + Len(l.days)
<1> DEFINE x == wanted[r].what
           plan == rows[r]
<1>1. x \in DayPlanFiles
  BY DEF Kept, Origins, From
<1>2. x \in Seq(FileBlocks)
  BY <1>1, PlansAssumption
<1>3. Said(r) /\ plan \in Stored
  BY DEF Kept, Shaped
<1>4. plan \notin OldPlans
  BY <1>3 DEF Said
<1>5. Windows(plan) = Windows(ToV2DayConfig(x)) /\ plan = NormalizeDc(ToV2DayConfig(x))
  BY <1>3 DEF Said, Given
<1>0. plan # NoPlan
  OBVIOUS
<1> HIDE DEF x, plan
<1>6. plan \in PlansV2 /\ plan.v = 2
  BY <1>0, <1>3, <1>4, Disjoint
<1> DEFINE l == LegacyOf(x)
<1>7. l \in PlansV1 /\ ToV2DayConfig(x) = MigrateV1ToV2(l) /\ ToV2DayConfig(x) \in PlansV2
  BY <1>2, FilePlanIs
<1> HIDE DEF l
<1>8. WindowsV2(ToV2DayConfig(x)) = WindowsV1(l)
  BY <1>7, MigrateIs
<1>9. WindowsV2(plan) = WindowsV1(l)
  BY <1>5, <1>6, <1>7, <1>8 DEF Windows, PlansV2
<1> DEFINE m == ToV2DayConfig(x)
<1>10. Len(m.days) = Shift(l) + Len(l.days)
  BY <1>7, MigratedDays
<1>11. m \in PlansV2
  BY <1>7
<1>12. plan = Dumped(m)
  BY <1>5, <1>11 DEF NormalizeDc, MigrateV1ToV2, PlansV2
<1> HIDE DEF m
<1>13. Len(plan.days) = Len(m.days)
  <2>1. DOMAIN plan.days = DOMAIN m.days
    BY <1>11, <1>12, DumpedIs
  <2>2. plan.days \in Seq(Seq(BlocksV2)) /\ m.days \in Seq(Seq(BlocksV2))
    BY <1>6, <1>11 DEF PlansV2
  <2> QED BY <2>1, <2>2
<1> QED BY <1>2, <1>6, <1>7, <1>9, <1>10, <1>13 DEF x, plan, l

LEMMA KeptCaps ==
  ASSUME Shaped, Kept, NEW r \in Rows, rows[r] # NoPlan, wanted[r].from = "pdf",
         NEW j \in DOMAIN PlannedDays(wanted[r].what),
         NEW b \in ToSet(rows[r].days[Len(rows[r].days) - Len(PlannedDays(wanted[r].what)) + j]),
         b.type = "qualification",
         NEW p \in ToSet(wanted[r].what), p.kind = "playoff", p.start # 0,
         p.day = PlannedDays(wanted[r].what)[j]
  PROVE  b.end <= p.start
<1> DEFINE x == wanted[r].what
           plan == rows[r]
           l == LegacyOf(x)
           i == Shift(l) + j
<1>1. /\ plan \in PlansV2 /\ x \in Seq(FileBlocks) /\ l \in PlansV1
      /\ WindowsV2(plan) = WindowsV1(l) /\ Len(plan.days) = Shift(l) + Len(l.days)
  BY RowFromFile
<1>2. /\ j \in DOMAIN PlannedDays(x) /\ p \in ToSet(x) /\ p.kind = "playoff" /\ p.start # 0
      /\ p.day = PlannedDays(x)[j]
      /\ b \in ToSet(plan.days[Len(plan.days) - Len(PlannedDays(x)) + j])
  OBVIOUS
<1> HIDE DEF x, plan
<1>3. Len(l.days) = Len(PlannedDays(x)) /\ l.days[j].end <= p.start
  BY <1>1, <1>2, CapOfTheDay
<1>4. j \in Nat /\ Shift(l) \in Nat /\ Len(l.days) \in Nat /\ j \in DOMAIN l.days
  <2>1. l.days \in Seq(DaysV1)
    BY <1>1 DEF PlansV1
  <2>2. PlannedDays(x) \in Seq(ToSet(QualDays(x)))
    BY <1>1, PlannedDaysIs
  <2>3. j \in 1 .. Len(PlannedDays(x))
    BY <1>2, <2>2
  <2>4. Shift(l) \in Nat
    BY DEF Shift
  <2> HIDE DEF l
  <2> QED BY <1>3, <2>1, <2>3, <2>4
<1> HIDE DEF l
<1>5. Len(plan.days) - Len(PlannedDays(x)) + j = i
  BY <1>1, <1>3, <1>4
<1>6. i \in DOMAIN plan.days
  <2>1. plan.days \in Seq(Seq(BlocksV2))
    BY <1>1 DEF PlansV2
  <2>2. j \in 1 .. Len(l.days)
    <3>1. l.days \in Seq(DaysV1)
      BY <1>1 DEF PlansV1
    <3> QED BY <1>4, <3>1
  <2>3. i \in 1 .. Len(plan.days)
    BY <1>1, <1>4, <2>2
  <2> QED BY <2>1, <2>3
<1>7. <<i, "qualification", b.start, b.end>> \in WindowsV1(l)
  <2>1. b \in ToSet(plan.days[i])
    BY <1>2, <1>5
  <2>2. Window(i, b.type, b) \in WindowsV2(plan)
    BY <1>6, <2>1 DEF WindowsV2
  <2> QED BY <1>1, <2>2 DEF Window
<1> HIDE DEF i
<1>8. PICK k \in DOMAIN l.days : k = i - Shift(l) /\ b.end = l.days[k].end
  BY <1>1, <1>7, QualsSaid
<1>9. k = j
  BY <1>4, <1>8 DEF i
<1> QED BY <1>3, <1>8, <1>9

LEMMA KeptStops == Shaped /\ Kept => QualsStopForPlayoffs
<1> SUFFICES ASSUME Shaped, Kept, NEW r \in Rows, rows[r] # NoPlan, wanted[r].from = "pdf"
             PROVE  LET x == wanted[r].what
                        days == rows[r].days
                        practice == Len(days) - Len(PlannedDays(x))
                    IN  /\ \A i \in DOMAIN PlannedDays(x) :
                             \A b \in ToSet(days[practice + i]), p \in ToSet(x) :
                               b.type = "qualification" /\ p.kind = "playoff" /\ p.day = PlannedDays(x)[i]
                                 /\ p.start # 0 => b.end <= p.start
                        /\ OnQualDays(x) /\ PlannedDays(x) = QualDays(x)
                             => \A i \in DOMAIN days : ~Overlaps(days[i])
  BY DEF QualsStopForPlayoffs
<1> DEFINE x == wanted[r].what
           plan == rows[r]
           l == LegacyOf(x)
<1>1. /\ plan \in PlansV2 /\ x \in Seq(FileBlocks)
      /\ WindowsV2(plan) = WindowsV1(l) /\ l \in PlansV1
  BY RowFromFile
<1>2. ASSUME OnQualDays(x), PlannedDays(x) = QualDays(x), NEW i \in DOMAIN plan.days,
             NEW b \in ToSet(plan.days[i]), NEW c \in ToSet(plan.days[i]),
             b.type = "qualification", c.type = "playoff"
      PROVE  ~(b.end > c.start)
  <2>1. ASSUME NEW e \in ToSet(plan.days[i]) PROVE Window(i, e.type, e) \in WindowsV2(plan)
    BY <2>1 DEF WindowsV2
  <2>2. /\ <<i, "qualification", b.start, b.end>> \in WindowsV1(l)
        /\ <<i, "playoff", c.start, c.end>> \in WindowsV1(l)
    BY <1>1, <1>2, <2>1 DEF Window
  <2>3. b.end \in Int /\ c.start \in Int
    <3>1. plan.days \in Seq(Seq(BlocksV2))
      BY <1>1 DEF PlansV2
    <3>2. plan.days[i] \in Seq(BlocksV2)
      BY <3>1
    <3>3. b \in BlocksV2 /\ c \in BlocksV2
      BY <3>2, InRange
    <3> QED BY <3>3 DEF BlocksV2
  <2> HIDE DEF x, l, plan
  <2>5. PICK j \in DOMAIN l.days : j = i - Shift(l) /\ b.end = l.days[j].end
    BY <1>1, <2>2, QualsSaid
  <2>6. PICK k \in DOMAIN l.days : \E p \in PlayoffsAt(l, k) : k = i - Shift(l) /\ c.start = p.start
    BY <1>1, <2>2, PlayoffsSaid
  <2>7. j = k
    BY <2>5, <2>6
  <2>8. PICK p \in PlayoffsAt(l, j) : c.start = p.start
    BY <2>6, <2>7
  <2>9. l.days[j].end <= p.start
    BY <1>1, <1>2, CappedDays DEF l
  <2> QED BY <2>3, <2>5, <2>8, <2>9
<1>3. OnQualDays(x) /\ PlannedDays(x) = QualDays(x) => \A i \in DOMAIN plan.days : ~Overlaps(plan.days[i])
  BY <1>2 DEF Overlaps
<1> QED BY <1>3, KeptCaps

\* Qualifications stop for the playoffs of their day, for any file the model may
\* read and however often the plan is saved, restored and migrated afterwards: on
\* the plan day a day of the file became no qualification window reaches into a
\* playoff the file gives for that day. The plan's own playoffs start after it too
\* in a file whose qualification days all keep a timed qualification and whose
\* playoffs are on such days; for the other files that fails
\* (PlayoffsAreClearOfQuals), since playoffs are placed by another list of days.
THEOREM QualsLeaveRoomForPlayoffs == Spec => []QualsStopForPlayoffs
BY PlansInvariant, KeptStops, PTL

-----------------------------------------------------------------------------
\* A row that was last given match times holds the plan derived from them, with
\* the defaults filled in.
LEMMA RowFromTimes ==
  ASSUME NEW times \in Seq(Nat), NEW practice \in Seq(Nat)
  PROVE  LET qual == Last(NormalizeDc(DeriveParameters(times, practice)).days)[1]
             derived == DerivedQual(times)
         IN  /\ qual.start = derived.start /\ qual.end = derived.end
             /\ qual.ct = derived.ct /\ qual.breaks = derived.breaks
<1> DEFINE plan == DeriveParameters(times, practice)
           m == Dumped(plan)
           q == DerivedQual(times)
           n == Len(plan.days)
<1>1. plan \in PlansV2 /\ Last(plan.days) = <<q>> /\ plan.days # <<>>
  BY DerivedPlanIs
<1>2. q \in BlocksV2 /\ q.ct # 0
  BY DerivedQualIs DEF Positive
<1>3. NormalizeDc(plan) = m
  BY <1>1 DEF NormalizeDc, MigrateV1ToV2, PlansV2
<1> HIDE DEF plan, q
<1>4. /\ m \in PlansV2 /\ DOMAIN m.days = DOMAIN plan.days
      /\ \A i \in DOMAIN plan.days : m.days[i] = FilledDay(plan.days[i])
  BY <1>1, DumpedIs
<1> HIDE DEF m
<1>5. plan.days \in Seq(Seq(BlocksV2)) /\ m.days \in Seq(Seq(BlocksV2))
  BY <1>1, <1>4 DEF PlansV2
<1>6. Len(m.days) = n /\ n \in DOMAIN plan.days
  BY <1>1, <1>4, <1>5
<1>7. Last(m.days) = FilledDay(<<q>>)
  BY <1>1, <1>4, <1>6 DEF Last
<1>8. FilledDay(<<q>>)[1] = Filled(q)
  BY DEF FilledDay
<1>9. /\ Filled(q).start = q.start /\ Filled(q).end = q.end /\ Filled(q).breaks = q.breaks
      /\ Filled(q).ct = q.ct
  BY <1>2, FilledIs
<1> QED BY <1>3, <1>7, <1>8, <1>9 DEF plan, q

\* A guessed break is a gap between two matches that follow each other.
LEMMA DerivedHolds ==
  ASSUME NEW times \in Seq(Nat), OneCalendarDay(Timed(times), DerivedCycle(times)), NEW k \in DOMAIN Timed(times)
  PROVE  LET t == Timed(times)
             q == DerivedQual(times)
         IN  /\ q.start <= t[k] /\ t[k] + q.ct <= q.end
             /\ \A b \in ToSet(q.breaks) : t[k] + q.ct <= b.start \/ b.end <= t[k]
<1> DEFINE t == Timed(times)
           q == DerivedQual(times)
           cycle == DerivedCycle(times)
           n == Len(t)
<1>1. /\ cycle \in Positive /\ t \in Seq(Positive) /\ q.ct = cycle
      /\ t # <<>> => q.start = Clock(t[1]) /\ q.end = Clock(t[n] + cycle)
      /\ q.breaks = DerivedBreaks(t, cycle)
  BY DerivedQualIs
<1>2. k \in DOMAIN t /\ OneCalendarDay(t, cycle)
  OBVIOUS
<1> HIDE DEF t, q, cycle
<1>3. n \in Nat /\ DOMAIN t = 1 .. n /\ t # <<>> /\ 1 \in DOMAIN t /\ n \in DOMAIN t
  BY <1>1, <1>2
<1>4. \A j \in DOMAIN t : t[j] \in Nat
  BY <1>1, <1>3 DEF Positive
<1>5. cycle \in Nat
  BY <1>1 DEF Positive
<1>6. \A i, j \in DOMAIN t : i <= j => t[i] <= t[j]
  BY <1>2, <1>3, <1>4 DEF OneCalendarDay
<1>7. t[1] <= t[k] /\ t[k] <= t[n]
  BY <1>2, <1>3, <1>6
<1>10. \A j \in DOMAIN t :
         t[j] # 0 /\ t[j] + cycle \in Nat /\ t[j] + cycle # 0 /\ t[j] + cycle <= DayLength /\ t[j] <= DayLength
  <2>1. ASSUME NEW j \in DOMAIN t
        PROVE  t[j] # 0 /\ t[j] + cycle \in Nat /\ t[j] + cycle # 0 /\ t[j] + cycle <= DayLength
                 /\ t[j] <= DayLength
    <3>1. t[j] # 0 /\ t[j] \in Nat
      BY <1>1, <1>3 DEF Positive
    <3>2. t[j] + cycle <= DayLength
      BY <1>2 DEF OneCalendarDay
    <3>3. DayLength \in Nat
      BY HoursAssumption
    <3> QED BY <1>5, <3>1, <3>2, <3>3
  <2> QED BY <2>1
<1>11. \A j \in DOMAIN t : Clock(t[j]) = t[j] /\ Clock(t[j] + cycle) = t[j] + cycle
  BY <1>4, <1>10, ClockIs
<1>12. q.start = t[1] /\ q.end = t[n] + cycle
  BY <1>1, <1>3, <1>11
<1>8. q.start <= t[k] /\ t[k] + q.ct <= q.end
  BY <1>1, <1>2, <1>3, <1>4, <1>5, <1>7, <1>12, SMTT(30)
<1>9. ASSUME NEW b \in ToSet(q.breaks) PROVE t[k] + q.ct <= b.start \/ b.end <= t[k]
  <2>0. PICK g \in DerivedGaps(t, cycle) : b.start = Clock(t[g] + cycle) /\ b.end = Clock(t[g + 1])
    BY <1>1, DerivedBreaksAre
  <2>2. g \in DOMAIN t /\ g + 1 \in DOMAIN t
    BY <1>3, <2>0 DEF DerivedGaps
  <2>1. b.start = t[g] + cycle /\ b.end = t[g + 1]
    BY <1>11, <2>0, <2>2
  <2>3. CASE k <= g
    <3>1. t[k] <= t[g]
      BY <1>2, <1>6, <2>2, <2>3
    <3> QED BY <1>1, <1>2, <1>4, <1>5, <2>1, <2>2, <3>1
  <2>4. CASE g + 1 <= k
    <3>1. t[g + 1] <= t[k]
      BY <1>2, <1>6, <2>2, <2>4
    <3> QED BY <2>1, <3>1
  <2> QED BY <1>2, <1>3, <2>2, <2>3, <2>4
<1> QED BY <1>8, <1>9 DEF t, q

LEMMA KeptHoldsMatches == Shaped /\ Kept => DerivedPlanHoldsItsMatches
<1> SUFFICES ASSUME Shaped, Kept, NEW r \in Rows, rows[r] # NoPlan, wanted[r].from = "times",
                    OneCalendarDay(Timed(wanted[r].what.times), Last(rows[r].days)[1].ct),
                    NEW k \in DOMAIN Timed(wanted[r].what.times)
             PROVE  LET t == Timed(wanted[r].what.times)
                        qual == Last(rows[r].days)[1]
                    IN  /\ qual.start <= t[k] /\ t[k] + qual.ct <= qual.end
                        /\ \A b \in ToSet(qual.breaks) : t[k] + qual.ct <= b.start \/ b.end <= t[k]
  BY DEF DerivedPlanHoldsItsMatches
<1>1. PICK f \in MatchFiles : wanted[r].what = f
  <2>1. wanted[r] \in Origins
    BY DEF Kept
  <2> QED BY <2>1 DEF Origins, From
<1>2. rows[r] = NormalizeDc(DeriveParameters(f.times, f.practice))
  <2>1. rows[r] = NormalizeDc(Given(wanted[r]))
    BY DEF Kept, Said
  <2> QED BY <1>1, <2>1 DEF Given
<1>3. f.times \in Seq(Nat) /\ f.practice \in Seq(Nat)
  BY FileTimes
<1> DEFINE times == f.times
           practice == f.practice
           qual == Last(rows[r].days)[1]
           derived == DerivedQual(times)
           t == Timed(times)
<1>4. times \in Seq(Nat) /\ practice \in Seq(Nat) /\ k \in DOMAIN t 
  BY <1>1, <1>3
<1>5. rows[r] = NormalizeDc(DeriveParameters(times, practice))
  BY <1>2
<1> HIDE DEF times, practice
<1>6. /\ qual.start = derived.start /\ qual.end = derived.end
      /\ qual.ct = derived.ct /\ qual.breaks = derived.breaks
  BY <1>4, <1>5, RowFromTimes
<1>0. OneCalendarDay(t, qual.ct)
  BY <1>1 DEF times
<1>00. derived.ct = DerivedCycle(times)
  BY <1>4, DerivedQualIs
<1>7. /\ derived.start <= t[k] /\ t[k] + derived.ct <= derived.end
      /\ \A b \in ToSet(derived.breaks) : t[k] + derived.ct <= b.start \/ b.end <= t[k]
  BY <1>0, <1>00, <1>4, <1>6, DerivedHolds
<1>8. Timed(wanted[r].what.times) = t
  BY <1>1 DEF times
<1> HIDE DEF t, qual, derived
<1>9. /\ qual.start <= t[k] /\ t[k] + qual.ct <= qual.end
      /\ \A b \in ToSet(qual.breaks) : t[k] + qual.ct <= b.start \/ b.end <= t[k]
  BY <1>6, <1>7
<1> QED BY <1>8, <1>9 DEF qual

-----------------------------------------------------------------------------
\* The walk of a simulation over the days it reads from a plan, in V1 shape.

GoodDays ==
  {day \in DaysV1 : Sorted(day.breaks) /\ \A b \in ToSet(day.breaks) : b.start < b.end}

Readable(plan) ==
  \A i \in DOMAIN plan.days : \A b \in ToSet(plan.days[i].breaks) : Forward(b)

LEMMA DayKeysIs ==
  ASSUME NEW plan \in PlansV1, Readable(plan), NEW i \in DOMAIN plan.days
  PROVE  DayKeys(plan.days[i]) \in GoodDays
<1> DEFINE d == plan.days[i]
           breaks == ByStart(Timely(d.breaks))
           keys == DayKeys(d)
<1>1. d \in DaysV1
  BY DEF PlansV1
<1>2. \A b \in ToSet(d.breaks) : Forward(b)
  BY DEF Readable
<1>3. keys = [d EXCEPT !.start = OrElse(@, OpenTime), !.end = OrElse(@, CloseTime),
                       !.breaks = breaks]
  BY DEF DayKeys, PlansV1
<1> HIDE DEF d
<1>4. OrElse(d.start, OpenTime) \in Nat /\ OrElse(d.end, CloseTime) \in Nat
  BY <1>1, HoursAssumption, OrElseType DEF DaysV1
<1>5. breaks \in Seq(BreaksV1) /\ Sorted(breaks) /\ ToSet(breaks) = {b \in ToSet(d.breaks) : HasWindow(b)}
  <2> DEFINE s == Timely(d.breaks)
             T == BreaksV1
  <2>1. s \in Seq(T) /\ ToSet(s) = {b \in ToSet(d.breaks) : HasWindow(b)}
    BY <1>1, TimelyIs DEF DaysV1
  <2>2. \A x \in T : x.start \in Int
    BY DEF BreaksV1
  <2> HIDE DEF s, T
  <2>3. ByStart(s) \in Seq(T) /\ Sorted(ByStart(s)) /\ ToSet(ByStart(s)) = ToSet(s)
    BY <2>1, <2>2, ByStartIs
  <2> QED BY <2>1, <2>3 DEF s, T
<1>6. \A b \in ToSet(breaks) : b.start < b.end
  BY <1>2, <1>5 DEF Forward
<1> HIDE DEF breaks
<1>7. keys = [start |-> OrElse(d.start, OpenTime), end |-> OrElse(d.end, CloseTime), ct |-> d.ct,
              changes |-> d.changes, breaks |-> breaks, earlyEnd |-> d.earlyEnd]
  BY <1>1, <1>3 DEF DaysV1
<1>8. keys \in DaysV1 /\ keys.breaks = breaks
  BY <1>1, <1>4, <1>5, <1>7 DEF DaysV1
<1> HIDE DEF keys
<1>9. keys \in GoodDays
  BY <1>5, <1>6, <1>8 DEF GoodDays
<1> QED BY <1>9 DEF keys, d

\* A break is over at a time, or still to come.
Clear(b, now) == b.end <= now \/ now < b.start

IsFlushing(c, day, cursor) ==
  c = [k \in 0 .. Len(day.breaks) |->
         IF k = 0 THEN cursor
         ELSE LET now == c[k - 1]
                  b == day.breaks[k]
              IN  IF b.start <= now /\ now < b.end THEN b.end ELSE now]
Flushing(now, b) == IF b.start <= now /\ now < b.end THEN b.end ELSE now

LEMMA FlushedIs ==
  ASSUME NEW day \in GoodDays, NEW cursor \in Nat
  PROVE  /\ Flushed(day, cursor) \in Nat /\ cursor <= Flushed(day, cursor)
         /\ \A b \in ToSet(day.breaks) : Clear(b, Flushed(day, cursor))
<1> DEFINE s == day.breaks
           n == Len(s)
           step == [x \in (1 .. n) \X Nat |-> Flushing(x[2], s[x[1]])]
<1>1. /\ s \in Seq(BreaksV1) /\ Sorted(s) /\ n \in Nat /\ DOMAIN s = 1 .. n
      /\ \A k \in 1 .. n : s[k].start \in Nat /\ s[k].end \in Nat /\ s[k].start < s[k].end
  <2>1. day \in DaysV1 /\ Sorted(s) /\ \A b \in ToSet(s) : b.start < b.end
    BY DEF GoodDays
  <2>2. s \in Seq(BreaksV1)
    BY <2>1 DEF DaysV1
  <2>3. \A k \in DOMAIN s : s[k] \in BreaksV1 /\ s[k] \in ToSet(s)
    BY <2>2, InRange
  <2> QED BY <2>1, <2>2, <2>3 DEF BreaksV1
<1> HIDE DEF s
<1>2. step \in [(1 .. n) \X Nat -> Nat]
  BY <1>1 DEF Flushing
<1> HIDE DEF n
<1>3. PICK f \in [0 .. n -> Nat] : IsRun(f, n, cursor, step)
  <2> HIDE DEF step
  <2> QED BY <1>1, <1>2, RunExists
<1>4. IsFlushing(f, day, cursor)
  <2>1. ASSUME NEW k \in 0 .. n, k # 0
        PROVE  step[<<k, f[k - 1]>>] = Flushing(f[k - 1], s[k])
    <3>1. k \in 1 .. n /\ k - 1 \in 0 .. n
      BY <1>1, <2>1
    <3>2. f[k - 1] \in Nat
      BY <3>1
    <3> QED BY <3>1, <3>2
  <2> HIDE DEF step
  <2> QED BY <2>1, <1>3 DEF IsRun, IsFlushing, Flushing, s, n
<1> DEFINE c == CHOOSE g : IsFlushing(g, day, cursor)
<1>5. IsFlushing(c, day, cursor) /\ Flushed(day, cursor) = c[n]
  BY <1>4 DEF Flushed, IsFlushing, s, n
<1> HIDE DEF c, step
<1>6. c[0] = cursor /\ \A k \in 1 .. n : c[k] = Flushing(c[k - 1], s[k])
  <2>1. c = [k \in 0 .. n |-> IF k = 0 THEN cursor ELSE Flushing(c[k - 1], s[k])]
    BY <1>5 DEF IsFlushing, Flushing, s, n
  <2>2. 0 \in 0 .. n /\ \A k \in 1 .. n : k \in 0 .. n /\ k # 0
    BY <1>1
  <2> QED BY <2>1, <2>2
<1> DEFINE P == {k \in 0 .. n : /\ c[k] \in Nat /\ cursor <= c[k]
                                /\ \A j \in 1 .. k : Clear(s[j], c[k])}
<1>7. 0 \in P
  BY <1>1, <1>6
<1>8. ASSUME NEW k \in 0 .. n - 1, k \in P PROVE k + 1 \in P
  <2> DEFINE now == c[k]
             b == s[k + 1]
             to == c[k + 1]
  <2>1. k \in Nat /\ k + 1 \in 1 .. n /\ (k + 1) - 1 = k /\ k + 1 \in 0 .. n
    BY <1>1, <1>8
  <2>2. now \in Nat /\ cursor <= now /\ \A j \in 1 .. k : Clear(s[j], now)
    BY <1>8
  <2>3. to = Flushing(now, b) /\ b.start \in Nat /\ b.end \in Nat /\ b.start < b.end
    BY <1>1, <1>6, <2>1
  <2>4. ASSUME NEW j \in 1 .. k
        PROVE  s[j].start \in Nat /\ s[j].end \in Nat /\ s[j].start <= b.start
    <3>1. j \in DOMAIN s /\ k + 1 \in DOMAIN s /\ j < k + 1 /\ j \in 1 .. n
      BY <1>1, <2>1
    <3> QED BY <1>1, <3>1 DEF Sorted
  <2> HIDE DEF now, b, to, P
  <2>5. CASE b.start <= now /\ now < b.end
    <3>1. to = b.end
      BY <2>3, <2>5 DEF Flushing
    <3>2. \A j \in 1 .. k : Clear(s[j], to)
      BY <2>2, <2>3, <2>4, <2>5, <3>1 DEF Clear
    <3>3. Clear(b, to) /\ to \in Nat /\ cursor <= to
      BY <2>2, <2>3, <2>5, <3>1 DEF Clear
    <3>4. \A j \in 1 .. k + 1 : j \in 1 .. k \/ j = k + 1
      BY <2>1
    <3> QED BY <2>1, <3>2, <3>3, <3>4 DEF P, to, b
  <2>6. CASE ~(b.start <= now /\ now < b.end)
    <3>1. to = now
      BY <2>3, <2>6 DEF Flushing
    <3>2. Clear(b, to)
      BY <2>2, <2>3, <2>6, <3>1 DEF Clear
    <3>4. \A j \in 1 .. k + 1 : j \in 1 .. k \/ j = k + 1
      BY <2>1
    <3> QED BY <2>1, <2>2, <3>1, <3>2, <3>4 DEF P, to, b
  <2> QED BY <2>5, <2>6
<1>9. \A k \in 0 .. n : k \in P
  <2> HIDE DEF P
  <2>1. n \in Nat
    BY <1>1
  <2> QED BY <1>7, <1>8, <2>1, UpToByStep
<1>10. c[n] \in Nat /\ cursor <= c[n] /\ \A j \in 1 .. n : Clear(s[j], c[n])
  <2>1. n \in 0 .. n
    BY <1>1
  <2> QED BY <1>9, <2>1
<1>11. ToSet(s) = {s[j] : j \in 1 .. n}
  BY <1>1 DEF ToSet
<1>12. \A b \in ToSet(s) : Clear(b, c[n])
  BY <1>10, <1>11
<1> QED BY <1>5, <1>10, <1>12 DEF s

\* The cursor is left where it is only if every break is over or a buffer away.
LEMMA SkippedIs ==
  ASSUME NEW day \in GoodDays, NEW plan \in PlansV1, NEW now \in Nat,
         \A b \in ToSet(day.breaks) : Clear(b, now)
  PROVE  LET to == SkippedBreak(day, plan, now)
         IN  /\ to \in Nat /\ now <= to
             /\ to = now => \A b \in ToSet(day.breaks) :
                              b.end <= now \/ now + Buffer(plan) <= b.start
<1> DEFINE s == day.breaks
           I == {k \in DOMAIN s : s[k].start > now}
           ahead == Picked(s, I)
           buffer == Buffer(plan)
           to == SkippedBreak(day, plan, now)
<1>1. /\ s \in Seq(BreaksV1) /\ Sorted(s)
      /\ \A k \in DOMAIN s : s[k].start \in Nat /\ s[k].end \in Nat /\ s[k].start < s[k].end
  <2>1. day \in DaysV1 /\ Sorted(s) /\ \A b \in ToSet(s) : b.start < b.end
    BY DEF GoodDays
  <2>2. s \in Seq(BreaksV1)
    BY <2>1 DEF DaysV1
  <2>3. \A k \in DOMAIN s : s[k] \in BreaksV1 /\ s[k] \in ToSet(s)
    BY <2>2, InRange
  <2> QED BY <2>1, <2>2, <2>3 DEF BreaksV1
<1>2. buffer \in Nat
  BY HoursAssumption, OrElseType DEF Buffer, PlansV1
<1>3. to = IF ahead # <<>> /\ Head(ahead).start - now < buffer
           THEN MaxOf({now, Head(ahead).end}) ELSE now
  BY DEF SkippedBreak, Where
<1>4. \A b \in ToSet(s) : Clear(b, now)
  OBVIOUS
<1> HIDE DEF s, buffer, to
<1>5. ahead \in Seq(BreaksV1) /\ \E at : Lists(at, ahead, s, I)
  <2>1. I \cap DOMAIN s = I
    OBVIOUS
  <2> HIDE DEF I
  <2> QED BY <1>1, <2>1, PickedLists
<1>6. PICK at : Lists(at, ahead, s, I)
  BY <1>5
<1> HIDE DEF ahead
<1>7. ASSUME ahead # <<>>
      PROVE  /\ Head(ahead).start \in Nat /\ Head(ahead).end \in Nat
             /\ now < Head(ahead).start /\ Head(ahead).start < Head(ahead).end
             /\ \A k \in I : Head(ahead).start <= s[k].start
  <2>1. 1 \in 1 .. Len(ahead) /\ Head(ahead) = ahead[1]
    BY <1>5, <1>7
  <2>2. Head(ahead) = s[at[1]] /\ at[1] \in I
    BY <1>6, <2>1 DEF Lists
  <2>3. ASSUME NEW k \in I PROVE s[at[1]].start <= s[k].start
    <3>1. PICK j \in 1 .. Len(ahead) : at[j] = k
      BY <1>6 DEF Lists
    <3>2. j = 1 \/ 1 < j
      BY <1>5
    <3>3. CASE j = 1
      BY <1>1, <2>2, <3>1, <3>3
    <3>4. CASE 1 < j
      <4>1. at[1] < k
        BY <1>6, <2>1, <3>1, <3>4 DEF Lists
      <4> QED BY <1>1, <2>2, <4>1 DEF Sorted
    <3> QED BY <3>2, <3>3, <3>4
  <2> QED BY <1>1, <2>2, <2>3
<1>8. ASSUME NEW k \in I PROVE ahead # <<>>
  <2>1. PICK j \in 1 .. Len(ahead) : at[j] = k
    BY <1>6 DEF Lists
  <2> QED BY <1>5, <2>1
<1>9. ASSUME ahead # <<>>, Head(ahead).start - now < buffer PROVE to \in Nat /\ now < to
  <2> DEFINE e == Head(ahead).end
             S == {now, e}
  <2>1. e \in Nat /\ now < e
    BY <1>7, <1>9
  <2>2. to = MaxOf(S)
    BY <1>3, <1>9
  <2>3. S \in SUBSET (0 .. e) /\ S # {} /\ e \in S
    BY <2>1
  <2> HIDE DEF e, S
  <2>4. MaxOf(S) \in S /\ \A y \in S : MaxOf(S) >= y
    BY <2>1, <2>3, NaturalMax
  <2>5. to \in 0 .. e /\ to >= e
    BY <2>2, <2>3, <2>4
  <2> QED BY <2>1, <2>5
<1>10. ASSUME ~(ahead # <<>> /\ Head(ahead).start - now < buffer),
              NEW b \in ToSet(s)
       PROVE  to = now /\ (b.end <= now \/ now + buffer <= b.start)
  <2>1. to = now
    BY <1>3, <1>10
  <2>2. PICK k \in DOMAIN s : b = s[k]
    BY DEF ToSet
  <2>3. CASE now < b.start
    <3>1. k \in I
      BY <1>1, <2>2, <2>3
    <3>2. ahead # <<>>
      BY <1>8, <3>1
    <3>3. Head(ahead).start - now >= buffer /\ Head(ahead).start <= b.start
      BY <1>2, <1>7, <1>10, <2>2, <3>1, <3>2
    <3>4. Head(ahead).start \in Nat /\ b.start \in Nat
      BY <1>1, <1>7, <2>2, <3>2
    <3> QED BY <1>2, <2>1, <3>3, <3>4
  <2>4. CASE b.end <= now
    BY <2>1, <2>4
  <2> QED BY <1>4, <2>3, <2>4 DEF Clear
<1>11. to \in Nat /\ now <= to
  BY <1>3, <1>9
<1>12. to = now => \A b \in ToSet(s) : b.end <= now \/ now + buffer <= b.start
  BY <1>9, <1>10
<1> QED BY <1>11, <1>12 DEF to, s, buffer

LEMMA CycleForType ==
  ASSUME NEW day \in GoodDays, NEW plan \in PlansV1, NEW n
  PROVE  CycleFor(day, plan, n) \in Nat
<1> DEFINE s == day.changes
           I == {k \in DOMAIN s : s[k].time # 0 /\ (s[k].isStart \/ (s[k].after # 0 /\ n > s[k].after))}
           applied == Picked(s, I)
<1>1. CycleFor(day, plan, n) = IF applied = <<>> THEN OrElse(plan.ct, LiveCycle) ELSE Last(applied).time
  BY DEF CycleFor, Where
<1>2. OrElse(plan.ct, LiveCycle) \in Nat
  BY HoursAssumption, OrElseType DEF PlansV1
<1>3. s \in Seq(ChangesV1) /\ I \in SUBSET DOMAIN s
  BY DEF GoodDays, DaysV1
<1> HIDE DEF s, I
<1>4. applied \in Seq(ChangesV1)
  BY <1>3, PickedIs
<1> HIDE DEF applied
<1>5. ASSUME applied # <<>> PROVE Last(applied).time \in Nat
  <2>1. Len(applied) \in DOMAIN applied
    BY <1>4, <1>5
  <2>2. applied[Len(applied)] \in ChangesV1
    BY <1>4, <2>1
  <2> QED BY <2>2 DEF Last, ChangesV1
<1> QED BY <1>1, <1>2, <1>5

\* A match of the walk: in its day, after the matches of that day before it, and
\* clear of the breaks.
Placed == [day : Nat, start : Nat, end : Nat]
KeepsToDay(plan, placed, k) ==
  LET m == placed[k]
      day == DayKeys(plan.days[m.day])
  IN  /\ day.start <= m.start /\ m.end <= day.end
      /\ \A j \in 1 .. k - 1 : placed[j].day = m.day => placed[j].end <= m.start
      /\ \A b \in ToSet(day.breaks) : b.end <= m.start \/ m.start + Buffer(plan) <= b.start
PlacedOk(plan, placed) ==
  /\ placed \in Seq(Placed)
  /\ \A k \in DOMAIN placed : placed[k].day \in DOMAIN plan.days /\ KeepsToDay(plan, placed, k)

LEMMA OneMorePlaced ==
  ASSUME NEW plan \in PlansV1, NEW placed, PlacedOk(plan, placed), NEW m \in Placed,
         m.day \in DOMAIN plan.days, KeepsToDay(plan, Append(placed, m), Len(placed) + 1)
  PROVE  /\ PlacedOk(plan, Append(placed, m)) /\ Len(Append(placed, m)) = Len(placed) + 1
         /\ \A k \in DOMAIN Append(placed, m) :
              \/ k \in DOMAIN placed /\ Append(placed, m)[k] = placed[k]
              \/ k = Len(placed) + 1 /\ Append(placed, m)[k] = m
<1> DEFINE q == Append(placed, m)
           n == Len(placed)
<1>1. /\ placed \in Seq(Placed) /\ n \in Nat /\ q \in Seq(Placed) /\ Len(q) = n + 1
      /\ DOMAIN placed = 1 .. n /\ DOMAIN q = 1 .. n + 1
      /\ q[n + 1] = m /\ \A k \in 1 .. n : q[k] = placed[k]
  BY DEF PlacedOk
<1>2. KeepsToDay(plan, q, n + 1)
  OBVIOUS
<1> HIDE DEF q, n
<1>3. \A k \in DOMAIN q : (k \in DOMAIN placed /\ q[k] = placed[k]) \/ (k = n + 1 /\ q[k] = m)
  BY <1>1
<1>4. ASSUME NEW k \in 1 .. n PROVE KeepsToDay(plan, q, k)
  <2>1. KeepsToDay(plan, placed, k) /\ q[k] = placed[k]
    BY <1>1 DEF PlacedOk
  <2>2. \A j \in 1 .. k - 1 : q[j] = placed[j]
    BY <1>1
  <2> QED BY <2>1, <2>2 DEF KeepsToDay
<1>5. \A k \in DOMAIN q : q[k].day \in DOMAIN plan.days /\ KeepsToDay(plan, q, k)
  BY <1>1, <1>2, <1>3, <1>4 DEF PlacedOk
<1> QED BY <1>1, <1>3, <1>5 DEF PlacedOk, q, n

\* The walk in the i-th day: its matches are over at the cursor, no later day
\* has one, and no more are left than the limit has room for.
Walks == [cursor : Nat, placed : Seq(Placed), left : Nat]
InDay(plan, i, limit) ==
  {s \in Walks :
     /\ PlacedOk(plan, s.placed) /\ Len(s.placed) + s.left <= limit
     /\ DayKeys(plan.days[i]).start <= s.cursor
     /\ \A k \in DOMAIN s.placed : s.placed[k].day <= i
     /\ \A k \in DOMAIN s.placed : s.placed[k].day = i => s.placed[k].end <= s.cursor}

LEMMA TurnKeeps ==
  ASSUME NEW plan \in PlansV1, Readable(plan), NEW i \in DOMAIN plan.days, NEW limit \in Nat,
         NEW s \in InDay(plan, i, limit)
  PROVE  Turn(plan, i, DayKeys(plan.days[i]), s) \in InDay(plan, i, limit)
<1> DEFINE day == DayKeys(plan.days[i])
           at == Flushed(day, s.cursor)
           after == SkippedBreak(day, plan, at)
           cycle == CycleFor(day, plan, Len(s.placed) + 1)
           m == [day |-> i, start |-> at, end |-> at + cycle]
           n == Len(s.placed)
           buffer == Buffer(plan)
<1>1. day \in GoodDays
  BY DayKeysIs
<1>2. /\ s \in Walks /\ PlacedOk(plan, s.placed) /\ n + s.left <= limit /\ day.start <= s.cursor
      /\ \A k \in DOMAIN s.placed : s.placed[k].day <= i
      /\ \A k \in DOMAIN s.placed : s.placed[k].day = i => s.placed[k].end <= s.cursor
  BY DEF InDay
<1>3. s.cursor \in Nat /\ s.left \in Nat /\ s.placed \in Seq(Placed)
      /\ s = [cursor |-> s.cursor, placed |-> s.placed, left |-> s.left]
  BY <1>2 DEF Walks
<1>4. Turn(plan, i, day, s) =
        IF s.left = 0 THEN s
        ELSE IF after # at THEN [s EXCEPT !.cursor = after]
        ELSE IF at + cycle > day.end THEN [s EXCEPT !.left = 0]
        ELSE [cursor |-> at + cycle, left |-> s.left - 1, placed |-> Append(s.placed, m)]
  BY DEF Turn
<1>5. i \in Nat /\ n \in Nat /\ DOMAIN s.placed = 1 .. n /\ day.start \in Nat /\ day.end \in Nat
  <2>1. i \in Nat
    <3>1. plan.days \in Seq(DaysV1)
      BY DEF PlansV1
    <3> QED BY <3>1
  <2>2. n \in Nat /\ DOMAIN s.placed = 1 .. n
    BY <1>3
  <2>3. day.start \in Nat /\ day.end \in Nat
    <3> HIDE DEF day
    <3> QED BY <1>1 DEF GoodDays, DaysV1
  <2> QED BY <2>1, <2>2, <2>3
<1> HIDE DEF day
<1>6. at \in Nat /\ s.cursor <= at /\ \A b \in ToSet(day.breaks) : Clear(b, at)
  BY <1>1, <1>3, FlushedIs
<1>7. cycle \in Nat
  BY <1>1, CycleForType
<1> HIDE DEF at
<1>8. /\ after \in Nat /\ at <= after
      /\ after = at => \A b \in ToSet(day.breaks) : b.end <= at \/ at + buffer <= b.start
  BY <1>1, <1>6, SkippedIs
<1> HIDE DEF after, cycle, n, buffer
<1>9. \A k \in DOMAIN s.placed : s.placed[k].end \in Nat
  <2>1. \A k \in DOMAIN s.placed : s.placed[k] \in Placed
    BY <1>3
  <2> QED BY <2>1 DEF Placed
<1>10. CASE after # at /\ s.left # 0
  <2> DEFINE w == [cursor |-> after, placed |-> s.placed, left |-> s.left]
  <2>1. Turn(plan, i, day, s) = w
    BY <1>3, <1>4, <1>10
  <2>2. \A k \in DOMAIN s.placed : s.placed[k].day = i => s.placed[k].end <= after
    BY <1>2, <1>3, <1>6, <1>8, <1>9
  <2>3. w \in Walks /\ day.start <= w.cursor
    BY <1>2, <1>3, <1>5, <1>6, <1>8 DEF Walks
  <2>4. w \in InDay(plan, i, limit)
    BY <1>2, <2>2, <2>3 DEF InDay, day, n
  <2> QED BY <2>1, <2>4 DEF day
<1>11. CASE after = at /\ s.left # 0 /\ at + cycle > day.end
  <2> DEFINE w == [cursor |-> s.cursor, placed |-> s.placed, left |-> 0]
  <2>1. Turn(plan, i, day, s) = w
    BY <1>3, <1>4, <1>11
  <2>2. w \in Walks /\ n + w.left <= limit
    BY <1>2, <1>3, <1>5 DEF Walks
  <2>3. w \in InDay(plan, i, limit)
    BY <1>2, <2>2 DEF InDay, day, n
  <2> QED BY <2>1, <2>3 DEF day
<1>12. CASE after = at /\ s.left # 0 /\ ~(at + cycle > day.end)
  <2> DEFINE q == Append(s.placed, m)
             w == [cursor |-> at + cycle, placed |-> q, left |-> s.left - 1]
  <2>1. Turn(plan, i, day, s) = w
    BY <1>4, <1>12
  <2>2. m \in Placed /\ m.day = i
    BY <1>5, <1>6, <1>7 DEF Placed
  <2>3. q[n + 1] = m /\ \A j \in 1 .. n : q[j] = s.placed[j]
    BY <1>3, <1>5 DEF n
  <2>4. KeepsToDay(plan, q, n + 1)
    <3>1. day.start <= at /\ at + cycle <= day.end
      BY <1>2, <1>3, <1>5, <1>6, <1>7, <1>12
    <3>2. \A j \in 1 .. (n + 1) - 1 : q[j].day = i => q[j].end <= at
      <4>1. ASSUME NEW j \in 1 .. (n + 1) - 1, q[j].day = i PROVE q[j].end <= at
        <5>1. j \in DOMAIN s.placed /\ q[j] = s.placed[j]
          BY <1>5, <2>3
        <5>2. s.placed[j].end <= s.cursor /\ s.placed[j].end \in Nat
          BY <1>2, <1>9, <4>1, <5>1
        <5> QED BY <1>3, <1>6, <5>1, <5>2
      <4> QED BY <4>1
    <3>3. \A b \in ToSet(day.breaks) : b.end <= at \/ at + buffer <= b.start
      BY <1>8, <1>12
    <3> HIDE DEF q
    <3> QED BY <2>3, <3>1, <3>2, <3>3 DEF KeepsToDay, day, buffer
  <2>5. /\ PlacedOk(plan, q) /\ Len(q) = n + 1
        /\ \A k \in DOMAIN q : (k \in DOMAIN s.placed /\ q[k] = s.placed[k]) \/ (k = n + 1 /\ q[k] = m)
    <3> DEFINE r == s.placed
    <3>1. PlacedOk(plan, r) /\ KeepsToDay(plan, Append(r, m), Len(r) + 1)
      BY <1>2, <2>4 DEF n
    <3>2. m.day \in DOMAIN plan.days
      BY <2>2
    <3> HIDE DEF r, m
    <3>3. /\ PlacedOk(plan, Append(r, m)) /\ Len(Append(r, m)) = Len(r) + 1
          /\ \A k \in DOMAIN Append(r, m) :
               \/ k \in DOMAIN r /\ Append(r, m)[k] = r[k]
               \/ k = Len(r) + 1 /\ Append(r, m)[k] = m
      BY <2>2, <3>1, <3>2, OneMorePlaced
    <3> QED BY <3>3 DEF r, n
  <2>6. m.end = at + cycle /\ at + cycle \in Nat /\ s.cursor <= at + cycle
    BY <1>3, <1>6, <1>7
  <2> HIDE DEF q, m
  <2>7. \A k \in DOMAIN q : q[k].day <= i /\ (q[k].day = i => q[k].end <= at + cycle)
    <3>1. ASSUME NEW k \in DOMAIN q
          PROVE  q[k].day <= i /\ (q[k].day = i => q[k].end <= at + cycle)
      <4>1. CASE k \in DOMAIN s.placed /\ q[k] = s.placed[k]
        BY <1>2, <1>3, <1>9, <2>6, <4>1
      <4>2. CASE q[k] = m
        BY <1>5, <2>2, <2>6, <4>2
      <4> QED BY <2>5, <4>1, <4>2
    <3> QED BY <3>1
  <2>8. w \in Walks /\ Len(q) + w.left <= limit /\ day.start <= w.cursor
    <3>1. q \in Seq(Placed) /\ s.left - 1 \in Nat
      BY <1>3, <1>12, <2>5 DEF PlacedOk
    <3> QED BY <1>2, <1>3, <1>5, <2>5, <2>6, <3>1 DEF Walks
  <2>9. w \in InDay(plan, i, limit)
    BY <2>5, <2>7, <2>8 DEF InDay, day
  <2> QED BY <2>1, <2>9 DEF day
<1>13. CASE s.left = 0
  BY <1>4, <1>13 DEF day
<1> QED BY <1>10, <1>11, <1>12, <1>13

IsFilling(f, plan, i, placed, left) ==
  LET day == DayKeys(plan.days[i])
  IN  f = [n \in 0 .. left + Len(day.breaks) |->
             IF n = 0 THEN [cursor |-> day.start, placed |-> placed, left |-> left]
             ELSE Turn(plan, i, day, f[n - 1])]

\* Only the days before the i-th have matches.
Before(placed, i) == \A k \in DOMAIN placed : placed[k].day < i

LEMMA FillDayKeeps ==
  ASSUME NEW plan \in PlansV1, Readable(plan), NEW i \in DOMAIN plan.days, NEW limit \in Nat,
         NEW left \in Nat, NEW placed, PlacedOk(plan, placed), Before(placed, i),
         Len(placed) + left <= limit
  PROVE  LET p == FillDay(plan, i, placed, left)
         IN  PlacedOk(plan, p) /\ Before(p, i + 1) /\ Len(p) <= limit
<1> DEFINE day == DayKeys(plan.days[i])
           T == InDay(plan, i, limit)
           n == left + Len(day.breaks)
           base == [cursor |-> day.start, placed |-> placed, left |-> left]
           step == [x \in (1 .. n) \X T |-> Turn(plan, i, day, x[2])]
<1>1. day \in GoodDays
  BY DayKeysIs
<1>2. day.start \in Nat /\ n \in Nat
  <2>1. day \in DaysV1
    BY <1>1 DEF GoodDays
  <2> HIDE DEF day
  <2>2. day.start \in Nat /\ day.breaks \in Seq(BreaksV1)
    BY <2>1 DEF DaysV1
  <2> QED BY <2>2
<1>3. i \in Nat
  <2>1. plan.days \in Seq(DaysV1)
    BY DEF PlansV1
  <2> QED BY <2>1
<1>4. placed \in Seq(Placed) /\ \A k \in DOMAIN placed : placed[k].day \in Nat /\ placed[k].day < i
  <2>1. placed \in Seq(Placed)
    BY DEF PlacedOk
  <2>2. \A k \in DOMAIN placed : placed[k] \in Placed
    BY <2>1
  <2> QED BY <2>1, <2>2 DEF Placed, Before
<1>5. base \in T
  <2> HIDE DEF day
  <2>1. base \in Walks
    BY <1>2, <1>4 DEF Walks
  <2>2. \A k \in DOMAIN placed : placed[k].day <= i /\ placed[k].day # i
    BY <1>3, <1>4
  <2> QED BY <1>2, <2>1, <2>2 DEF InDay, day
<1>6. \A s \in T : Turn(plan, i, day, s) \in T
  <2> HIDE DEF T
  <2> QED BY TurnKeeps DEF T
<1>7. step \in [(1 .. n) \X T -> T]
  <2> HIDE DEF T, n, day
  <2> QED BY <1>6
<1> HIDE DEF T, n, base
<1>8. PICK f \in [0 .. n -> T] : IsRun(f, n, base, step)
  <2> HIDE DEF step
  <2> QED BY <1>2, <1>5, <1>7, RunExists
<1>9. IsFilling(f, plan, i, placed, left)
  <2> HIDE DEF day
  <2>1. ASSUME NEW k \in 0 .. n, k # 0
        PROVE  step[<<k, f[k - 1]>>] = Turn(plan, i, day, f[k - 1])
    <3>1. k \in 1 .. n /\ k - 1 \in 0 .. n
      BY <1>2, <2>1
    <3>2. f[k - 1] \in T
      BY <3>1
    <3> QED BY <3>1, <3>2
  <2> HIDE DEF step
  <2>2. f = [k \in 0 .. n |-> IF k = 0 THEN base ELSE Turn(plan, i, day, f[k - 1])]
    BY <2>1, <1>8 DEF IsRun
  <2> QED BY <2>2 DEF IsFilling, day, n, base
<1> DEFINE c == CHOOSE g : IsFilling(g, plan, i, placed, left)
<1>10. IsFilling(c, plan, i, placed, left) /\ FillDay(plan, i, placed, left) = c[n].placed
  BY <1>9 DEF FillDay, IsFilling, n, day
<1> HIDE DEF c, step
<1>11. c[0] = base /\ \A k \in 1 .. n : c[k] = Turn(plan, i, day, c[k - 1])
  <2>1. c = [k \in 0 .. n |-> IF k = 0 THEN base ELSE Turn(plan, i, day, c[k - 1])]
    BY <1>10 DEF IsFilling, n, base, day
  <2>2. 0 \in 0 .. n /\ \A k \in 1 .. n : k \in 0 .. n /\ k # 0
    BY <1>2
  <2> HIDE DEF day
  <2> QED BY <2>1, <2>2
<1> DEFINE P == {k \in 0 .. n : c[k] \in T}
<1> HIDE DEF day
<1>12. 0 \in P
  BY <1>2, <1>5, <1>11
<1>13. ASSUME NEW k \in 0 .. n - 1, k \in P PROVE k + 1 \in P
  <2>1. k + 1 \in 1 .. n /\ (k + 1) - 1 = k /\ k + 1 \in 0 .. n
    BY <1>2, <1>13
  <2>2. c[k + 1] = Turn(plan, i, day, c[k]) /\ c[k] \in T
    BY <1>11, <1>13, <2>1
  <2> QED BY <1>6, <2>1, <2>2
<1>14. \A k \in 0 .. n : k \in P
  <2> HIDE DEF P
  <2> QED BY <1>2, <1>12, <1>13, UpToByStep
<1>15. c[n] \in T
  <2>1. n \in 0 .. n
    BY <1>2
  <2> QED BY <1>14, <2>1
<1>16. /\ PlacedOk(plan, c[n].placed) /\ Len(c[n].placed) + c[n].left <= limit
       /\ \A k \in DOMAIN c[n].placed : c[n].placed[k].day <= i
       /\ c[n].placed \in Seq(Placed) /\ c[n].left \in Nat
  BY <1>15 DEF T, InDay, Walks
<1> DEFINE p == c[n].placed
<1>17. Before(p, i + 1)
  <2>1. \A k \in DOMAIN p : p[k].day \in Nat /\ p[k].day <= i
    <3>1. \A k \in DOMAIN p : p[k] \in Placed
      BY <1>16
    <3> QED BY <1>16, <3>1 DEF Placed
  <2> HIDE DEF p
  <2> QED BY <1>3, <2>1 DEF Before
<1>18. Len(p) <= limit
  <2>1. Len(p) \in Nat
    BY <1>16
  <2> QED BY <1>16, <2>1
<1> QED BY <1>10, <1>16, <1>17, <1>18

\* What the next day adds to the walk.
DayAfter(plan, i, placed, matches) ==
  LET left == matches - Len(placed)
      early == DayKeys(plan.days[i]).earlyEnd
  IN  FillDay(plan, i, placed, IF early # 0 /\ early < left THEN early ELSE left)
IsWalking(f, plan, matches) ==
  f = [i \in 0 .. Len(plan.days) |->
         IF i = 0 THEN <<>> ELSE DayAfter(plan, i, f[i - 1], matches)]
Walked(plan, matches) == {p \in Seq(Placed) : PlacedOk(plan, p) /\ Len(p) <= matches}

LEMMA DayAfterKeeps ==
  ASSUME NEW plan \in PlansV1, Readable(plan), NEW i \in DOMAIN plan.days, NEW matches \in Nat,
         NEW placed \in Walked(plan, matches), Before(placed, i)
  PROVE  LET p == DayAfter(plan, i, placed, matches)
         IN  p \in Walked(plan, matches) /\ Before(p, i + 1)
<1> DEFINE room == matches - Len(placed)
           early == DayKeys(plan.days[i]).earlyEnd
           left == IF early # 0 /\ early < room THEN early ELSE room
           p == FillDay(plan, i, placed, left)
<1>1. PlacedOk(plan, placed) /\ Len(placed) <= matches /\ Len(placed) \in Nat
  BY DEF Walked
<1>2. early \in Nat
  <2>1. DayKeys(plan.days[i]) \in DaysV1
    BY DayKeysIs DEF GoodDays
  <2> QED BY <2>1 DEF DaysV1
<1>3. DayAfter(plan, i, placed, matches) = p
  BY DEF DayAfter
<1> HIDE DEF early
<1>4. left \in Nat /\ Len(placed) + left <= matches
  BY <1>1, <1>2
<1> HIDE DEF left
<1>5. PlacedOk(plan, p) /\ Before(p, i + 1) /\ Len(p) <= matches
  BY <1>1, <1>4, FillDayKeeps
<1>6. p \in Seq(Placed)
  BY <1>5 DEF PlacedOk
<1> QED BY <1>3, <1>5, <1>6 DEF Walked

LEMMA WalkIs ==
  ASSUME NEW plan \in PlansV1, Readable(plan), NEW matches \in Nat
  PROVE  PlacedOk(plan, PlacedOn(plan, matches))
<1> DEFINE n == Len(plan.days)
           T == Walked(plan, matches)
           none == <<>>
           step == [x \in (1 .. n) \X T |->
                      IF Before(x[2], x[1]) THEN DayAfter(plan, x[1], x[2], matches) ELSE x[2]]
<1>1. n \in Nat /\ DOMAIN plan.days = 1 .. n
  <2>1. plan.days \in Seq(DaysV1)
    BY DEF PlansV1
  <2> QED BY <2>1
<1>2. none \in T /\ Before(none, 1)
  BY DEF Walked, PlacedOk, Before
<1> HIDE DEF n, T, none
<1>3. ASSUME NEW i \in 1 .. n, NEW p \in T, Before(p, i)
      PROVE  DayAfter(plan, i, p, matches) \in T /\ Before(DayAfter(plan, i, p, matches), i + 1)
  <2>1. i \in DOMAIN plan.days
    BY <1>1
  <2> QED BY <1>3, <2>1, DayAfterKeeps DEF T
<1>4. step \in [(1 .. n) \X T -> T]
  BY <1>3
<1>5. PICK f \in [0 .. n -> T] : IsRun(f, n, none, step)
  <2> HIDE DEF step
  <2> QED BY <1>1, <1>2, <1>4, RunExists
<1>6. f[0] = none /\ \A k \in 1 .. n : f[k] = step[<<k, f[k - 1]>>]
  <2>1. 0 \in 0 .. n /\ \A k \in 1 .. n : k \in 0 .. n /\ k # 0
    BY <1>1
  <2> HIDE DEF step
  <2> QED BY <1>5, <2>1 DEF IsRun
<1>7. ASSUME NEW k \in 1 .. n, Before(f[k - 1], k)
      PROVE  f[k] = DayAfter(plan, k, f[k - 1], matches) /\ f[k - 1] \in T
  <2>1. k - 1 \in 0 .. n
    BY <1>1
  <2>2. f[k - 1] \in T
    BY <2>1
  <2>3. step[<<k, f[k - 1]>>] = DayAfter(plan, k, f[k - 1], matches)
    BY <1>7, <2>2
  <2> QED BY <1>6, <2>2, <2>3
<1> HIDE DEF step
<1> DEFINE P == {k \in 0 .. n : Before(f[k], k + 1)}
<1>8. 0 \in P
  BY <1>1, <1>2, <1>6
<1>9. ASSUME NEW k \in 0 .. n - 1, k \in P PROVE k + 1 \in P
  <2>1. k + 1 \in 1 .. n /\ (k + 1) - 1 = k /\ k + 1 \in 0 .. n
    BY <1>1, <1>9
  <2>2. Before(f[k], k + 1)
    BY <1>9
  <2>3. f[k + 1] = DayAfter(plan, k + 1, f[k], matches) /\ f[k] \in T
    BY <1>7, <2>1, <2>2
  <2>4. Before(f[k + 1], (k + 1) + 1)
    BY <1>3, <2>1, <2>2, <2>3
  <2> QED BY <2>1, <2>4
<1>10. \A k \in 0 .. n : k \in P
  <2> HIDE DEF P
  <2> QED BY <1>1, <1>8, <1>9, UpToByStep
<1>11. IsWalking(f, plan, matches)
  <2>1. ASSUME NEW k \in 1 .. n PROVE f[k] = DayAfter(plan, k, f[k - 1], matches)
    <3>1. k - 1 \in 0 .. n /\ (k - 1) + 1 = k
      BY <1>1
    <3>2. Before(f[k - 1], k)
      BY <1>10, <3>1
    <3> QED BY <1>7, <3>2
  <2>2. f = [k \in 0 .. n |-> f[k]]
    BY <1>5
  <2>3. \A k \in 0 .. n : f[k] = IF k = 0 THEN none ELSE DayAfter(plan, k, f[k - 1], matches)
    <3>1. \A k \in 0 .. n : k = 0 \/ k \in 1 .. n
      BY <1>1
    <3> QED BY <1>6, <2>1, <3>1
  <2>4. f = [k \in 0 .. n |-> IF k = 0 THEN none ELSE DayAfter(plan, k, f[k - 1], matches)]
    BY <2>2, <2>3
  <2> QED BY <2>4 DEF IsWalking, n, none
<1> DEFINE c == CHOOSE g : IsWalking(g, plan, matches)
<1>12. IsWalking(c, plan, matches) /\ PlacedOn(plan, matches) = c[n]
  BY <1>11 DEF PlacedOn, IsWalking, DayAfter, n
<1> HIDE DEF c
<1>13. c[0] = none /\ \A k \in 1 .. n : c[k] = DayAfter(plan, k, c[k - 1], matches)
  <2>1. c = [k \in 0 .. n |-> IF k = 0 THEN none ELSE DayAfter(plan, k, c[k - 1], matches)]
    BY <1>12 DEF IsWalking, n, none
  <2>2. 0 \in 0 .. n /\ \A k \in 1 .. n : k \in 0 .. n /\ k # 0
    BY <1>1
  <2> QED BY <2>1, <2>2
<1> HIDE DEF P
<1> DEFINE Q == {k \in 0 .. n : c[k] \in T /\ Before(c[k], k + 1)}
<1>14. 0 \in Q
  BY <1>1, <1>2, <1>13
<1>15. ASSUME NEW k \in 0 .. n - 1, k \in Q PROVE k + 1 \in Q
  <2>1. k + 1 \in 1 .. n /\ (k + 1) - 1 = k /\ k + 1 \in 0 .. n
    BY <1>1, <1>15
  <2>2. c[k] \in T /\ Before(c[k], k + 1) /\ c[k + 1] = DayAfter(plan, k + 1, c[k], matches)
    BY <1>13, <1>15, <2>1
  <2>3. c[k + 1] \in T /\ Before(c[k + 1], (k + 1) + 1)
    BY <1>3, <2>1, <2>2
  <2> QED BY <2>1, <2>3
<1>16. \A k \in 0 .. n : k \in Q
  <2> HIDE DEF Q
  <2> QED BY <1>1, <1>14, <1>15, UpToByStep
<1>17. c[n] \in T
  <2>1. n \in 0 .. n
    BY <1>1
  <2> QED BY <1>16, <2>1
<1> QED BY <1>12, <1>17 DEF T, Walked

\* What is simulated is a V1 plan whose breaks end after they start: an old
\* plan's days, and days that give nothing for a plan of the other shape.
LEMMA SimulatedIs ==
  ASSUME NEW plan \in Stored, plan # NoPlan
  PROVE  Simulated(plan) \in PlansV1 /\ Readable(Simulated(plan))
<1> DEFINE days == IF plan.v = 1 THEN plan.days ELSE [i \in DOMAIN plan.days |-> EmptyDay]
           shown == IF days = <<>> THEN <<EmptyDay>> ELSE days
           none == <<>>
           T == {d \in DaysV1 : \A b \in ToSet(d.breaks) : Forward(b)}
<1>1. EmptyDay \in T
  <2>1. EmptyDay.breaks = none /\ ToSet(none) = {}
    BY DEF EmptyDay, ToSet
  <2>2. none \in Seq(ChangesV1) /\ none \in Seq(BreaksV1)
    OBVIOUS
  <2>3. EmptyDay = [start |-> 0, end |-> 0, ct |-> 0, changes |-> none, earlyEnd |-> 0, breaks |-> none]
    BY DEF EmptyDay
  <2> HIDE DEF none
  <2>4. EmptyDay \in DaysV1
    BY <2>2, <2>3 DEF DaysV1
  <2> QED BY <2>1, <2>4
<1>2. plan.ct \in Nat /\ plan.buffer \in Nat
  BY Disjoint DEF PlansV1, PlansV2
<1>3. days \in Seq(T)
  <2>1. CASE plan \in OldPlans
    <3>1. plan \in PlansV1 /\ WellTimed(plan) /\ plan.v = 1
      BY <2>1, Disjoint
    <3>2. plan.days \in Seq(DaysV1) /\ days = plan.days
      BY <3>1 DEF PlansV1
    <3>3. \A i \in DOMAIN plan.days : plan.days[i] \in T
      BY <3>1, <3>2 DEF WellTimed
    <3> DEFINE p == plan.days
    <3>4. \A d \in ToSet(p) : d \in T
      BY <3>3 DEF ToSet
    <3> HIDE DEF p, T
    <3>5. p \in Seq(T)
      BY <3>2, <3>4, SeqWithin DEF p
    <3> QED BY <3>2, <3>5 DEF p
  <2>2. CASE plan \in GoodV2
    <3>1. plan \in PlansV2 /\ plan.v = 2
      BY <2>2, Disjoint
    <3>2. plan.days \in Seq(Seq(BlocksV2))
      BY <3>1 DEF PlansV2
    <3> DEFINE p == plan.days
               m == [i \in DOMAIN p |-> EmptyDay]
    <3>3. days = m /\ p \in Seq(Seq(BlocksV2))
      BY <3>1, <3>2
    <3> HIDE DEF T, p, days
    <3>4. m \in [DOMAIN p -> T]
      BY <1>1
    <3> HIDE DEF m
    <3>5. m \in Seq(T)
      BY <3>3, <3>4, FunctionIsSeq
    <3> QED BY <3>3, <3>5
  <2> HIDE DEF days
  <2> QED BY <2>1, <2>2, Disjoint
<1>4. shown \in Seq(T)
  <2> HIDE DEF days, T
  <2> QED BY <1>1, <1>3
<1>5. Simulated(plan) = [v |-> 1, ct |-> plan.ct, buffer |-> plan.buffer, practice |-> NoPractice,
                         playoffs |-> none, days |-> shown]
  BY DEF Simulated
<1>6. none \in Seq(PlayoffsV1)
  OBVIOUS
<1> HIDE DEF days, shown, none
<1>7. shown \in Seq(DaysV1) /\ \A i \in DOMAIN shown : shown[i] \in T
  <2>1. \A d \in ToSet(shown) : d \in T
    <3> HIDE DEF T
    <3> QED BY <1>4, InRange
  <2>2. \A d \in ToSet(shown) : d \in DaysV1
    BY <2>1
  <2>3. shown \in Seq(DaysV1)
    <3> HIDE DEF T
    <3> QED BY <1>4, <2>2, SeqWithin
  <2> QED BY <2>1, <2>3 DEF ToSet
<1>8. Simulated(plan) \in PlansV1
  BY <1>2, <1>5, <1>6, <1>7 DEF PlansV1
<1>9. Readable(Simulated(plan))
  BY <1>5, <1>7 DEF Readable
<1> QED BY <1>8, <1>9

LEMMA ShapedKeepsToTheDay == Shaped => MatchesKeepToTheDay
<1>0. \A plan : Buffer(Simulated(plan)) = Buffer(plan)
  BY DEF Buffer, Simulated
<1> SUFFICES ASSUME Shaped, NEW r \in Rows, rows[r] # NoPlan,
                    NEW k \in DOMAIN ComputeScheduledStarts(rows[r], Matches)
             PROVE  KeepsToDay(Simulated(rows[r]), ComputeScheduledStarts(rows[r], Matches), k)
  BY <1>0 DEF MatchesKeepToTheDay, KeepsToDay
<1> DEFINE plan == Simulated(rows[r])
           placed == PlacedOn(plan, Matches)
<1>1. plan \in PlansV1 /\ Readable(plan)
  <2> DEFINE row == rows[r]
  <2>1. row \in Stored /\ row # NoPlan
    BY DEF Shaped
  <2> HIDE DEF row
  <2> QED BY <2>1, SimulatedIs DEF row
<1>2. Matches \in Nat
  BY PlansAssumption
<1>3. ComputeScheduledStarts(rows[r], Matches) = placed
  BY DEF ComputeScheduledStarts
<1> HIDE DEF plan
<1>4. PlacedOk(plan, placed)
  BY <1>1, <1>2, WalkIs
<1>5. k \in DOMAIN placed
  BY <1>3
<1> HIDE DEF placed
<1>6. KeepsToDay(plan, placed, k)
  BY <1>4, <1>5 DEF PlacedOk
<1> QED BY <1>3, <1>6 DEF plan

\* The matches of one calendar day that a plan was guessed from fit in it, and a
\* simulation keeps its matches to the days it reads from the plan, clear of their
\* breaks and of each other: the days of a V1 plan, or for a V2 plan days of the
\* default hours (derive_parameters, _compute_scheduled_starts), whatever was
\* saved, restored and migrated before.
THEOREM MatchesFitTheirDays == Spec => []ClocksHoldTheMatches
<1>1. Shaped /\ Kept => ClocksHoldTheMatches
  BY KeptHoldsMatches, ShapedKeepsToTheDay DEF ClocksHoldTheMatches
<1> QED BY <1>1, PlansInvariant, PTL

-----------------------------------------------------------------------------
\* The view of a V2 plan in V1 shape.
IsRunOf(f, n, base, step) == f[0] = base /\ \A k \in 1 .. n : f[k] = step[<<k, f[k - 1]>>]

LEMMA RunIs ==
  ASSUME NEW T, NEW n \in Nat, NEW base \in T, NEW step \in [(1 .. n) \X T -> T]
  PROVE  /\ \E f : IsRun(f, n, base, step)
         /\ \A f : IsRun(f, n, base, step) =>
              /\ f \in [0 .. n -> T] /\ IsRunOf(f, n, base, step)
<1>1. PICK g \in [0 .. n -> T] : IsRun(g, n, base, step)
  BY RunExists
<1>2. ASSUME NEW f, IsRun(f, n, base, step)
      PROVE  f \in [0 .. n -> T] /\ IsRunOf(f, n, base, step)
  <2>1. DOMAIN f = 0 .. n /\ f[0] = base /\ \A k \in 1 .. n : f[k] = step[<<k, f[k - 1]>>]
    <3>1. \A k \in 1 .. n : k \in 0 .. n /\ k # 0
      OBVIOUS
    <3>2. 0 \in 0 .. n
      OBVIOUS
    <3> QED BY <1>2, <3>1, <3>2 DEF IsRun
  <2> DEFINE P == {k \in 0 .. n : f[k] \in T}
  <2>2. 0 \in P
    BY <2>1
  <2>3. ASSUME NEW k \in 0 .. n - 1, k \in P PROVE k + 1 \in P
    <3>1. k + 1 \in 1 .. n /\ k + 1 \in 0 .. n /\ (k + 1) - 1 = k /\ f[k] \in T
      BY <2>3
    <3>2. f[k + 1] = step[<<k + 1, f[k]>>]
      BY <2>1, <3>1
    <3> QED BY <3>1, <3>2
  <2>4. \A k \in 0 .. n : k \in P
    <3> HIDE DEF P
    <3> QED BY <2>2, <2>3, UpToByStep
  <2>5. f = [k \in 0 .. n |-> f[k]]
    BY <1>2 DEF IsRun
  <2> QED BY <2>1, <2>4, <2>5 DEF IsRunOf
<1> QED BY <1>1, <1>2

IsFlattening(f, seqs) == f = [i \in 1 .. Len(seqs) |-> IF i = 1 THEN seqs[i] ELSE f[i - 1] \o seqs[i]]

LEMMA FlattenIs ==
  ASSUME NEW T, NEW seqs \in Seq(Seq(T))
  PROVE  /\ FlattenSeq(seqs) \in Seq(T)
         /\ ToSet(FlattenSeq(seqs)) = UNION {ToSet(seqs[k]) : k \in DOMAIN seqs}
<1> DEFINE n == Len(seqs)
<1>1. n \in Nat /\ DOMAIN seqs = 1 .. n /\ \A k \in 1 .. n : seqs[k] \in Seq(T)
  OBVIOUS
<1>2. CASE n = 0
  <2>1. FlattenSeq(seqs) = seqs /\ seqs = <<>>
    BY <1>2 DEF FlattenSeq
  <2> QED BY <2>1 DEF ToSet
<1>3. CASE n # 0
  <2> DEFINE step == [x \in (1 .. n - 1) \X Seq(T) |-> x[2] \o seqs[x[1] + 1]]
             base == seqs[1]
             m == n - 1
  <2>1. m \in Nat /\ base \in Seq(T) /\ step \in [(1 .. m) \X Seq(T) -> Seq(T)]
    <3>1. \A k \in 1 .. n - 1 : k + 1 \in 1 .. n
      BY <1>1
    <3>2. \A k \in 1 .. n - 1 : \A x \in Seq(T) : x \o seqs[k + 1] \in Seq(T)
      BY <1>1, <3>1
    <3> QED BY <1>1, <1>3, <3>2
  <2>2. PICK g \in [0 .. m -> Seq(T)] : IsRunOf(g, m, base, step)
    <3> HIDE DEF m, base, step
    <3> QED BY <2>1, RunIs
  <2> DEFINE h == [i \in 1 .. n |-> g[i - 1]]
  <2>3. IsFlattening(h, seqs)
    <3>1. ASSUME NEW i \in 1 .. n PROVE h[i] = IF i = 1 THEN seqs[i] ELSE h[i - 1] \o seqs[i]
      <4>1. CASE i = 1
        BY <2>2, <4>1, <1>1 DEF IsRunOf
      <4>2. CASE i # 1
        <5>1. i - 1 \in 1 .. m /\ (i - 1) + 1 = i /\ i - 1 \in 1 .. n /\ (i - 1) - 1 \in 0 .. m
          BY <1>1, <4>2
        <5>2. g[i - 1] = step[<<i - 1, g[(i - 1) - 1]>>]
          BY <2>2, <5>1 DEF IsRunOf
        <5>3. g[(i - 1) - 1] \in Seq(T)
          BY <2>2, <5>1
        <5>4. step[<<i - 1, g[(i - 1) - 1]>>] = g[(i - 1) - 1] \o seqs[i]
          BY <5>1, <5>3
        <5> QED BY <4>2, <5>1, <5>2, <5>4
      <4> QED BY <4>1, <4>2
    <3> HIDE DEF h
    <3>2. h = [i \in 1 .. n |-> h[i]]
      BY DEF h
    <3> QED BY <3>1, <3>2 DEF IsFlattening
  <2> DEFINE f == CHOOSE h1 : IsFlattening(h1, seqs)
  <2>4. IsFlattening(f, seqs) /\ FlattenSeq(seqs) = f[n]
    <3>1. IsFlattening(f, seqs)
      BY <2>3
    <3>2. FlattenSeq(seqs) = f[n]
      BY <1>3 DEF FlattenSeq, IsFlattening
    <3> QED BY <3>1, <3>2
  <2> HIDE DEF f
  <2>5. f[1] = seqs[1] /\ \A k \in 2 .. n : f[k] = f[k - 1] \o seqs[k]
    <3>1. \A k \in 2 .. n : k \in 1 .. n /\ k # 1
      BY <1>1
    <3>2. 1 \in 1 .. n
      BY <1>1, <1>3
    <3> QED BY <2>4, <3>1, <3>2 DEF IsFlattening
  <2> DEFINE P == {k \in 0 .. m : f[k + 1] \in Seq(T)
                      /\ ToSet(f[k + 1]) = UNION {ToSet(seqs[j]) : j \in 1 .. k + 1}}
  <2>6. 0 \in P
    <3>1. {ToSet(seqs[j]) : j \in 1 .. 0 + 1} = {ToSet(seqs[1])}
      <4>1. 1 .. 0 + 1 = {1}
        OBVIOUS
      <4> QED BY <4>1
    <3>2. 0 + 1 = 1 /\ 0 \in 0 .. m /\ f[0 + 1] \in Seq(T)
      BY <2>1, <2>5
    <3> QED BY <2>5, <3>1, <3>2
  <2>7. ASSUME NEW k \in 0 .. m - 1, k \in P PROVE k + 1 \in P
    <3> DEFINE j == k + 1
    <3>1. /\ j \in 0 .. m /\ j + 1 \in 2 .. n /\ j + 1 \in 1 .. n /\ (j + 1) - 1 = j
          /\ 1 .. j + 1 = (1 .. j) \cup {j + 1}
      BY <1>1, <2>1, <2>7, SMTT(30)
    <3>2. f[j] \in Seq(T) /\ ToSet(f[j]) = UNION {ToSet(seqs[i]) : i \in 1 .. j}
      BY <2>7
    <3>3. seqs[j + 1] \in Seq(T) /\ f[j + 1] = f[j] \o seqs[j + 1]
      BY <1>1, <2>5, <3>1
    <3> HIDE DEF j
    <3>4. f[j + 1] \in Seq(T) /\ ToSet(f[j + 1]) = ToSet(f[j]) \cup ToSet(seqs[j + 1])
      BY <3>2, <3>3, ConcatIs
    <3>5. UNION {ToSet(seqs[i]) : i \in 1 .. j + 1}
            = (UNION {ToSet(seqs[i]) : i \in 1 .. j}) \cup ToSet(seqs[j + 1])
      <4>1. \A i : i \in 1 .. j + 1 <=> i \in 1 .. j \/ i = j + 1
        BY <3>1
      <4> QED BY <4>1
    <3>6. /\ f[j + 1] \in Seq(T)
          /\ ToSet(f[j + 1]) = UNION {ToSet(seqs[i]) : i \in 1 .. j + 1}
      BY <3>2, <3>4, <3>5
    <3>7. j \in P
      BY <3>1, <3>6
    <3> QED BY <3>7 DEF j
  <2>8. \A k \in 0 .. m : k \in P
    <3> HIDE DEF P, m
    <3> QED BY <2>1, <2>6, <2>7, UpToByStep
  <2>9. m \in P /\ m + 1 = n
    <3>1. m \in 0 .. m /\ m + 1 = n
      BY <1>1, <2>1
    <3> HIDE DEF P, m
    <3> QED BY <2>8, <3>1
  <2>10. f[n] \in Seq(T) /\ ToSet(f[n]) = UNION {ToSet(seqs[k]) : k \in 1 .. n}
    BY <2>9
  <2> QED BY <1>1, <2>4, <2>10
<1> QED BY <1>2, <1>3

IsOffset(f, blocks, k, base) ==
  f = [i \in 0 .. k - 1 |-> IF i = 0 THEN base ELSE f[i - 1] + Room(blocks[i])]

LEMMA OffsetIsNat ==
  ASSUME NEW blocks \in Seq(BlocksV2), \A b \in ToSet(blocks) : WindowOk(b),
         NEW base \in Nat, NEW k \in 1 .. Len(blocks) + 1
  PROVE  OffsetAt(blocks, k, base) \in Nat
<1> DEFINE n == k - 1
           step == [x \in (1 .. n) \X Nat |-> x[2] + Room(blocks[x[1]])]
<1>1. n \in Nat /\ \A i \in 1 .. n : i \in DOMAIN blocks
  OBVIOUS
<1>2. ASSUME NEW i \in 1 .. n PROVE Room(blocks[i]) \in Nat
  <2>1. blocks[i] \in BlocksV2 /\ blocks[i] \in ToSet(blocks)
    BY <1>1, InRange
  <2>2. /\ blocks[i].start \in Nat /\ blocks[i].end \in Nat /\ blocks[i].ct \in Nat
        /\ blocks[i].start < blocks[i].end
    BY <2>1 DEF WindowOk, BlocksV2
  <2> DEFINE room == blocks[i].end - blocks[i].start
             ct == OrElse(blocks[i].ct, DefaultCycle)
  <2>3. room \in Nat /\ ct \in Nat /\ ct > 0
    BY <2>2, CyclesAssumption, SMTT(30) DEF OrElse
  <2>4. room \div ct \in Nat
    <3> HIDE DEF room, ct
    <3> QED BY <2>3
  <2> QED BY <2>4 DEF Room
<1>3. step \in [(1 .. n) \X Nat -> Nat]
  BY <1>2
<1>4. /\ \E f : IsRun(f, n, base, step)
      /\ \A f : IsRun(f, n, base, step) => f \in [0 .. n -> Nat]
  <2> HIDE DEF n, step
  <2> QED BY <1>1, <1>3, RunIs
<1>5. ASSUME NEW f, f \in [0 .. n -> Nat] PROVE IsRun(f, n, base, step) <=> IsOffset(f, blocks, k, base)
  <2>1. \A i \in 0 .. n : i # 0 => i \in 1 .. n /\ i - 1 \in 0 .. n
    BY <1>1
  <2>2. \A i \in 0 .. n : i # 0 => step[<<i, f[i - 1]>>] = f[i - 1] + Room(blocks[i])
    BY <1>5, <2>1
  <2> HIDE DEF step
  <2> QED BY <2>2 DEF IsRun, IsOffset
<1>6. ASSUME NEW f, IsOffset(f, blocks, k, base) PROVE f \in [0 .. n -> Nat]
  <2>1. 0 \in 0 .. n /\ \A i \in 0 .. n : i # 0 => i \in 1 .. n
    BY <1>1
  <2>2. f[0] = base /\ \A i \in 1 .. n : f[i] = f[i - 1] + Room(blocks[i])
    BY <1>1, <1>6 DEF IsOffset
  <2> DEFINE P == {i \in 0 .. n : f[i] \in Nat}
  <2>3. 0 \in P
    BY <2>1, <2>2
  <2>4. ASSUME NEW i \in 0 .. n - 1, i \in P PROVE i + 1 \in P
    <3> DEFINE j == i + 1
    <3>1. j \in 1 .. n /\ j \in 0 .. n /\ j - 1 = i /\ f[i] \in Nat
      BY <1>1, <2>4
    <3> HIDE DEF j
    <3>2. f[j] = f[j - 1] + Room(blocks[j])
      BY <2>2, <3>1
    <3>3. f[j] \in Nat
      BY <1>2, <3>1, <3>2
    <3> QED BY <3>1, <3>3 DEF j
  <2>5. \A i \in 0 .. n : i \in P
    <3> HIDE DEF P, n
    <3> QED BY <1>1, <2>3, <2>4, UpToByStep
  <2>6. f = [i \in 0 .. n |-> f[i]]
    BY <1>6 DEF IsOffset
  <2> QED BY <2>5, <2>6
<1>7. \E f : IsOffset(f, blocks, k, base)
  BY <1>4, <1>5
<1> DEFINE c == CHOOSE f : IsOffset(f, blocks, k, base)
<1>8. OffsetAt(blocks, k, base) = c[n]
  BY DEF OffsetAt, IsOffset
<1>9. c \in [0 .. n -> Nat]
  <2>1. IsOffset(c, blocks, k, base)
    BY <1>7
  <2> HIDE DEF c, n
  <2> QED BY <1>6, <2>1
<1> QED BY <1>1, <1>8, <1>9

LEMMA OfTypeIs ==
  ASSUME NEW T, NEW s \in Seq(T), NEW types
  PROVE  /\ OfType(s, types) \in Seq(T)
         /\ ToSet(OfType(s, types)) = {b \in ToSet(s) : b.type \in types}
<1> DEFINE I == {k \in DOMAIN s : s[k].type \in types}
<1>1. OfType(s, types) = Picked(s, I)
  BY DEF OfType, Where
<1>2. Picked(s, I) \in Seq(T) /\ ToSet(Picked(s, I)) = {s[i] : i \in I}
  <2>1. I \in SUBSET DOMAIN s
    OBVIOUS
  <2> HIDE DEF I
  <2> QED BY <2>1, PickedIs
<1>3. {s[i] : i \in I} = {b \in ToSet(s) : b.type \in types}
  BY DEF ToSet
<1> QED BY <1>1, <1>2, <1>3

Blocks == BlocksV2 \cup NestedV2
MatchBlocksOf(day) == ByStart(OfType(day, {"practice"}) \o OfType(day, {"qualification"}))

LEMMA BlockFields ==
  ASSUME NEW b \in Blocks
  PROVE  /\ b.type \in Tier2 \cup Tier3 /\ b.start \in Nat /\ b.end \in Nat /\ b.ct \in Nat
         /\ b.kind \in BlockKinds /\ b.name \in Names /\ b.changes \in Seq(ChangesV2)
BY DEF Blocks, BlocksV2, NestedV2

LEMMA MatchBlocksIs ==
  ASSUME NEW day \in Seq(BlocksV2)
  PROVE  /\ MatchBlocksOf(day) \in Seq(BlocksV2) /\ Sorted(MatchBlocksOf(day))
         /\ ToSet(MatchBlocksOf(day)) = {b \in ToSet(day) : b.type \in MatchTypes}
<1> DEFINE p == OfType(day, {"practice"})
           q == OfType(day, {"qualification"})
<1>1. /\ p \in Seq(BlocksV2) /\ ToSet(p) = {b \in ToSet(day) : b.type \in {"practice"}}
      /\ q \in Seq(BlocksV2) /\ ToSet(q) = {b \in ToSet(day) : b.type \in {"qualification"}}
  BY OfTypeIs
<1> HIDE DEF p, q
<1>2. p \o q \in Seq(BlocksV2) /\ ToSet(p \o q) = ToSet(p) \cup ToSet(q)
  BY <1>1, ConcatIs
<1>3. \A x \in BlocksV2 : x.start \in Int
  BY DEF BlocksV2
<1>4. /\ ByStart(p \o q) \in Seq(BlocksV2) /\ Sorted(ByStart(p \o q))
      /\ ToSet(ByStart(p \o q)) = ToSet(p \o q)
  <2> DEFINE s == p \o q
  <2>1. s \in Seq(BlocksV2)
    BY <1>2
  <2> HIDE DEF s
  <2>2. ByStart(s) \in Seq(BlocksV2) /\ Sorted(ByStart(s)) /\ ToSet(ByStart(s)) = ToSet(s)
    BY <1>3, <2>1, ByStartIs
  <2> QED BY <2>2 DEF s
<1>5. ToSet(p) \cup ToSet(q) = {b \in ToSet(day) : b.type \in MatchTypes}
  BY <1>1 DEF MatchTypes
<1> QED BY <1>2, <1>4, <1>5 DEF MatchBlocksOf, p, q

LEMMA V1BreakType ==
  ASSUME NEW b \in Blocks
  PROVE  /\ V1Break(b) \in BreaksV1 /\ V1Break(b).name = BreakName(b)
         /\ V1Break(b).start = b.start /\ V1Break(b).end = b.end
<1>1. b.start \in Nat /\ b.end \in Nat /\ b.name \in Names
  BY BlockFields
<1>2. BreakName(b) \in Names
  BY <1>1 DEF BreakName, Names
<1> QED BY <1>1, <1>2 DEF V1Break, BreaksV1

LEMMA V1BreaksOf ==
  ASSUME NEW s \in Seq(Blocks)
  PROVE  Mapped(V1Break, s) \in Seq(BreaksV1) /\ ToSet(Mapped(V1Break, s)) = {V1Break(b) : b \in ToSet(s)}
<1> DEFINE m == [k \in DOMAIN s |-> V1Break(s[k])]
<1>1. Mapped(V1Break, s) = m
  BY DEF Mapped
<1>2. \A k \in DOMAIN s : m[k] = V1Break(s[k]) /\ V1Break(s[k]) \in BreaksV1
  BY InRange, V1BreakType
<1>3. m \in [DOMAIN s -> BreaksV1]
  BY <1>2
<1> HIDE DEF m
<1>4. m \in Seq(BreaksV1) /\ ToSet(m) = {m[k] : k \in DOMAIN s}
  BY <1>3, FunctionIsSeq DEF ToSet
<1>5. {m[k] : k \in DOMAIN s} = {V1Break(b) : b \in ToSet(s)}
  BY <1>2 DEF ToSet
<1> QED BY <1>1, <1>4, <1>5

LEMMA V1ChangesType ==
  ASSUME NEW b \in Blocks, NEW offset \in Nat
  PROVE  V1Changes(b, offset) \in Seq(ChangesV1)
<1> DEFINE s == b.changes
           I == {k \in DOMAIN s : s[k].after # 0 /\ s[k].time # 0}
           p == Picked(s, I)
           m == [k \in DOMAIN p |-> [isStart |-> FALSE, after |-> p[k].after + offset, time |-> p[k].time]]
<1>1. V1Changes(b, offset) = m
  BY DEF V1Changes, Mapped, Where
<1>2. s \in Seq(ChangesV2)
  BY BlockFields
<1>3. p \in Seq(ChangesV2)
  <2>1. I \in SUBSET DOMAIN s
    OBVIOUS
  <2> HIDE DEF I, s
  <2> QED BY <1>2, <2>1, PickedIs
<1> HIDE DEF p
<1>4. ASSUME NEW k \in DOMAIN p PROVE m[k] \in ChangesV1
  <2>1. p[k] \in ChangesV2
    BY <1>3, InRange
  <2>2. p[k].after \in Nat /\ p[k].time \in Nat
    BY <2>1 DEF ChangesV2
  <2> QED BY <2>2 DEF ChangesV1
<1>5. m \in [DOMAIN p -> ChangesV1]
  BY <1>4
<1> HIDE DEF m
<1>6. m \in Seq(ChangesV1)
  BY <1>3, <1>5, FunctionIsSeq
<1> QED BY <1>1, <1>6

\* Where no break spans the gap after a match block, there is an Idle break.
OpenGap(blocks, breaks, k) ==
  /\ k < Len(blocks) /\ blocks[k].end < blocks[k + 1].start
  /\ \A b \in ToSet(breaks) : ~(b.start <= blocks[k].end /\ b.end >= blocks[k + 1].start)
IdleBreak(blocks, k) == [name |-> "break", start |-> blocks[k].end, end |-> blocks[k + 1].start]

LEMMA IdleGapsIs ==
  ASSUME NEW blocks \in Seq(BlocksV2), NEW breaks
  PROVE  /\ IdleGaps(blocks, breaks) \in Seq(BreaksV1)
         /\ ToSet(IdleGaps(blocks, breaks)) =
              {IdleBreak(blocks, k) : k \in {i \in DOMAIN blocks : OpenGap(blocks, breaks, i)}}
<1> DEFINE s == [k \in DOMAIN blocks |-> k]
           I == {j \in DOMAIN s : LET k == s[j] IN
                   /\ k < Len(blocks) /\ blocks[k].end < blocks[k + 1].start
                   /\ \A b \in ToSet(breaks) :
                        ~(b.start <= blocks[k].end /\ b.end >= blocks[k + 1].start)}
           J == {k \in DOMAIN blocks : OpenGap(blocks, breaks, k)}
           p == Picked(s, J)
           m == [k \in DOMAIN p |-> [name |-> "break", start |-> blocks[p[k]].end,
                                     end |-> blocks[p[k] + 1].start]]
<1>1. I = J
  BY DEF OpenGap
<1>2. IdleGaps(blocks, breaks) =
        [k \in DOMAIN Picked(s, I) |->
           [name |-> "break", start |-> blocks[Picked(s, I)[k]].end,
            end |-> blocks[Picked(s, I)[k] + 1].start]]
  BY DEF IdleGaps, Mapped, Where
<1>3. IdleGaps(blocks, breaks) = m
  BY <1>1, <1>2
<1>4. p \in Seq(DOMAIN blocks) /\ ToSet(p) = J
  <2>1. J \in SUBSET DOMAIN blocks
    OBVIOUS
  <2> HIDE DEF J
  <2> QED BY <2>1, PositionsIs
<1> HIDE DEF p
<1>5. \A k \in DOMAIN p : p[k] \in J /\ m[k] = IdleBreak(blocks, p[k])
  BY <1>4, InRange DEF IdleBreak
<1>6. ASSUME NEW k \in J PROVE IdleBreak(blocks, k) \in BreaksV1
  <2>1. k \in DOMAIN blocks /\ k + 1 \in DOMAIN blocks
    BY DEF OpenGap
  <2>2. blocks[k] \in BlocksV2 /\ blocks[k + 1] \in BlocksV2
    BY <2>1
  <2>3. blocks[k].end \in Nat /\ blocks[k + 1].start \in Nat
    BY <2>2 DEF BlocksV2
  <2> QED BY <2>3 DEF IdleBreak, BreaksV1, Names
<1>7. m \in [DOMAIN p -> BreaksV1]
  BY <1>5, <1>6
<1> HIDE DEF m, J
<1>8. m \in Seq(BreaksV1) /\ ToSet(m) = {m[k] : k \in DOMAIN p}
  BY <1>4, <1>7, FunctionIsSeq DEF ToSet
<1>9. {m[k] : k \in DOMAIN p} = {IdleBreak(blocks, k) : k \in J}
  <2>1. \A k \in J : \E i \in DOMAIN p : p[i] = k
    BY <1>4 DEF ToSet
  <2> QED BY <1>5, <2>1
<1> QED BY <1>3, <1>8, <1>9 DEF J

\* The breaks a regular day has in V1 shape.
LeavesIn(blocks) ==
  (UNION {ToSet(b.breaks) : b \in {x \in blocks : x.type \in MatchTypes}})
    \cup {b \in blocks : b.type \in Tier3}
NestedIn(day) == FlattenSeq([k \in DOMAIN MatchBlocksOf(day) |-> MatchBlocksOf(day)[k].breaks])
FlatOf(day) == Mapped(V1Break, NestedIn(day) \o OfType(day, Tier3))
IdleIn(day) ==
  {IdleBreak(MatchBlocksOf(day), k) :
     k \in {i \in DOMAIN MatchBlocksOf(day) : OpenGap(MatchBlocksOf(day), FlatOf(day), i)}}

LEMMA FlatIs ==
  ASSUME NEW day \in Seq(BlocksV2)
  PROVE  /\ FlatOf(day) \in Seq(BreaksV1)
         /\ ToSet(FlatOf(day)) = {V1Break(c) : c \in LeavesIn(ToSet(day))}
<1> DEFINE mb == MatchBlocksOf(day)
           nested == [k \in DOMAIN mb |-> mb[k].breaks]
           n == NestedIn(day)
           t == OfType(day, Tier3)
           B == ToSet(day)
<1>1. mb \in Seq(BlocksV2) /\ ToSet(mb) = {b \in B : b.type \in MatchTypes}
  BY MatchBlocksIs
<1>2. ASSUME NEW k \in DOMAIN mb PROVE mb[k].breaks \in Seq(Blocks)
  <2>1. mb[k] \in BlocksV2
    BY <1>1, InRange
  <2>2. mb[k].breaks \in Seq(NestedV2)
    BY <2>1 DEF BlocksV2
  <2> QED BY <2>2 DEF Blocks
<1>3. nested \in Seq(Seq(Blocks)) /\ DOMAIN nested = DOMAIN mb
  <2>1. nested \in [DOMAIN mb -> Seq(Blocks)]
    BY <1>2
  <2> HIDE DEF nested, mb
  <2> QED BY <1>1, <2>1, FunctionIsSeq
<1>4. n \in Seq(Blocks) /\ ToSet(n) = UNION {ToSet(nested[k]) : k \in DOMAIN nested}
  <2>1. n = FlattenSeq(nested)
    BY DEF NestedIn
  <2> HIDE DEF nested, n
  <2> QED BY <1>3, <2>1, FlattenIs
<1>5. ToSet(n) = UNION {ToSet(b.breaks) : b \in ToSet(mb)}
  <2>1. \A k \in DOMAIN mb : nested[k] = mb[k].breaks
    OBVIOUS
  <2>2. ToSet(mb) = {mb[k] : k \in DOMAIN mb}
    BY DEF ToSet
  <2> HIDE DEF nested, mb, n
  <2>3. {ToSet(nested[k]) : k \in DOMAIN nested} = {ToSet(b.breaks) : b \in ToSet(mb)}
    <3>1. {ToSet(nested[k]) : k \in DOMAIN nested} = {ToSet(mb[k].breaks) : k \in DOMAIN mb}
      BY <1>3, <2>1
    <3>2. {ToSet(mb[k].breaks) : k \in DOMAIN mb} = {ToSet(b.breaks) : b \in ToSet(mb)}
      BY <2>2
    <3> QED BY <3>1, <3>2
  <2> QED BY <1>4, <2>3
<1>6. t \in Seq(Blocks) /\ ToSet(t) = {b \in B : b.type \in Tier3}
  <2>1. t \in Seq(BlocksV2) /\ ToSet(t) = {b \in B : b.type \in Tier3}
    BY OfTypeIs
  <2> HIDE DEF t, B
  <2> QED BY <2>1 DEF Blocks
<1> DEFINE f == n \o t
<1> HIDE DEF n, t, mb, nested
<1>7. f \in Seq(Blocks) /\ ToSet(f) = ToSet(n) \cup ToSet(t)
  BY <1>4, <1>6, ConcatIs
<1>8. FlatOf(day) = Mapped(V1Break, f)
  BY DEF FlatOf, n, t
<1>9. ToSet(f) = LeavesIn(B)
  BY <1>1, <1>5, <1>6, <1>7 DEF LeavesIn
<1> HIDE DEF f
<1>10. Mapped(V1Break, f) \in Seq(BreaksV1) /\ ToSet(Mapped(V1Break, f)) = {V1Break(b) : b \in ToSet(f)}
  BY <1>7, V1BreaksOf
<1> QED BY <1>8, <1>9, <1>10

LEMMA DayBreaksIs ==
  ASSUME NEW day \in Seq(BlocksV2)
  PROVE  /\ DayBreaks(day) \in Seq(BreaksV1)
         /\ ToSet(DayBreaks(day)) = {V1Break(c) : c \in LeavesIn(ToSet(day))} \cup IdleIn(day)
<1> DEFINE mb == MatchBlocksOf(day)
           flat == FlatOf(day)
           idle == IdleGaps(mb, flat)
           s == flat \o idle
<1>1. DayBreaks(day) = ByStart(s)
  BY DEF DayBreaks, MatchBlocksOf, FlatOf, NestedIn, Mapped
<1>2. flat \in Seq(BreaksV1) /\ ToSet(flat) = {V1Break(c) : c \in LeavesIn(ToSet(day))}
  BY FlatIs
<1>3. mb \in Seq(BlocksV2)
  BY MatchBlocksIs
<1>4. idle \in Seq(BreaksV1) /\ ToSet(idle) = IdleIn(day)
  <2>1. /\ idle \in Seq(BreaksV1)
        /\ ToSet(idle) = {IdleBreak(mb, k) : k \in {i \in DOMAIN mb : OpenGap(mb, flat, i)}}
    <3> HIDE DEF mb, flat
    <3> QED BY <1>3, IdleGapsIs
  <2> QED BY <2>1 DEF IdleIn
<1> HIDE DEF mb, flat, idle
<1>5. s \in Seq(BreaksV1) /\ ToSet(s) = ToSet(flat) \cup ToSet(idle)
  BY <1>2, <1>4, ConcatIs
<1>6. \A x \in BreaksV1 : x.start \in Int
  BY DEF BreaksV1
<1> HIDE DEF s
<1>7. ByStart(s) \in Seq(BreaksV1) /\ ToSet(ByStart(s)) = ToSet(s)
  BY <1>5, <1>6, ByStartIs
<1> QED BY <1>1, <1>2, <1>4, <1>5, <1>7

LEMMA DayChangesType ==
  ASSUME NEW day \in Seq(BlocksV2), SoundDay(ToSet(day)), NEW base \in Nat, NEW cycle
  PROVE  /\ DayChanges(day, base, cycle) \in Seq(ChangesV1)
         /\ OffsetAt(MatchBlocksOf(day), Len(MatchBlocksOf(day)) + 1, base) \in Nat
<1> DEFINE mb == MatchBlocksOf(day)
           at(k) == OffsetAt(mb, k, base)
           ct(k) == OrElse(mb[k].ct, DefaultCycle)
           first(k) == IF k > 1 THEN <<[isStart |-> FALSE, after |-> at(k), time |-> ct(k)]>>
                       ELSE IF ct(k) = cycle THEN <<>> ELSE <<StartAt(ct(k))>>
           f == [k \in DOMAIN mb |-> first(k) \o V1Changes(mb[k], at(k))]
<1>1. mb \in Seq(BlocksV2) /\ ToSet(mb) = {b \in ToSet(day) : b.type \in MatchTypes}
  BY MatchBlocksIs
<1>2. DayChanges(day, base, cycle) = FlattenSeq(f)
  BY DEF DayChanges, MatchBlocksOf
<1> HIDE DEF mb
<1>3. \A b \in ToSet(mb) : WindowOk(b)
  BY <1>1 DEF SoundDay
<1>4. \A k \in 1 .. Len(mb) + 1 : at(k) \in Nat
  BY <1>1, <1>3, OffsetIsNat
<1>5. \A k \in DOMAIN mb : k \in 1 .. Len(mb) + 1 /\ k \in Nat
  BY <1>1
<1>6. Len(mb) + 1 \in 1 .. Len(mb) + 1
  BY <1>1
<1> HIDE DEF at
<1>7. ASSUME NEW k \in DOMAIN mb PROVE f[k] \in Seq(ChangesV1)
  <2>1. mb[k] \in Blocks /\ mb[k].ct \in Nat /\ at(k) \in Nat
    <3>1. mb[k] \in BlocksV2
      BY <1>1, InRange
    <3> QED BY <1>4, <1>5, <3>1 DEF Blocks, BlocksV2
  <2>2. ct(k) \in Nat
    BY <2>1, CyclesAssumption, OrElseType
  <2>3. V1Changes(mb[k], at(k)) \in Seq(ChangesV1)
    BY <2>1, V1ChangesType
  <2> HIDE DEF ct
  <2>4. first(k) \in Seq(ChangesV1)
    <3>1. [isStart |-> FALSE, after |-> at(k), time |-> ct(k)] \in ChangesV1
      BY <2>1, <2>2 DEF ChangesV1
    <3>2. StartAt(ct(k)) \in ChangesV1
      BY <2>2 DEF ChangesV1, StartAt
    <3> QED BY <3>1, <3>2
  <2> HIDE DEF first
  <2> QED BY <2>3, <2>4
<1>8. f \in Seq(Seq(ChangesV1))
  <2>1. f \in [DOMAIN mb -> Seq(ChangesV1)]
    BY <1>7
  <2> HIDE DEF f
  <2> QED BY <1>1, <2>1, FunctionIsSeq
<1> HIDE DEF f
<1>9. FlattenSeq(f) \in Seq(ChangesV1)
  BY <1>8, FlattenIs
<1> QED BY <1>2, <1>4, <1>6, <1>9 DEF mb, at

\* Every number of a sequence lies below some number.
LEMMA EndsBelow ==
  ASSUME NEW s \in Seq(BlocksV2)
  PROVE  \E n \in Nat : \A b \in ToSet(s) : b.end <= n
<1> DEFINE P == {k \in 0 .. Len(s) : \E n \in Nat : \A j \in 1 .. k : s[j].end <= n}
<1>1. Len(s) \in Nat /\ DOMAIN s = 1 .. Len(s) /\ \A j \in 1 .. Len(s) : s[j].end \in Nat
  <2>1. Len(s) \in Nat /\ DOMAIN s = 1 .. Len(s) /\ \A j \in 1 .. Len(s) : s[j] \in BlocksV2
    OBVIOUS
  <2> QED BY <2>1 DEF BlocksV2
<1>2. 0 \in P
  BY <1>1
<1>3. ASSUME NEW k \in 0 .. Len(s) - 1, k \in P PROVE k + 1 \in P
  <2>1. PICK n \in Nat : \A j \in 1 .. k : s[j].end <= n
    BY <1>3
  <2> DEFINE m == IF s[k + 1].end <= n THEN n ELSE s[k + 1].end
  <2>2. k + 1 \in 1 .. Len(s) /\ k + 1 \in 0 .. Len(s) /\ k \in Nat
    BY <1>1, <1>3
  <2>3. m \in Nat /\ n <= m /\ s[k + 1].end <= m
    BY <1>1, <2>2
  <2> HIDE DEF m
  <2>4. ASSUME NEW j \in 1 .. k + 1 PROVE s[j].end <= m
    <3>1. j = k + 1 \/ (j \in 1 .. k /\ j \in 1 .. Len(s))
      BY <1>1, <2>2
    <3> QED BY <1>1, <2>1, <2>3, <3>1
  <2> QED BY <2>2, <2>3, <2>4
<1>4. \A k \in 0 .. Len(s) : k \in P
  <2> HIDE DEF P
  <2> QED BY <1>1, <1>2, <1>3, UpToByStep
<1>5. Len(s) \in P
  <2>1. Len(s) \in 0 .. Len(s)
    BY <1>1
  <2> HIDE DEF P
  <2> QED BY <1>4, <2>1
<1>6. PICK n \in Nat : \A j \in 1 .. Len(s) : s[j].end <= n
  BY <1>5
<1> QED BY <1>1, <1>6 DEF ToSet

LEMMA NotEmpty ==
  ASSUME NEW T, NEW s \in Seq(T), s # <<>>
  PROVE  Head(s) \in ToSet(s) /\ Head(s) \in T
<1>1. 1 \in DOMAIN s /\ Head(s) = s[1]
  OBVIOUS
<1> QED BY <1>1, InRange

LEMMA DayWindowIs ==
  ASSUME NEW day \in Seq(BlocksV2), day # <<>>, NEW cycle \in Nat
  PROVE  LET w == DayWindow(day, cycle)
         IN  /\ w.start \in Nat /\ w.end \in Nat /\ w.ct \in Nat
             /\ OfType(day, {"qualification"}) # <<>> =>
                  \E q \in ToSet(day) : /\ q.type = "qualification"
                                        /\ w.start = q.start /\ w.end = q.end
<1> DEFINE q == OfType(day, {"qualification"})
           p == OfType(day, {"practice"})
           match == q \o p
           w == DayWindow(day, cycle)
<1>1. /\ p \in Seq(BlocksV2) /\ ToSet(p) = {b \in ToSet(day) : b.type \in {"practice"}}
      /\ q \in Seq(BlocksV2) /\ ToSet(q) = {b \in ToSet(day) : b.type \in {"qualification"}}
  BY OfTypeIs
<1>2. match \in Seq(BlocksV2)
  <2> HIDE DEF p, q
  <2> QED BY <1>1
<1>3. q # <<>> => match # <<>> /\ Head(match) = Head(q)
  <2> HIDE DEF p, q
  <2> QED BY <1>1
<1>4. CASE match # <<>>
  <2> DEFINE h == Head(match)
  <2>1. w = [start |-> h.start, end |-> h.end, ct |-> OrElse(h.ct, cycle)]
    BY <1>4 DEF DayWindow
  <2> HIDE DEF match, q
  <2>2. h \in BlocksV2
    BY <1>2, <1>4, NotEmpty
  <2>3. h.start \in Nat /\ h.end \in Nat /\ h.ct \in Nat
    BY <2>2 DEF BlocksV2
  <2>4. OrElse(h.ct, cycle) \in Nat
    BY <2>3, OrElseType
  <2>5. ASSUME q # <<>> PROVE h \in ToSet(day) /\ h.type = "qualification"
    <3>1. Head(q) \in ToSet(q)
      BY <1>1, <2>5, NotEmpty
    <3> QED BY <1>1, <1>3, <2>5, <3>1
  <2> HIDE DEF h, w
  <2>6. w.start = h.start /\ w.end = h.end /\ w.ct = OrElse(h.ct, cycle)
    BY <2>1
  <2> QED BY <2>3, <2>4, <2>5, <2>6 DEF w, q
<1>5. CASE match = <<>>
  <2> DEFINE S == {b.start : b \in ToSet(day)}
             E == {b.end : b \in ToSet(day)}
  <2>1. w = [start |-> MinOf(S), end |-> MaxOf(E), ct |-> cycle]
    BY <1>5 DEF DayWindow
  <2>2. S \in SUBSET Nat /\ S # {}
    <3>1. ToSet(day) \subseteq BlocksV2 /\ Head(day) \in ToSet(day)
      BY InRange, NotEmpty
    <3> QED BY <3>1 DEF BlocksV2
  <2>3. PICK n \in Nat : \A b \in ToSet(day) : b.end <= n
    BY EndsBelow
  <2>4. E \in SUBSET (0 .. n) /\ E # {}
    <3>1. ToSet(day) \subseteq BlocksV2 /\ Head(day) \in ToSet(day)
      BY InRange, NotEmpty
    <3>2. \A b \in ToSet(day) : b.end \in Nat
      BY <3>1 DEF BlocksV2
    <3> QED BY <2>3, <3>1, <3>2
  <2> HIDE DEF S, E, w
  <2>5. MinOf(S) \in Nat
    BY <2>2, NaturalMin
  <2>6. MaxOf(E) \in Nat
    <3>1. MaxOf(E) \in E
      BY <2>4, NaturalMax
    <3>2. E \subseteq Nat
      BY <2>3, <2>4
    <3> QED BY <3>1, <3>2
  <2>7. w.start \in Nat /\ w.end \in Nat /\ w.ct \in Nat
    BY <2>1, <2>5, <2>6
  <2> QED BY <1>3, <1>5, <2>7 DEF w, q
<1> QED BY <1>4, <1>5

\* What the walk over the days of a V2 plan carries from one to the next.
Outs == [days : Seq(DaysV1), playoffs : Seq(PlayoffsV1),
         practice : PracticesV1 \cup {NoPractice}, offset : Nat]
NoDays == [days |-> <<>>, playoffs |-> <<>>, practice |-> NoPractice, offset |-> 0]
SlotTakes(out, day) ==
  /\ OfType(day, {"practice"}) # <<>> /\ OfType(day, {"qualification"}) = <<>>
  /\ out.practice = NoPractice
V1Playoff(n, b) == [day |-> n, start |-> b.start, end |-> b.end, ct |-> OrElse(b.ct, PlayoffCycle)]
V1Playoffs(n, day) == LET t == OfType(day, {"playoff"}) IN [k \in DOMAIN t |-> V1Playoff(n, t[k])]
V1Day(plan, out, day) ==
  LET window == DayWindow(day, plan.ct)
  IN  [start |-> window.start, end |-> window.end, ct |-> window.ct, earlyEnd |-> 0,
       breaks |-> DayBreaks(day), changes |-> DayChanges(day, out.offset, plan.ct)]

LEMMA V1PracticeIs ==
  ASSUME NEW p \in BlocksV2
  PROVE  /\ V1Practice(p) \in PracticesV1
         /\ V1Practice(p).start = p.start /\ V1Practice(p).end = p.end
         /\ ToSet(V1Practice(p).breaks) = {V1Break(c) : c \in ToSet(p.breaks)}
<1> DEFINE breaks == Mapped(V1Break, p.breaks)
           starts == IF p.ct # 0 THEN <<StartAt(p.ct)>> ELSE <<>>
           later == V1Changes(p, 0)
           changes == starts \o later
<1>1. p.start \in Nat /\ p.end \in Nat /\ p.ct \in Nat /\ p.breaks \in Seq(NestedV2) /\ p \in Blocks
  BY DEF BlocksV2, Blocks
<1>2. breaks \in Seq(BreaksV1) /\ ToSet(breaks) = {V1Break(c) : c \in ToSet(p.breaks)}
  <2>1. p.breaks \in Seq(Blocks)
    BY <1>1 DEF Blocks
  <2> QED BY <2>1, V1BreaksOf
<1>3. starts \in Seq(ChangesV1)
  <2>1. StartAt(p.ct) \in ChangesV1
    BY <1>1 DEF StartAt, ChangesV1
  <2> QED BY <2>1
<1>4. later \in Seq(ChangesV1)
  BY <1>1, V1ChangesType
<1> HIDE DEF starts, later
<1>5. changes \in Seq(ChangesV1)
  BY <1>3, <1>4
<1>6. V1Practice(p) = [start |-> p.start, end |-> p.end, ct |-> p.ct, breaks |-> breaks,
                       changes |-> changes]
  BY DEF V1Practice, starts, later
<1> HIDE DEF breaks, changes
<1> QED BY <1>1, <1>2, <1>5, <1>6 DEF PracticesV1

LEMMA V1PlayoffsIs ==
  ASSUME NEW day \in Seq(BlocksV2), NEW n \in Nat
  PROVE  /\ V1Playoffs(n, day) \in Seq(PlayoffsV1)
         /\ ToSet(V1Playoffs(n, day)) = {V1Playoff(n, b) : b \in {x \in ToSet(day) : x.type = "playoff"}}
<1> DEFINE t == OfType(day, {"playoff"})
           m == [k \in DOMAIN t |-> V1Playoff(n, t[k])]
<1>1. t \in Seq(BlocksV2) /\ ToSet(t) = {x \in ToSet(day) : x.type = "playoff"}
  <2>1. t \in Seq(BlocksV2) /\ ToSet(t) = {x \in ToSet(day) : x.type \in {"playoff"}}
    BY OfTypeIs
  <2> QED BY <2>1
<1>2. V1Playoffs(n, day) = m
  BY DEF V1Playoffs
<1> HIDE DEF t
<1>3. ASSUME NEW k \in DOMAIN t PROVE m[k] \in PlayoffsV1
  <2>1. t[k] \in BlocksV2
    BY <1>1, InRange
  <2>2. t[k].start \in Nat /\ t[k].end \in Nat /\ t[k].ct \in Nat
    BY <2>1 DEF BlocksV2
  <2>3. OrElse(t[k].ct, PlayoffCycle) \in Nat
    BY <2>2, CyclesAssumption, OrElseType
  <2> QED BY <2>2, <2>3 DEF V1Playoff, PlayoffsV1
<1>4. m \in [DOMAIN t -> PlayoffsV1] /\ \A k \in DOMAIN t : m[k] = V1Playoff(n, t[k])
  BY <1>3
<1> HIDE DEF m
<1>5. m \in Seq(PlayoffsV1) /\ ToSet(m) = {m[k] : k \in DOMAIN t}
  BY <1>1, <1>4, FunctionIsSeq DEF ToSet
<1>6. {m[k] : k \in DOMAIN t} = {V1Playoff(n, b) : b \in ToSet(t)}
  BY <1>4 DEF ToSet
<1> QED BY <1>1, <1>2, <1>5, <1>6

LEMMA V1DayType ==
  ASSUME NEW plan \in PlansV2, NEW out \in Outs, NEW day \in Seq(BlocksV2), SoundDay(ToSet(day)),
         day # <<>>
  PROVE  /\ V1Day(plan, out, day) \in DaysV1
         /\ V1Day(plan, out, day).start = DayWindow(day, plan.ct).start
         /\ V1Day(plan, out, day).end = DayWindow(day, plan.ct).end
         /\ V1Day(plan, out, day).breaks = DayBreaks(day)
<1> DEFINE w == DayWindow(day, plan.ct)
           breaks == DayBreaks(day)
           changes == DayChanges(day, out.offset, plan.ct)
<1>1. plan.ct \in Nat /\ out.offset \in Nat
  BY DEF PlansV2, Outs
<1>2. w.start \in Nat /\ w.end \in Nat /\ w.ct \in Nat
  BY <1>1, DayWindowIs
<1>3. breaks \in Seq(BreaksV1)
  BY DayBreaksIs
<1>4. changes \in Seq(ChangesV1)
  BY <1>1, DayChangesType
<1>5. V1Day(plan, out, day) = [start |-> w.start, end |-> w.end, ct |-> w.ct, earlyEnd |-> 0,
                               breaks |-> breaks, changes |-> changes]
  BY DEF V1Day
<1> HIDE DEF w, breaks, changes
<1>6. V1Day(plan, out, day) \in DaysV1
  BY <1>2, <1>3, <1>4, <1>5 DEF DaysV1
<1> QED BY <1>5, <1>6 DEF w, breaks

\* What the walk does with one day.
DayTaken(plan, out, day, new) ==
  /\ SlotTakes(out, day) =>
       /\ new.days = out.days /\ new.playoffs = out.playoffs
       /\ new.practice = V1Practice(Head(OfType(day, {"practice"})))
  /\ ~SlotTakes(out, day) /\ day = <<>> => new = out
  /\ ~SlotTakes(out, day) /\ day # <<>> =>
       /\ new.days = Append(out.days, V1Day(plan, out, day))
       /\ new.playoffs = out.playoffs \o V1Playoffs(Len(out.days), day)
       /\ new.practice = out.practice

LEMMA DowngradeDayIs ==
  ASSUME NEW plan \in PlansV2, NEW out \in Outs, NEW day \in Seq(BlocksV2), SoundDay(ToSet(day))
  PROVE  /\ DowngradeDay(plan, out, day) \in Outs
         /\ DayTaken(plan, out, day, DowngradeDay(plan, out, day))
<1> DEFINE new == DowngradeDay(plan, out, day)
<1> DEFINE p == OfType(day, {"practice"})
           offset == OffsetAt(MatchBlocksOf(day), Len(MatchBlocksOf(day)) + 1, out.offset)
<1>1. /\ out.days \in Seq(DaysV1) /\ out.playoffs \in Seq(PlayoffsV1)
      /\ out.practice \in PracticesV1 \cup {NoPractice} /\ out.offset \in Nat
      /\ out = [days |-> out.days, playoffs |-> out.playoffs, practice |-> out.practice,
                offset |-> out.offset]
      /\ Len(out.days) \in Nat
  BY DEF Outs
<1>2. CASE SlotTakes(out, day)
  <2>1. p \in Seq(BlocksV2) /\ ToSet(p) = {b \in ToSet(day) : b.type \in {"practice"}}
    BY OfTypeIs
  <2>2. p \in Seq(BlocksV2) /\ p # <<>>
    BY <1>2, <2>1 DEF SlotTakes
  <2>3. day # <<>>
    <3> HIDE DEF p
    <3>1. Head(p) \in ToSet(day)
      BY <2>1, <2>2, NotEmpty
    <3> QED BY <3>1, NoBreaks
  <2>4. new = [out EXCEPT !.practice = V1Practice(Head(p))]
    BY <1>2, <2>3 DEF DowngradeDay, SlotTakes
  <2> HIDE DEF p
  <2>5. Head(p) \in BlocksV2
    BY <2>2, NotEmpty
  <2> DEFINE practice == V1Practice(Head(p))
  <2>6. practice \in PracticesV1
    BY <2>5, V1PracticeIs
  <2> HIDE DEF practice, new
  <2>7. new = [days |-> out.days, playoffs |-> out.playoffs, practice |-> practice,
               offset |-> out.offset]
    BY <1>1, <2>4 DEF practice
  <2>8. new \in Outs /\ new.days = out.days /\ new.playoffs = out.playoffs /\ new.practice = practice
    BY <1>1, <2>6, <2>7 DEF Outs
  <2> QED BY <1>2, <2>8 DEF practice, p, new, DayTaken
<1>3. CASE ~SlotTakes(out, day) /\ day = <<>>
  <2>1. new = out
    BY <1>3 DEF DowngradeDay, SlotTakes
  <2>2. out \in Outs
    OBVIOUS
  <2> HIDE DEF new
  <2> QED BY <1>3, <2>1, <2>2 DEF DayTaken, new
<1>4. CASE ~SlotTakes(out, day) /\ day # <<>>
  <2> DEFINE d == V1Day(plan, out, day)
             po == V1Playoffs(Len(out.days), day)
  <2>1. new = [out EXCEPT !.days = Append(@, d), !.playoffs = @ \o po, !.offset = offset]
    BY <1>4 DEF DowngradeDay, SlotTakes, V1Day, V1Playoffs, V1Playoff, Mapped, MatchBlocksOf,
                PlayoffIndex
  <2>2. d \in DaysV1
    BY <1>4, V1DayType
  <2>3. po \in Seq(PlayoffsV1)
    BY <1>1, V1PlayoffsIs
  <2>4. offset \in Nat
    BY <1>1, DayChangesType
  <2> HIDE DEF d, po, offset, new
  <2>5. new = [days |-> Append(out.days, d), playoffs |-> out.playoffs \o po,
               practice |-> out.practice, offset |-> offset]
    BY <1>1, <2>1
  <2>6. Append(out.days, d) \in Seq(DaysV1) /\ out.playoffs \o po \in Seq(PlayoffsV1)
    BY <1>1, <2>2, <2>3
  <2>7. /\ new \in Outs /\ new.days = Append(out.days, d) /\ new.playoffs = out.playoffs \o po
        /\ new.practice = out.practice
    BY <1>1, <2>4, <2>5, <2>6 DEF Outs
  <2> QED BY <1>4, <2>7 DEF d, po, new, DayTaken
<1> QED BY <1>2, <1>3, <1>4

\* The V1 view of a plan is what the walk over its days ends with.
IsDowngrade(f, plan) ==
  /\ f \in [0 .. Len(plan.days) -> Outs] /\ f[0] = NoDays
  /\ \A k \in 1 .. Len(plan.days) : f[k] = DowngradeDay(plan, f[k - 1], plan.days[k])
ViewFrom(plan, out) ==
  [v |-> 1, ct |-> plan.ct, buffer |-> plan.buffer, days |-> out.days,
   playoffs |-> out.playoffs, practice |-> out.practice]
IsDowngrading(f, plan) ==
  f = [i \in 0 .. Len(plan.days) |->
         IF i = 0 THEN NoDays ELSE DowngradeDay(plan, f[i - 1], plan.days[i])]

LEMMA DowngradeIs ==
  ASSUME NEW plan \in PlansV2, Sound(plan)
  PROVE  \E f : IsDowngrade(f, plan) /\ DowngradeV2ToV1(plan) = ViewFrom(plan, f[Len(plan.days)])
<1> DEFINE n == Len(plan.days)
           step == [x \in (1 .. n) \X Outs |-> DowngradeDay(plan, x[2], plan.days[x[1]])]
<1>1. n \in Nat /\ DOMAIN plan.days = 1 .. n /\ \A k \in 1 .. n : plan.days[k] \in Seq(BlocksV2)
  BY DEF PlansV2
<1>2. step \in [(1 .. n) \X Outs -> Outs]
  <2>1. ASSUME NEW k \in 1 .. n, NEW out \in Outs PROVE DowngradeDay(plan, out, plan.days[k]) \in Outs
    <3>1. plan.days[k] \in Seq(BlocksV2) /\ SoundDay(ToSet(plan.days[k]))
      BY <1>1 DEF Sound
    <3> QED BY <3>1, DowngradeDayIs
  <2> QED BY <2>1
<1>3. NoDays \in Outs
  BY DEF NoDays, Outs
<1>4. /\ \E f : IsRun(f, n, NoDays, step)
      /\ \A f : IsRun(f, n, NoDays, step) => f \in [0 .. n -> Outs]
  <2> HIDE DEF n, step
  <2> QED BY <1>1, <1>2, <1>3, RunIs
<1>5. PICK g \in [0 .. n -> Outs] : IsRun(g, n, NoDays, step)
  BY <1>4
<1>6. IsDowngrading(g, plan)
  <2>1. \A i \in 0 .. n : i # 0 => i \in 1 .. n /\ i - 1 \in 0 .. n
    BY <1>1
  <2>2. \A i \in 0 .. n : i # 0 => step[<<i, g[i - 1]>>] = DowngradeDay(plan, g[i - 1], plan.days[i])
    BY <1>5, <2>1
  <2>3. g = [k \in 0 .. n |-> IF k = 0 THEN NoDays ELSE step[<<k, g[k - 1]>>]]
    BY <1>5 DEF IsRun
  <2> HIDE DEF step
  <2> QED BY <2>2, <2>3 DEF IsDowngrading
<1> DEFINE f == CHOOSE f : IsDowngrading(f, plan)
<1>7. IsDowngrading(f, plan)
  BY <1>6
<1>8. DowngradeV2ToV1(plan) = ViewFrom(plan, f[n])
  <2>1. plan.v # 1
    BY DEF PlansV2
  <2> QED BY <2>1 DEF DowngradeV2ToV1, IsDowngrading, NoDays, ViewFrom
<1> HIDE DEF f
<1>9. DOMAIN f = 0 .. n /\ f[0] = NoDays
      /\ \A k \in 1 .. n : f[k] = DowngradeDay(plan, f[k - 1], plan.days[k])
  <2>1. 0 \in 0 .. n /\ \A k \in 1 .. n : k \in 0 .. n /\ k # 0
    BY <1>1
  <2> QED BY <1>7, <2>1 DEF IsDowngrading
<1> DEFINE P == {k \in 0 .. n : f[k] \in Outs}
<1>10. 0 \in P
  BY <1>1, <1>3, <1>9
<1>11. ASSUME NEW k \in 0 .. n - 1, k \in P PROVE k + 1 \in P
  <2> DEFINE j == k + 1
  <2>1. j \in 1 .. n /\ j \in 0 .. n /\ j - 1 = k /\ f[k] \in Outs
    BY <1>1, <1>11
  <2> HIDE DEF j
  <2>2. plan.days[j] \in Seq(BlocksV2) /\ SoundDay(ToSet(plan.days[j]))
    BY <1>1, <2>1 DEF Sound
  <2>3. DowngradeDay(plan, f[k], plan.days[j]) \in Outs
    BY <2>1, <2>2, DowngradeDayIs
  <2>4. f[j] \in Outs
    BY <1>9, <2>1, <2>3
  <2>5. j \in P
    BY <2>1, <2>4
  <2> QED BY <2>5 DEF j
<1>12. \A k \in 0 .. n : k \in P
  <2> HIDE DEF P, n
  <2> QED BY <1>1, <1>10, <1>11, UpToByStep
<1>13. f \in [0 .. n -> Outs]
  <2>1. f = [k \in 0 .. n |-> f[k]]
    BY <1>7, <1>9 DEF IsDowngrading
  <2> QED BY <1>12, <2>1
<1>14. IsDowngrade(f, plan)
  BY <1>9, <1>13 DEF IsDowngrade
<1> QED BY <1>8, <1>14

\* A gap between two match blocks next to each other in time is spanned in the
\* V1 shape of the day.
LEMMA GapIsSpanned ==
  ASSUME NEW day \in Seq(BlocksV2), SoundDay(ToSet(day)),
         NEW b \in ToSet(day), b.type \in MatchTypes, NEW c \in ToSet(day), c.type \in MatchTypes,
         b.end < c.start,
         \A o \in ToSet(day) : o.type \in MatchTypes => o.end <= b.end \/ o.start >= c.start
  PROVE  \E idle \in ToSet(DayBreaks(day)) : idle.start <= b.end /\ c.start <= idle.end
<1> DEFINE mb == MatchBlocksOf(day)
           flat == FlatOf(day)
<1>1. /\ mb \in Seq(BlocksV2) /\ Sorted(mb)
      /\ ToSet(mb) = {x \in ToSet(day) : x.type \in MatchTypes}
  BY MatchBlocksIs
<1>2. /\ ToSet(flat) = {V1Break(x) : x \in LeavesIn(ToSet(day))}
      /\ ToSet(DayBreaks(day)) = {V1Break(x) : x \in LeavesIn(ToSet(day))}
           \cup {IdleBreak(mb, k) : k \in {i \in DOMAIN mb : OpenGap(mb, flat, i)}}
  BY FlatIs, DayBreaksIs DEF IdleIn
<1> HIDE DEF mb, flat
<1>3. /\ Len(mb) \in Nat /\ DOMAIN mb = 1 .. Len(mb)
      /\ \A k \in DOMAIN mb : mb[k].start \in Nat /\ mb[k].end \in Nat /\ mb[k] \in ToSet(mb)
  <2>1. \A k \in DOMAIN mb : mb[k] \in BlocksV2 /\ mb[k] \in ToSet(mb)
    BY <1>1, InRange
  <2>2. Len(mb) \in Nat /\ DOMAIN mb = 1 .. Len(mb)
    BY <1>1
  <2> QED BY <2>1, <2>2 DEF BlocksV2
<1>4. \A k \in DOMAIN mb : mb[k].start < mb[k].end /\ (mb[k].end <= b.end \/ mb[k].start >= c.start)
  BY <1>1, <1>3 DEF SoundDay, WindowOk
<1>5. PICK kb \in DOMAIN mb : mb[kb] = b
  BY <1>1 DEF ToSet
<1>6. PICK kc \in DOMAIN mb : mb[kc] = c
  BY <1>1 DEF ToSet
<1> DEFINE S == {k \in DOMAIN mb : mb[k].start >= c.start}
<1>7. PICK m \in S : \A k \in S : m <= k
  <2>1. S \in SUBSET Nat /\ kc \in S
    BY <1>3, <1>6
  <2> HIDE DEF S
  <2> QED BY <2>1, LeastNumber
<1>8. m \in 1 .. Len(mb) /\ mb[m].start >= c.start /\ m <= kc
  <2>1. kc \in S
    BY <1>3, <1>6
  <2> QED BY <1>3, <1>7, <2>1
<1>9. mb[m].start = c.start
  <2>1. m = kc \/ m < kc
    BY <1>3, <1>8
  <2>2. m < kc => mb[m].start <= mb[kc].start
    BY <1>1, <1>3, <1>8 DEF Sorted
  <2> QED BY <1>3, <1>6, <1>8, <2>1, <2>2
<1>10. m # 1
  <2> SUFFICES ASSUME m = 1 PROVE FALSE
    OBVIOUS
  <2>1. b.start < b.end /\ b.start < c.start
    BY <1>3, <1>4, <1>5, <1>6
  <2>2. kb # 1
    BY <1>3, <1>5, <1>6, <1>8, <2>1
  <2>3. mb[1].start <= mb[kb].start
    BY <1>1, <1>3, <1>8, <2>2 DEF Sorted
  <2> QED BY <1>3, <1>5, <1>6, <1>8, <2>1, <2>3
<1> DEFINE k == m - 1
<1>11. k \in DOMAIN mb /\ k + 1 = m /\ k < Len(mb) /\ k < m
  BY <1>3, <1>8, <1>10
<1> HIDE DEF k
<1>12. mb[k].end <= b.end
  <2>1. k \notin S
    <3> HIDE DEF S
    <3>1. ~(m <= k)
      BY <1>3, <1>8, <1>11
    <3> QED BY <1>7, <3>1
  <2>2. ~(mb[k].start >= c.start)
    BY <1>11, <2>1
  <2> QED BY <1>4, <1>11, <2>2
<1>13. mb[k].end < mb[k + 1].start
  BY <1>3, <1>5, <1>6, <1>9, <1>11, <1>12
<1>14. CASE OpenGap(mb, flat, k)
  <2> DEFINE idle == IdleBreak(mb, k)
  <2>1. idle.start = mb[k].end /\ idle.end = mb[k + 1].start
    BY DEF IdleBreak
  <2>2. idle \in ToSet(DayBreaks(day))
    BY <1>2, <1>11, <1>14
  <2> HIDE DEF idle
  <2>3. idle.start <= b.end /\ c.start <= idle.end
    BY <1>3, <1>6, <1>9, <1>11, <1>12, <2>1
  <2> QED BY <2>2, <2>3
<1>15. CASE ~OpenGap(mb, flat, k)
  <2>1. PICK idle \in ToSet(flat) : idle.start <= mb[k].end /\ idle.end >= mb[k + 1].start
    BY <1>11, <1>13, <1>15 DEF OpenGap
  <2>2. idle \in ToSet(DayBreaks(day))
    BY <1>2, <2>1
  <2>3. idle \in BreaksV1
    <3>1. flat \in Seq(BreaksV1)
      BY FlatIs DEF flat
    <3> QED BY <2>1, <3>1, InRange
  <2>4. idle.start \in Nat /\ idle.end \in Nat
    BY <2>3 DEF BreaksV1
  <2>5. idle.start <= b.end /\ c.start <= idle.end
    BY <1>3, <1>5, <1>6, <1>9, <1>11, <1>12, <2>1, <2>4
  <2> QED BY <2>2, <2>5
<1> QED BY <1>14, <1>15

LEMMA DaysStay ==
  ASSUME NEW plan \in PlansV2, Sound(plan), NEW f, IsDowngrade(f, plan), NEW k \in 1 .. Len(plan.days)
  PROVE  /\ f[k - 1] \in Outs /\ f[k] \in Outs /\ plan.days[k] \in Seq(BlocksV2)
         /\ SoundDay(ToSet(plan.days[k]))
         /\ DayTaken(plan, f[k - 1], plan.days[k], f[k])
         /\ \A d \in DOMAIN f[k - 1].days : d \in DOMAIN f[k].days /\ f[k].days[d] = f[k - 1].days[d]
<1> DEFINE day == plan.days[k]
           out == f[k - 1]
<1>1. k \in DOMAIN plan.days /\ k - 1 \in 0 .. Len(plan.days) /\ k \in 0 .. Len(plan.days)
  BY DEF PlansV2
<1>2. out \in Outs /\ f[k] \in Outs /\ f[k] = DowngradeDay(plan, out, day)
  BY <1>1 DEF IsDowngrade
<1>3. day \in Seq(BlocksV2) /\ SoundDay(ToSet(day))
  BY <1>1 DEF PlansV2, Sound
<1> HIDE DEF day, out
<1>7. DayTaken(plan, out, day, f[k])
  BY <1>2, <1>3, DowngradeDayIs
<1>4. \/ f[k].days = out.days
      \/ f[k].days = Append(out.days, V1Day(plan, out, day)) /\ V1Day(plan, out, day) \in DaysV1
  <2>1. CASE SlotTakes(out, day)
    BY <1>7, <2>1 DEF DayTaken
  <2>2. CASE ~SlotTakes(out, day) /\ day = <<>>
    BY <1>7, <2>2 DEF DayTaken
  <2>3. CASE ~SlotTakes(out, day) /\ day # <<>>
    <3>1. V1Day(plan, out, day) \in DaysV1
      BY <1>2, <1>3, <2>3, V1DayType
    <3> QED BY <1>7, <2>3, <3>1 DEF DayTaken
  <2> QED BY <2>1, <2>2, <2>3
<1>5. out.days \in Seq(DaysV1)
  BY <1>2 DEF Outs
<1>6. \A d \in DOMAIN out.days : d \in DOMAIN f[k].days /\ f[k].days[d] = out.days[d]
  BY <1>4, <1>5, SMTT(30)
<1> QED BY <1>2, <1>3, <1>6, <1>7 DEF day, out

\* The days the view lists up to the k-th, and what the walk has after k days:
\* that many days, and the practice slot empty unless a day of practice alone was
\* among them.
ShownUpTo(plan, k) == {j \in ShownDays(plan) : j <= k}
Counts(f, plan, k) ==
  /\ Len(f[k].days) = Cardinality(ShownUpTo(plan, k))
  /\ f[k].practice = NoPractice <=> \A j \in 1 .. k : ~PracticeOnly(plan.days[j])

LEMMA ShownOneMore ==
  ASSUME NEW plan \in PlansV2, NEW k \in 1 .. Len(plan.days)
  PROVE  /\ k \in ShownDays(plan) =>
              Cardinality(ShownUpTo(plan, k)) = Cardinality(ShownUpTo(plan, k - 1)) + 1
         /\ k \notin ShownDays(plan) => ShownUpTo(plan, k) = ShownUpTo(plan, k - 1)
<1> DEFINE S == ShownUpTo(plan, k - 1)
<1>1. ShownDays(plan) \subseteq 1 .. Len(plan.days) /\ Len(plan.days) \in Nat
  BY DEF ShownDays, PlansV2
<1>2. \A j \in ShownDays(plan) : j <= k <=> j <= k - 1 \/ j = k
  BY <1>1
<1>3. /\ k \in ShownDays(plan) => ShownUpTo(plan, k) = S \cup {k}
      /\ k \notin ShownDays(plan) => ShownUpTo(plan, k) = S
  BY <1>2 DEF ShownUpTo
<1>4. IsFiniteSet(S) /\ k \notin S
  <2> DEFINE n == Len(plan.days)
  <2>1. S \subseteq 1 .. n /\ n \in Nat /\ k \notin S
    BY <1>1 DEF ShownUpTo
  <2> HIDE DEF n, S
  <2>2. IsFiniteSet(1 .. n)
    BY <2>1, FS_Interval
  <2> QED BY <2>1, <2>2, FS_Subset
<1> HIDE DEF S
<1>5. Cardinality(S \cup {k}) = Cardinality(S) + 1
  BY <1>4, FS_AddElement
<1> QED BY <1>3, <1>5 DEF S

LEMMA CountsOn ==
  ASSUME NEW plan \in PlansV2, Sound(plan), NEW f, IsDowngrade(f, plan), NEW k \in 1 .. Len(plan.days),
         Counts(f, plan, k - 1)
  PROVE  Counts(f, plan, k)
<1> DEFINE day == plan.days[k]
           out == f[k - 1]
           new == f[k]
<1>1. /\ out \in Outs /\ new \in Outs /\ day \in Seq(BlocksV2) /\ SoundDay(ToSet(day))
      /\ DayTaken(plan, out, day, new)
  BY DaysStay
<1>2. /\ Len(out.days) = Cardinality(ShownUpTo(plan, k - 1))
      /\ out.practice = NoPractice <=> \A j \in 1 .. k - 1 : ~PracticeOnly(plan.days[j])
  BY DEF Counts
<1>3. k \in DOMAIN plan.days /\ k \in Nat
  BY DEF PlansV2
<1>4. SlotTakes(out, day) <=> TakenAsPractice(plan, k)
  BY <1>2 DEF SlotTakes, TakenAsPractice, PracticeOnly
<1>5. k \in ShownDays(plan) <=> ~SlotTakes(out, day) /\ day # <<>>
  BY <1>3, <1>4 DEF ShownDays
<1>6. (\A j \in 1 .. k : ~PracticeOnly(plan.days[j]))
        <=> (\A j \in 1 .. k - 1 : ~PracticeOnly(plan.days[j])) /\ ~PracticeOnly(day)
  <2>1. \A j : j \in 1 .. k <=> j \in 1 .. k - 1 \/ j = k
    BY <1>3
  <2> QED BY <2>1
<1>7. PracticeOnly(day) /\ out.practice = NoPractice <=> SlotTakes(out, day)
  BY DEF SlotTakes, PracticeOnly
<1>8. PracticeOnly(day) => day # <<>>
  <2> DEFINE p == OfType(day, {"practice"})
  <2>1. p \in Seq(BlocksV2) /\ ToSet(p) = {b \in ToSet(day) : b.type \in {"practice"}}
    BY <1>1, OfTypeIs
  <2>2. PracticeOnly(day) => p # <<>>
    BY DEF PracticeOnly
  <2> HIDE DEF p, day
  <2> SUFFICES ASSUME PracticeOnly(day) PROVE day # <<>>
    OBVIOUS
  <2>3. Head(p) \in ToSet(day)
    BY <2>1, <2>2, NotEmpty
  <2> QED BY <2>3, NoBreaks
<1>9. CASE SlotTakes(out, day)
  <2> DEFINE p == OfType(day, {"practice"})
  <2>1. p \in Seq(BlocksV2) /\ p # <<>>
    BY <1>1, <1>9, OfTypeIs DEF SlotTakes
  <2>2. new.days = out.days /\ new.practice = V1Practice(Head(p))
    BY <1>1, <1>9 DEF DayTaken
  <2> HIDE DEF p, day
  <2>3. V1Practice(Head(p)) \in PracticesV1
    BY <2>1, NotEmpty, V1PracticeIs
  <2>4. new.practice # NoPractice
    BY <2>2, <2>3, PracticeAssumption
  <2>5. ShownUpTo(plan, k) = ShownUpTo(plan, k - 1)
    BY <1>5, <1>9, ShownOneMore
  <2> QED BY <1>2, <1>6, <1>7, <1>9, <2>2, <2>4, <2>5 DEF Counts
<1>10. CASE ~SlotTakes(out, day) /\ day = <<>>
  <2>1. new = out
    BY <1>1, <1>10 DEF DayTaken
  <2>2. ShownUpTo(plan, k) = ShownUpTo(plan, k - 1)
    BY <1>5, <1>10, ShownOneMore
  <2> QED BY <1>2, <1>6, <1>8, <1>10, <2>1, <2>2 DEF Counts
<1>11. CASE ~SlotTakes(out, day) /\ day # <<>>
  <2> DEFINE d == V1Day(plan, out, day)
  <2>1. new.days = Append(out.days, d) /\ new.practice = out.practice
    BY <1>1, <1>11 DEF DayTaken
  <2>2. d \in DaysV1 /\ out.days \in Seq(DaysV1)
    BY <1>1, <1>11, V1DayType DEF Outs
  <2> HIDE DEF d, day
  <2>3. Len(new.days) = Len(out.days) + 1
    BY <2>1, <2>2
  <2>4. Cardinality(ShownUpTo(plan, k)) = Cardinality(ShownUpTo(plan, k - 1)) + 1
    BY <1>5, <1>11, ShownOneMore
  <2> QED BY <1>2, <1>6, <1>7, <1>11, <2>1, <2>3, <2>4 DEF Counts, day
<1> QED BY <1>9, <1>10, <1>11

LEMMA DaysCounted ==
  ASSUME NEW plan \in PlansV2, Sound(plan), NEW f, IsDowngrade(f, plan)
  PROVE  \A k \in 0 .. Len(plan.days) : Counts(f, plan, k)
<1> DEFINE n == Len(plan.days)
           P == {k \in 0 .. n : Counts(f, plan, k)}
<1>1. n \in Nat
  BY DEF PlansV2
<1>2. Counts(f, plan, 0)
  <2>1. f[0].days = <<>> /\ f[0].practice = NoPractice
    BY DEF IsDowngrade, NoDays
  <2>2. ShownUpTo(plan, 0) = {}
    <3>1. \A j \in ShownDays(plan) : j \in 1 .. n
      BY <1>1 DEF ShownDays, PlansV2
    <3> QED BY <1>1, <3>1 DEF ShownUpTo
  <2> QED BY <2>1, <2>2, FS_EmptySet DEF Counts
<1>3. ASSUME NEW k \in 0 .. n - 1, k \in P PROVE k + 1 \in P
  <2> DEFINE j == k + 1
  <2>1. j \in 1 .. n /\ j \in 0 .. n /\ j - 1 = k /\ Counts(f, plan, k)
    BY <1>1, <1>3
  <2> HIDE DEF j
  <2>2. Counts(f, plan, j)
    BY <2>1, CountsOn
  <2> QED BY <2>1, <2>2 DEF j
<1>4. 0 \in P
  BY <1>1, <1>2
<1>5. \A k \in 0 .. n : k \in P
  <2> HIDE DEF P, n
  <2> QED BY <1>1, <1>3, <1>4, UpToByStep
<1> QED BY <1>5

\* The V1 day that a V2 day became has that day's breaks.
LEMMA DayIsShown ==
  ASSUME NEW plan \in PlansV2, Sound(plan), NEW f, IsDowngrade(f, plan), NEW i \in ShownDays(plan)
  PROVE  LET d == Cardinality(ShownUpTo(plan, i))
         IN  /\ d \in DOMAIN f[Len(plan.days)].days
             /\ f[Len(plan.days)].days[d].breaks = DayBreaks(plan.days[i])
<1> DEFINE n == Len(plan.days)
           day == plan.days[i]
           out == f[i - 1]
           d == Cardinality(ShownUpTo(plan, i))
           Shown(k) == d \in DOMAIN f[k].days /\ f[k].days[d].breaks = DayBreaks(day)
           P == {k \in 0 .. n - i : Shown(i + k)}
<1>1. n \in Nat /\ i \in 1 .. n /\ i - 1 \in 0 .. n
  BY DEF PlansV2, ShownDays
<1>2. out \in Outs /\ day \in Seq(BlocksV2) /\ SoundDay(ToSet(day))
      /\ DayTaken(plan, out, day, f[i])
  BY <1>1, DaysStay
<1>3. Shown(i)
  <2>1. Counts(f, plan, i - 1)
    BY <1>1, DaysCounted
  <2>2. /\ Len(out.days) = Cardinality(ShownUpTo(plan, i - 1))
        /\ out.practice = NoPractice <=> \A j \in 1 .. i - 1 : ~PracticeOnly(plan.days[j])
    BY <2>1 DEF Counts
  <2>3. ~SlotTakes(out, day) /\ day # <<>>
    BY <2>2 DEF SlotTakes, ShownDays, TakenAsPractice, PracticeOnly
  <2>4. d = Len(out.days) + 1
    BY <1>1, <2>2, ShownOneMore
  <2> DEFINE e == V1Day(plan, out, day)
  <2> HIDE DEF day, out, d
  <2>5. e \in DaysV1 /\ e.breaks = DayBreaks(day)
    BY <1>2, <2>3, V1DayType
  <2>6. f[i].days = Append(out.days, e)
    BY <1>2, <2>3 DEF DayTaken
  <2>7. out.days \in Seq(DaysV1)
    BY <1>2 DEF Outs
  <2> HIDE DEF e
  <2>8. d \in DOMAIN f[i].days /\ f[i].days[d] = e
    BY <2>4, <2>5, <2>6, <2>7
  <2> QED BY <2>5, <2>8
<1> HIDE DEF day, out, d
<1>4. ASSUME NEW k \in 0 .. n - i - 1, k \in P PROVE k + 1 \in P
  <2> DEFINE j == i + (k + 1)
  <2>1. j \in 1 .. n /\ j - 1 = i + k /\ k + 1 \in 0 .. n - i
    BY <1>1, <1>4, SMTT(30)
  <2>2. Shown(i + k)
    BY <1>4
  <2> HIDE DEF j
  <2>3. d \in DOMAIN f[j].days /\ f[j].days[d] = f[i + k].days[d]
    BY <2>1, <2>2, DaysStay
  <2>4. Shown(j)
    BY <2>2, <2>3
  <2> QED BY <2>1, <2>4 DEF j
<1>5. \A k \in 0 .. n - i : k \in P
  <2> DEFINE m == n - i
  <2>1. m \in Nat /\ 0 \in 0 .. m /\ i + 0 = i
    BY <1>1
  <2>2. 0 \in P
    BY <1>3, <2>1
  <2>3. \A k \in 0 .. m - 1 : k \in P => k + 1 \in P
    BY <1>4
  <2> HIDE DEF P, m
  <2>4. \A k \in 0 .. m : k \in P
    BY <2>1, <2>2, <2>3, UpToByStep
  <2> QED BY <2>4 DEF m
<1>6. Shown(n)
  <2>1. n - i \in 0 .. n - i /\ i + (n - i) = n
    <3> HIDE DEF n
    <3> QED BY <1>1
  <2>2. n - i \in P
    <3> HIDE DEF P
    <3> QED BY <1>5, <2>1
  <2>3. Shown(i + (n - i))
    BY <2>2
  <2> QED BY <2>1, <2>3
<1> QED BY <1>6 DEF day, d

LEMMA ViewIs ==
  ASSUME NEW plan \in PlansV2, NEW out \in Outs
  PROVE  LET v == ViewFrom(plan, out)
         IN  /\ v \in PlansV1 /\ v.days = out.days /\ v.playoffs = out.playoffs
             /\ v.practice = out.practice
<1>1. /\ out.days \in Seq(DaysV1) /\ out.playoffs \in Seq(PlayoffsV1)
      /\ out.practice \in PracticesV1 \cup {NoPractice} /\ plan.ct \in Nat /\ plan.buffer \in Nat
  BY DEF Outs, PlansV2
<1> QED BY <1>1 DEF ViewFrom, PlansV1

LEMMA ShapedKeepsGapsIdle == Shaped => GapsStayIdle
<1> DEFINE Shown(r, i) == Cardinality(ShownUpTo(rows[r], i))
<1> SUFFICES ASSUME Shaped, NEW r \in Rows, rows[r] # NoPlan, rows[r].v = 2,
                    NEW i \in ShownDays(rows[r])
             PROVE  /\ Shown(r, i) \in DOMAIN DowngradeV2ToV1(rows[r]).days
                    /\ \A b, c \in ToSet(rows[r].days[i]) :
                         /\ b.type \in MatchTypes /\ c.type \in MatchTypes /\ b.end < c.start
                         /\ \A o \in ToSet(rows[r].days[i]) :
                              o.type \in MatchTypes => o.end <= b.end \/ o.start >= c.start
                         => Spanned(DowngradeV2ToV1(rows[r]).days[Shown(r, i)].breaks, b.end, c.start)
  BY DEF GapsStayIdle, ShownUpTo
<1> DEFINE plan == rows[r]
           day == plan.days[i]
           v == DowngradeV2ToV1(plan)
           d == Cardinality(ShownUpTo(plan, i))
<1>1. plan \in PlansV2 /\ Sound(plan)
  <2>1. plan \in Stored
    BY DEF Shaped
  <2>2. plan \in GoodV2
    <3>1. plan \in OldPlans => plan.v = 1
      BY <2>1, Disjoint
    <3> QED BY <2>1, <3>1 DEF Stored
  <2> QED BY <2>2 DEF GoodV2
<1>2. day \in Seq(BlocksV2) /\ SoundDay(ToSet(day))
  BY <1>1 DEF PlansV2, Sound, ShownDays
<1>3. PICK f : IsDowngrade(f, plan) /\ v = ViewFrom(plan, f[Len(plan.days)])
  BY <1>1, DowngradeIs
<1>4. Len(plan.days) \in Nat /\ f[Len(plan.days)] \in Outs
  <2> DEFINE n == Len(plan.days)
  <2>1. n \in Nat /\ n \in 0 .. n
    BY <1>1 DEF PlansV2
  <2>2. f \in [0 .. n -> Outs]
    BY <1>3 DEF IsDowngrade
  <2> HIDE DEF n
  <2>3. n \in Nat /\ f[n] \in Outs
    BY <2>1, <2>2
  <2> QED BY <2>3 DEF n
<1>5. v.days = f[Len(plan.days)].days
  BY <1>1, <1>3, <1>4, ViewIs
<1>6. d \in DOMAIN v.days /\ v.days[d].breaks = DayBreaks(day)
  <2> HIDE DEF v
  <2> QED BY <1>1, <1>3, <1>5, DayIsShown
<1>7. ASSUME NEW b \in ToSet(day), b.type \in MatchTypes, NEW c \in ToSet(day), c.type \in MatchTypes,
             b.end < c.start,
             \A o \in ToSet(day) : o.type \in MatchTypes => o.end <= b.end \/ o.start >= c.start
      PROVE  Spanned(v.days[d].breaks, b.end, c.start)
  <2> HIDE DEF day, v, d
  <2>1. \E idle \in ToSet(DayBreaks(day)) : idle.start <= b.end /\ c.start <= idle.end
    BY <1>2, <1>7, GapIsSpanned
  <2> QED BY <1>6, <2>1 DEF Spanned
<1> QED BY <1>6, <1>7

-----------------------------------------------------------------------------
\* A plain plan returns from its V1 shape.
LEMMA LeavesKept ==
  ASSUME NEW L, \A c \in L : c \in Blocks /\ WindowOk(c)
  PROVE  /\ TimelyOf({V1Break(c) : c \in L}) = {V1Break(c) : c \in L}
         /\ SpansAs("break", {V1Break(c) : c \in L}) = SpansAs("break", L)
         /\ (\A c \in L : NameTells(c)) => NamedSpans({V1Break(c) : c \in L}) = Spans(L)
<1> DEFINE V == {V1Break(c) : c \in L}
<1>1. \A c \in L : /\ V1Break(c).name = BreakName(c) /\ HasWindow(c)
                   /\ V1Break(c).start = c.start /\ V1Break(c).end = c.end
  BY V1BreakType DEF WindowOk
<1>2. \A c \in L : HasWindow(V1Break(c))
  BY <1>1 DEF HasWindow
<1>3. TimelyOf(V) = V
  BY <1>2 DEF TimelyOf
<1>4. SpansAs("break", V) = {<<"break", V1Break(c).start, V1Break(c).end>> : c \in L}
  BY DEF SpansAs
<1>5. SpansAs("break", V) = SpansAs("break", L)
  BY <1>1, <1>4 DEF SpansAs
<1>6. NamedSpans(V) = {<<DetectSubtype(V1Break(c).name), V1Break(c).start, V1Break(c).end>> : c \in L}
  BY DEF NamedSpans
<1>7. ASSUME \A c \in L : NameTells(c) PROVE NamedSpans(V) = Spans(L)
  <2>1. \A c \in L : <<DetectSubtype(V1Break(c).name), V1Break(c).start, V1Break(c).end>>
                       = <<c.type, c.start, c.end>>
    BY <1>1, <1>7 DEF NameTells
  <2> QED BY <1>6, <2>1 DEF Spans
<1> QED BY <1>3, <1>5, <1>7

LEMMA BreaksAsTheyAre ==
  ASSUME NEW type, NEW L, \A c \in L : c.type = type
  PROVE  Spans(L) = SpansAs(type, L)
BY DEF Spans, SpansAs

LEMMA PracticeKept ==
  ASSUME NEW plan, NEW day \in Seq(BlocksV2), SoundDay(ToSet(day)), PlainPractice(ToSet(day)),
         NEW new, DayTaken(plan, NoDays, day, new)
  PROVE  /\ Practising(new) /\ PracticeSpans(new) = DaySpans(ToSet(day))
         /\ new.days = <<>> /\ new.playoffs = <<>>
<1>1. PICK p \in ToSet(day) : /\ ToSet(day) = {p} /\ p.type = "practice"
                              /\ \A c \in ToSet(p.breaks) : c.type = "break"
  BY DEF PlainPractice
<1>2. p \in BlocksV2 /\ WindowOk(p) /\ \A c \in ToSet(p.breaks) : WindowOk(c)
  BY InRange DEF SoundDay
<1> DEFINE t == OfType(day, {"practice"})
           q == OfType(day, {"qualification"})
<1>3. /\ t \in Seq(BlocksV2) /\ ToSet(t) = {b \in ToSet(day) : b.type \in {"practice"}}
      /\ q \in Seq(BlocksV2) /\ ToSet(q) = {b \in ToSet(day) : b.type \in {"qualification"}}
  BY OfTypeIs
<1> HIDE DEF t, q
<1>4. t # <<>> /\ Head(t) = p
  <2>1. ToSet(t) = {p}
    BY <1>1, <1>3
  <2>2. t # <<>>
    BY <2>1, NoBreaks
  <2> QED BY <1>3, <2>1, <2>2, NotEmpty
<1>5. q = <<>>
  <2>1. ToSet(q) = {}
    BY <1>1, <1>3
  <2> QED BY <1>3, <2>1, NotEmpty
<1>6. SlotTakes(NoDays, day)
  BY <1>4, <1>5 DEF SlotTakes, NoDays, t, q
<1>7. new.days = <<>> /\ new.playoffs = <<>> /\ new.practice = V1Practice(p)
  BY <1>4, <1>6 DEF DayTaken, NoDays, t
<1> DEFINE v == V1Practice(p)
           L == ToSet(p.breaks)
<1>8. /\ v \in PracticesV1 /\ v.start = p.start /\ v.end = p.end
      /\ ToSet(v.breaks) = {V1Break(c) : c \in L}
  BY <1>2, V1PracticeIs
<1>9. \A c \in L : c \in Blocks /\ WindowOk(c)
  <2>1. p.breaks \in Seq(NestedV2)
    BY <1>2 DEF BlocksV2
  <2> QED BY <1>2, <2>1, InRange DEF Blocks
<1> HIDE DEF v
<1>10. Practising(new)
  BY <1>2, <1>7, <1>8, PracticeAssumption DEF Practising, WindowOk, HasWindow, v
<1>11. SpansAs("break", TimelyOf(ToSet(v.breaks))) = Spans(L)
  <2> HIDE DEF L
  <2>1. /\ TimelyOf({V1Break(c) : c \in L}) = {V1Break(c) : c \in L}
        /\ SpansAs("break", {V1Break(c) : c \in L}) = SpansAs("break", L)
    BY <1>9, LeavesKept
  <2>2. Spans(L) = SpansAs("break", L)
    BY <1>1, BreaksAsTheyAre DEF L
  <2> QED BY <1>8, <2>1, <2>2
<1>12. DaySpans({p}) = {<<"practice", p.start, p.end>>} \cup Spans(L)
  <2>1. Spans({p}) = {<<"practice", p.start, p.end>>}
    BY <1>1 DEF Spans
  <2>2. UNION {Spans(ToSet(b.breaks)) : b \in {p}} = Spans(L)
    OBVIOUS
  <2> QED BY <2>1, <2>2 DEF DaySpans
<1>13. PracticeSpans(new) = {<<"practice", v.start, v.end>>} \cup SpansAs("break", TimelyOf(ToSet(v.breaks)))
  BY <1>7 DEF PracticeSpans, v
<1> QED BY <1>1, <1>7, <1>8, <1>10, <1>11, <1>12, <1>13

LEMMA OneMatchBlockHasNoGaps ==
  ASSUME NEW day \in Seq(BlocksV2), NEW q \in BlocksV2, WindowOk(q),
         \A b \in ToSet(day) : b.type \in MatchTypes => b = q
  PROVE  IdleIn(day) = {}
<1> DEFINE mb == MatchBlocksOf(day)
<1>1. mb \in Seq(BlocksV2) /\ ToSet(mb) = {b \in ToSet(day) : b.type \in MatchTypes}
  BY MatchBlocksIs
<1> HIDE DEF mb
<1>2. ASSUME NEW k \in DOMAIN mb, OpenGap(mb, FlatOf(day), k) PROVE FALSE
  <2>1. k \in DOMAIN mb /\ k + 1 \in DOMAIN mb /\ mb[k].end < mb[k + 1].start
    BY <1>1, <1>2 DEF OpenGap
  <2>2. mb[k] = q /\ mb[k + 1] = q
    BY <1>1, <2>1, InRange
  <2>3. q.start < q.end /\ q.start \in Nat /\ q.end \in Nat
    BY DEF WindowOk, BlocksV2
  <2> QED BY <2>1, <2>2, <2>3
<1> QED BY <1>2 DEF IdleIn, mb

LEMMA PlainDayKept ==
  ASSUME NEW plan \in PlansV2, NEW out \in Outs, NEW day \in Seq(BlocksV2), SoundDay(ToSet(day)),
         PlainDay(ToSet(day))
  PROVE  /\ OfType(day, {"qualification"}) # <<>> /\ day # <<>>
         /\ {<<"qualification", V1Day(plan, out, day).start, V1Day(plan, out, day).end>>}
              \cup NamedSpans(TimelyOf(ToSet(V1Day(plan, out, day).breaks)))
              \cup SpansAs("playoff", TimelyOf(ToSet(V1Playoffs(Len(out.days), day))))
            = DaySpans(ToSet(day))
<1> DEFINE B == ToSet(day)
           d == V1Day(plan, out, day)
           po == V1Playoffs(Len(out.days), day)
           T3 == {b \in B : b.type \in Tier3}
           PO == {b \in B : b.type = "playoff"}
<1>1. PICK q \in B : q.type = "qualification" /\ \A b \in B : b.type \in MatchTypes => b = q
  BY DEF PlainDay
<1>2. /\ \A b \in B : /\ b \in BlocksV2 /\ WindowOk(b)
                      /\ b.type \in Tier3 => b.breaks = <<>>
                      /\ b.type = "playoff" => b.breaks = <<>>
                      /\ b.type \in Tier3 => NameTells(b)
                      /\ \A c \in ToSet(b.breaks) : NameTells(c) /\ WindowOk(c)
  BY InRange DEF SoundDay, Tiered, PlainDay
<1>3. day # <<>>
  BY NoBreaks
<1>4. OfType(day, {"qualification"}) # <<>>
  <2>1. ToSet(OfType(day, {"qualification"})) = {b \in ToSet(day) : b.type \in {"qualification"}}
    BY OfTypeIs
  <2> QED BY <1>1, <2>1, NoBreaks
<1>5. d.start = q.start /\ d.end = q.end
  <2>1. d.start = DayWindow(day, plan.ct).start /\ d.end = DayWindow(day, plan.ct).end
    BY <1>3, V1DayType
  <2>2. plan.ct \in Nat
    BY DEF PlansV2
  <2>3. PICK x \in ToSet(day) : /\ x.type = "qualification"
                                /\ DayWindow(day, plan.ct).start = x.start
                                /\ DayWindow(day, plan.ct).end = x.end
    BY <1>3, <1>4, <2>2, DayWindowIs
  <2>4. x = q
    BY <1>1, <2>3 DEF MatchTypes
  <2> QED BY <2>1, <2>3, <2>4
<1> DEFINE L == ToSet(q.breaks) \cup T3
<1>6. ToSet(d.breaks) = {V1Break(c) : c \in L}
  <2>1. d.breaks = DayBreaks(day)
    BY <1>3, V1DayType
  <2>2. IdleIn(day) = {}
    BY <1>1, <1>2, OneMatchBlockHasNoGaps
  <2>3. ToSet(DayBreaks(day)) = {V1Break(c) : c \in LeavesIn(B)} \cup IdleIn(day)
    BY DayBreaksIs
  <2>4. LeavesIn(B) = L
    <3>1. {x \in B : x.type \in MatchTypes} = {q}
      BY <1>1 DEF MatchTypes
    <3>2. UNION {ToSet(b.breaks) : b \in {q}} = ToSet(q.breaks)
      OBVIOUS
    <3> QED BY <3>1, <3>2 DEF LeavesIn
  <2> HIDE DEF d, L, B
  <2> QED BY <2>1, <2>2, <2>3, <2>4
<1>7. \A c \in L : c \in Blocks /\ WindowOk(c) /\ NameTells(c)
  <2>1. q.breaks \in Seq(NestedV2)
    BY <1>2 DEF BlocksV2
  <2>2. \A c \in ToSet(q.breaks) : c \in NestedV2 /\ WindowOk(c) /\ NameTells(c)
    BY <1>2, <2>1, InRange
  <2>3. \A c \in T3 : c \in BlocksV2 /\ WindowOk(c) /\ NameTells(c)
    BY <1>2
  <2> HIDE DEF T3
  <2> QED BY <2>2, <2>3 DEF Blocks
<1>8. NamedSpans(TimelyOf(ToSet(d.breaks))) = Spans(ToSet(q.breaks)) \cup Spans(T3)
  <2>1. Spans(L) = Spans(ToSet(q.breaks)) \cup Spans(T3)
    BY SpansOfUnion
  <2> HIDE DEF L, d, T3
  <2>2. /\ TimelyOf({V1Break(c) : c \in L}) = {V1Break(c) : c \in L}
        /\ NamedSpans({V1Break(c) : c \in L}) = Spans(L)
    BY <1>7, LeavesKept
  <2> QED BY <1>6, <2>1, <2>2
<1>9. SpansAs("playoff", TimelyOf(ToSet(po))) = Spans(PO)
  <2> DEFINE n == Len(out.days)
             W == {V1Playoff(n, b) : b \in PO}
  <2>1. n \in Nat
    BY DEF Outs
  <2>2. ToSet(po) = W
    <3> HIDE DEF n
    <3> QED BY <2>1, V1PlayoffsIs DEF n
  <2>3. \A b \in PO : V1Playoff(n, b).start = b.start /\ V1Playoff(n, b).end = b.end
    BY DEF V1Playoff
  <2>4. \A b \in PO : HasWindow(V1Playoff(n, b))
    BY <1>2, <2>3 DEF HasWindow, WindowOk
  <2>5. TimelyOf(W) = W
    BY <2>4 DEF TimelyOf
  <2>6. SpansAs("playoff", W) = {<<"playoff", V1Playoff(n, b).start, V1Playoff(n, b).end>> : b \in PO}
    BY DEF SpansAs
  <2>7. Spans(PO) = SpansAs("playoff", PO)
    BY BreaksAsTheyAre
  <2> HIDE DEF W, PO, po, n
  <2>8. SpansAs("playoff", W) = SpansAs("playoff", PO)
    BY <2>3, <2>6 DEF SpansAs
  <2> QED BY <2>2, <2>5, <2>7, <2>8
<1>10. B = {q} \cup T3 \cup PO
  <2>1. \A b \in B : b.type \in Tier2 \cup Tier3
    BY <1>2 DEF BlocksV2
  <2>2. \A b \in B : b = q \/ b.type \in Tier3 \/ b.type = "playoff"
    BY <1>1, <2>1 DEF Tier2, MatchTypes
  <2> QED BY <2>2
<1>11. Spans(B) = {<<"qualification", q.start, q.end>>} \cup Spans(T3) \cup Spans(PO)
  <2>1. Spans({q}) = {<<"qualification", q.start, q.end>>}
    BY <1>1 DEF Spans
  <2> DEFINE A == {q} \cup T3
  <2> HIDE DEF B, T3, PO, L, d, po
  <2>2. Spans(A) = Spans({q}) \cup Spans(T3)
    BY SpansOfUnion
  <2> HIDE DEF A
  <2>3. Spans(A \cup PO) = Spans(A) \cup Spans(PO)
    BY SpansOfUnion
  <2> QED BY <1>10, <2>1, <2>2, <2>3 DEF A
<1>12. UNION {Spans(ToSet(b.breaks)) : b \in B} = Spans(ToSet(q.breaks))
  <2>1. \A b \in T3 \cup PO : Spans(ToSet(b.breaks)) = {}
    BY <1>2, NoBreaks
  <2> HIDE DEF B, T3, PO
  <2> QED BY <1>10, <2>1
<1> HIDE DEF B, T3, PO, d, po
<1>13. {<<"qualification", d.start, d.end>>} \cup NamedSpans(TimelyOf(ToSet(d.breaks)))
         \cup SpansAs("playoff", TimelyOf(ToSet(po))) = DaySpans(B)
  BY <1>5, <1>8, <1>9, <1>11, <1>12 DEF DaySpans
<1> QED BY <1>3, <1>4, <1>13 DEF B, d, po

\* What the walk over a plain plan keeps: after k days every one of them is in
\* the view, the practice day apart and the others renumbered, and no playoff
\* names a day that is still to come.
Led(plan) == plan.days # <<>> /\ PlainPractice(ToSet(plan.days[1]))
Left(plan, k) == IF k >= 1 /\ Led(plan) THEN 1 ELSE 0
Follows(plan, k, out) ==
  /\ Len(out.days) = k - Left(plan, k)
  /\ IF Left(plan, k) = 0 THEN out.practice = NoPractice
     ELSE Practising(out) /\ PracticeSpans(out) = DaySpans(ToSet(plan.days[1]))
  /\ \A j \in DOMAIN out.days :
       RegularSpans(out, j) = DaySpans(ToSet(plan.days[j + Left(plan, k)]))
  /\ \A p \in ToSet(out.playoffs) : p.day < Len(out.days)

\* A day added at the end leaves the days before it as they were.
LEMMA DaysBefore ==
  ASSUME NEW out \in Outs, NEW new \in Outs, NEW d \in DaysV1, NEW po \in Seq(PlayoffsV1),
         new.days = Append(out.days, d), new.playoffs = out.playoffs \o po,
         \A p \in ToSet(po) : p.day = Len(out.days),
         \A p \in ToSet(out.playoffs) : p.day < Len(out.days)
  PROVE  /\ Len(new.days) = Len(out.days) + 1
         /\ \A p \in ToSet(new.playoffs) : p.day < Len(new.days)
         /\ \A j \in DOMAIN out.days : RegularSpans(new, j) = RegularSpans(out, j)
         /\ RegularSpans(new, Len(out.days) + 1) =
              {<<"qualification", d.start, d.end>>} \cup NamedSpans(TimelyOf(ToSet(d.breaks)))
                \cup SpansAs("playoff", TimelyOf(ToSet(po)))
<1> DEFINE n == Len(out.days)
<1>1. out.days \in Seq(DaysV1) /\ out.playoffs \in Seq(PlayoffsV1) /\ n \in Nat /\ DOMAIN out.days = 1 .. n
  BY DEF Outs
<1>2. /\ Len(new.days) = n + 1 /\ new.days[n + 1] = d
      /\ \A j \in 1 .. n : new.days[j] = out.days[j]
  BY <1>1
<1>3. ToSet(new.playoffs) = ToSet(out.playoffs) \cup ToSet(po)
  BY <1>1, ConcatIs
<1>4. /\ \A p \in ToSet(out.playoffs) : p.day \in Nat /\ p.day < n
      /\ \A p \in ToSet(po) : p.day = n
  <2>1. ToSet(out.playoffs) \subseteq PlayoffsV1
    BY <1>1, InRange
  <2> QED BY <2>1 DEF PlayoffsV1
<1> HIDE DEF n
<1>5. \A p \in ToSet(new.playoffs) : p.day < Len(new.days)
  BY <1>1, <1>2, <1>3, <1>4
<1>6. ASSUME NEW j \in 1 .. n PROVE RegularSpans(new, j) = RegularSpans(out, j)
  <2>1. \A p \in ToSet(po) : p.day # j - 1
    BY <1>1, <1>4
  <2>2. PlayoffsAt(new, j) = PlayoffsAt(out, j)
    BY <1>3, <2>1 DEF PlayoffsAt, TimelyOf
  <2>3. new.days[j] = out.days[j]
    BY <1>2
  <2> QED BY <2>2, <2>3 DEF RegularSpans
<1>7. PlayoffsAt(new, n + 1) = TimelyOf(ToSet(po))
  <2>1. (n + 1) - 1 = n /\ \A p \in ToSet(out.playoffs) : p.day # n
    BY <1>1, <1>4
  <2> QED BY <1>3, <1>4, <2>1 DEF PlayoffsAt, TimelyOf
<1>8. RegularSpans(new, n + 1) =
              {<<"qualification", d.start, d.end>>} \cup NamedSpans(TimelyOf(ToSet(d.breaks)))
                \cup SpansAs("playoff", TimelyOf(ToSet(po)))
  BY <1>2, <1>7 DEF RegularSpans
<1> QED BY <1>1, <1>2, <1>5, <1>6, <1>8 DEF n

LEMMA PlainDayTaken ==
  ASSUME NEW plan \in PlansV2, NEW out \in Outs, NEW new \in Outs, NEW day \in Seq(BlocksV2),
         SoundDay(ToSet(day)), PlainDay(ToSet(day)), DayTaken(plan, out, day, new),
         \A p \in ToSet(out.playoffs) : p.day < Len(out.days)
  PROVE  /\ Len(new.days) = Len(out.days) + 1 /\ new.practice = out.practice
         /\ \A p \in ToSet(new.playoffs) : p.day < Len(new.days)
         /\ \A j \in DOMAIN out.days : RegularSpans(new, j) = RegularSpans(out, j)
         /\ RegularSpans(new, Len(out.days) + 1) = DaySpans(ToSet(day))
<1> DEFINE d == V1Day(plan, out, day)
           n == Len(out.days)
           po == V1Playoffs(n, day)
<1>1. /\ OfType(day, {"qualification"}) # <<>> /\ day # <<>>
      /\ {<<"qualification", d.start, d.end>>} \cup NamedSpans(TimelyOf(ToSet(d.breaks)))
              \cup SpansAs("playoff", TimelyOf(ToSet(po))) = DaySpans(ToSet(day))
  BY PlainDayKept
<1>2. /\ new.days = Append(out.days, d) /\ new.playoffs = out.playoffs \o po
      /\ new.practice = out.practice
  BY <1>1 DEF DayTaken, SlotTakes
<1>3. d \in DaysV1
  BY <1>1, V1DayType
<1>4. n \in Nat
  BY DEF Outs
<1>5. po \in Seq(PlayoffsV1) /\ \A p \in ToSet(po) : p.day = n
  <2>1. /\ po \in Seq(PlayoffsV1)
        /\ ToSet(po) = {V1Playoff(n, b) : b \in {x \in ToSet(day) : x.type = "playoff"}}
    <3> HIDE DEF n
    <3> QED BY <1>4, V1PlayoffsIs
  <2> HIDE DEF po
  <2> QED BY <2>1 DEF V1Playoff
<1> HIDE DEF d, po
<1>6. /\ Len(new.days) = Len(out.days) + 1
      /\ \A p \in ToSet(new.playoffs) : p.day < Len(new.days)
      /\ \A j \in DOMAIN out.days : RegularSpans(new, j) = RegularSpans(out, j)
      /\ RegularSpans(new, Len(out.days) + 1) =
              {<<"qualification", d.start, d.end>>} \cup NamedSpans(TimelyOf(ToSet(d.breaks)))
                \cup SpansAs("playoff", TimelyOf(ToSet(po)))
  BY <1>2, <1>3, <1>5, DaysBefore, ZenonT(30)
<1> QED BY <1>1, <1>2, <1>6

LEMMA FollowsOn ==
  ASSUME NEW plan \in PlansV2, Sound(plan), Plain(plan), NEW k \in 1 .. Len(plan.days),
         NEW out \in Outs, NEW new \in Outs, Follows(plan, k - 1, out),
         DayTaken(plan, out, plan.days[k], new), k = 1 => out = NoDays
  PROVE  Follows(plan, k, new)
<1> DEFINE day == plan.days[k]
<1>1. /\ plan.days \in Seq(Seq(BlocksV2)) /\ Len(plan.days) \in Nat
      /\ day \in Seq(BlocksV2) /\ SoundDay(ToSet(day))
      /\ (k = 1 /\ PlainPractice(ToSet(day))) \/ PlainDay(ToSet(day))
  <2>1. k \in DOMAIN plan.days /\ plan.days \in Seq(Seq(BlocksV2))
    BY DEF PlansV2
  <2> QED BY <2>1 DEF Sound, Plain
<1>2. CASE k = 1 /\ PlainPractice(ToSet(day))
  <2>1. Left(plan, k) = 1
    BY <1>1, <1>2 DEF Left, Led
  <2>2. /\ Practising(new) /\ PracticeSpans(new) = DaySpans(ToSet(day))
        /\ new.days = <<>> /\ new.playoffs = <<>>
    BY <1>1, <1>2, PracticeKept
  <2>3. Len(new.days) = k - 1 /\ DOMAIN new.days = {} /\ ToSet(new.playoffs) = {}
    BY <1>2, <2>2, NoBreaks
  <2> HIDE DEF day
  <2> QED BY <1>2, <2>1, <2>2, <2>3 DEF Follows, day
<1>3. CASE PlainDay(ToSet(day))
  <2>1. Left(plan, k) = Left(plan, k - 1) /\ Left(plan, k) \in {0, 1}
    <3>1. k = 1 => ~Led(plan)
      <4>1. ASSUME PlainPractice(ToSet(day)) PROVE FALSE
        BY <1>3, <4>1 DEF PlainPractice, PlainDay
      <4> QED BY <4>1 DEF Led
    <3> QED BY <3>1 DEF Left
  <2> DEFINE s == Left(plan, k)
             n == Len(out.days)
  <2>2. /\ n = (k - 1) - s
        /\ IF s = 0 THEN out.practice = NoPractice
           ELSE Practising(out) /\ PracticeSpans(out) = DaySpans(ToSet(plan.days[1]))
        /\ \A j \in DOMAIN out.days : RegularSpans(out, j) = DaySpans(ToSet(plan.days[j + s]))
        /\ \A p \in ToSet(out.playoffs) : p.day < n
    BY <2>1 DEF Follows
  <2>3. /\ Len(new.days) = n + 1 /\ new.practice = out.practice
        /\ \A p \in ToSet(new.playoffs) : p.day < Len(new.days)
        /\ \A j \in DOMAIN out.days : RegularSpans(new, j) = RegularSpans(out, j)
        /\ RegularSpans(new, n + 1) = DaySpans(ToSet(day))
    BY <1>1, <1>3, <2>2, PlainDayTaken
  <2>4. n \in Nat /\ DOMAIN out.days = 1 .. n /\ DOMAIN new.days = 1 .. Len(new.days)
    BY DEF Outs
  <2> HIDE DEF n, s, day
  <2>5. Len(new.days) = k - s /\ n + 1 + s = k
    BY <2>1, <2>2, <2>3, <2>4 DEF s
  <2>6. ASSUME NEW j \in DOMAIN new.days PROVE RegularSpans(new, j) = DaySpans(ToSet(plan.days[j + s]))
    <3>1. CASE j \in 1 .. n
      BY <2>2, <2>3, <2>4, <3>1
    <3>2. CASE j = n + 1
      BY <2>3, <2>5, <3>2 DEF day
    <3> QED BY <2>3, <2>4, <3>1, <3>2
  <2>7. IF s = 0 THEN new.practice = NoPractice
        ELSE Practising(new) /\ PracticeSpans(new) = DaySpans(ToSet(plan.days[1]))
    BY <2>2, <2>3 DEF Practising, PracticeSpans
  <2> QED BY <2>3, <2>5, <2>6, <2>7 DEF Follows, s
<1> QED BY <1>1, <1>2, <1>3

LEMMA WalkFollows ==
  ASSUME NEW plan \in PlansV2, Sound(plan), Plain(plan), NEW f, IsDowngrade(f, plan)
  PROVE  Follows(plan, Len(plan.days), f[Len(plan.days)])
<1> DEFINE n == Len(plan.days)
           P == {k \in 0 .. n : Follows(plan, k, f[k])}
<1>1. n \in Nat /\ f[0] = NoDays
  BY DEF PlansV2, IsDowngrade
<1>2. 0 \in P
  <2>1. Follows(plan, 0, NoDays)
    BY NoBreaks DEF Follows, NoDays, Left
  <2> QED BY <1>1, <2>1
<1>3. ASSUME NEW k \in 0 .. n - 1, k \in P PROVE k + 1 \in P
  <2> DEFINE j == k + 1
  <2>1. j \in 1 .. n /\ j \in 0 .. n /\ j - 1 = k /\ (j = 1 => k = 0)
    BY <1>1, <1>3
  <2>2. Follows(plan, k, f[k])
    BY <1>3
  <2> HIDE DEF j, P
  <2>3. /\ f[j - 1] \in Outs /\ f[j] \in Outs
        /\ DayTaken(plan, f[j - 1], plan.days[j], f[j])
    BY <2>1, DaysStay
  <2>4. Follows(plan, j, f[j])
    BY <1>1, <2>1, <2>2, <2>3, FollowsOn
  <2> QED BY <2>1, <2>4 DEF j, P
<1>4. \A k \in 0 .. n : k \in P
  <2> HIDE DEF P, n
  <2> QED BY <1>1, <1>2, <1>3, UpToByStep
<1>5. n \in 0 .. n
  BY <1>1
<1> QED BY <1>4, <1>5

LEMMA PlainPlanReturns ==
  ASSUME NEW plan \in PlansV2, Sound(plan), Plain(plan)
  PROVE  WindowsV2(MigrateV1ToV2(DowngradeV2ToV1(plan))) = WindowsV2(plan)
<1> DEFINE n == Len(plan.days)
           view == DowngradeV2ToV1(plan)
<1>1. PICK f : IsDowngrade(f, plan) /\ view = ViewFrom(plan, f[n])
  BY DowngradeIs
<1> DEFINE out == f[n]
           s == Left(plan, n)
<1>2. n \in Nat /\ DOMAIN plan.days = 1 .. n /\ out \in Outs
  <2>1. n \in Nat /\ DOMAIN plan.days = 1 .. n /\ n \in 0 .. n
    BY DEF PlansV2
  <2>2. f \in [0 .. n -> Outs]
    BY <1>1 DEF IsDowngrade
  <2> HIDE DEF n
  <2> QED BY <2>1, <2>2
<1>3. Follows(plan, n, out)
  BY <1>1, WalkFollows
<1> HIDE DEF out, view
<1>4. /\ view \in PlansV1 /\ view.days = out.days /\ view.playoffs = out.playoffs
      /\ view.practice = out.practice
  BY <1>1, <1>2, ViewIs DEF out
<1>5. s \in {0, 1} /\ (s = 1 => n >= 1)
  BY DEF Left
<1>6. /\ Len(view.days) = n - s
      /\ s = 0 => ~Practising(view)
      /\ s = 1 => Practising(view) /\ PracticeSpans(view) = DaySpans(ToSet(plan.days[1]))
      /\ \A j \in DOMAIN view.days : RegularSpans(view, j) = DaySpans(ToSet(plan.days[s + j]))
  <2>1. \A j \in DOMAIN view.days : RegularSpans(view, j) = RegularSpans(out, j)
    BY <1>4 DEF RegularSpans, PlayoffsAt
  <2>2. \A j \in DOMAIN view.days : j + s = s + j
    <3>1. DOMAIN view.days = 1 .. Len(view.days)
      BY <1>4 DEF PlansV1
    <3> HIDE DEF s
    <3> QED BY <1>5, <3>1
  <2> QED BY <1>3, <1>4, <1>5, <2>1, <2>2 DEF Follows, Practising, PracticeSpans
<1> DEFINE D == DOMAIN view.days
           M == DOMAIN plan.days
           SaidOf(j) == Dated(j, DaySpans(ToSet(plan.days[j])))
           Regular(i) == Dated(Shift(view) + i, RegularSpans(view, i))
<1>7. Shift(view) = s /\ (Practising(view) <=> s = 1)
  BY <1>5, <1>6 DEF Shift
<1>8. D = 1 .. (n - s)
  <2>1. D = 1 .. Len(view.days)
    BY <1>4 DEF PlansV1
  <2> QED BY <1>6, <2>1
<1> HIDE DEF s, n
<1>9. /\ s = 1 => 1 \in M
      /\ \A j \in M : (s = 1 /\ j = 1) \/ \E i \in D : j = s + i
      /\ \A i \in D : s + i \in M
  <2>1. CASE s = 1
    <3>1. \A j \in M : j # 1 => j - 1 \in D /\ j = 1 + (j - 1)
      BY <1>2, <1>8, <2>1
    <3> QED BY <1>2, <1>5, <1>8, <2>1, <3>1
  <2>2. CASE s = 0
    BY <1>2, <1>8, <2>2
  <2> QED BY <1>5, <2>1, <2>2
<1>10. \A i \in D : Regular(i) = SaidOf(s + i)
  BY <1>6, <1>7
<1>11. s = 1 => Dated(1, PracticeSpans(view)) = SaidOf(1)
  BY <1>6
<1>12. WindowsV2(plan) = UNION {SaidOf(j) : j \in M}
  BY WindowsV2Is
<1>13. WindowsV1(view) = (IF Practising(view) THEN Dated(1, PracticeSpans(view)) ELSE {})
                           \cup (UNION {Regular(i) : i \in D})
  BY <1>4, WindowsV1Is
<1> HIDE DEF SaidOf, Regular, D, M
<1>14. UNION {SaidOf(j) : j \in M} = (IF s = 1 THEN SaidOf(1) ELSE {})
                                       \cup (UNION {SaidOf(s + i) : i \in D})
  <2>1. ASSUME NEW w, NEW j \in M, w \in SaidOf(j)
        PROVE  (s = 1 /\ w \in SaidOf(1)) \/ \E i \in D : w \in SaidOf(s + i)
    BY <1>9, <2>1
  <2>2. ASSUME NEW w, NEW i \in D, w \in SaidOf(s + i) PROVE \E j \in M : w \in SaidOf(j)
    BY <1>9, <2>2
  <2>3. ASSUME NEW w, s = 1, w \in SaidOf(1) PROVE \E j \in M : w \in SaidOf(j)
    BY <1>9, <2>3
  <2> QED BY <2>1, <2>2, <2>3
<1>15. {Regular(i) : i \in D} = {SaidOf(s + i) : i \in D}
  BY <1>10
<1>16. WindowsV1(view) = WindowsV2(plan)
  BY <1>7, <1>11, <1>12, <1>13, <1>14, <1>15
<1>17. WindowsV2(MigrateV1ToV2(view)) = WindowsV1(view)
  BY <1>4, MigrateIs
<1> QED BY <1>16, <1>17 DEF view

LEMMA MigratedIsPlain ==
  ASSUME NEW plan \in PlansV1
  PROVE  Plain(MigrateV1ToV2(plan))
<1> DEFINE m == MigrateV1ToV2(plan)
           n == Shift(plan)
<1>1. /\ m \in PlansV2 /\ Len(m.days) = n + Len(plan.days)
      /\ Practising(plan) => PlainPractice(ToSet(m.days[1]))
      /\ \A i \in DOMAIN plan.days : m.days[n + i] = RegularDay(plan, i)
  BY MigratedDays
<1> HIDE DEF m
<1>2. /\ DOMAIN m.days = 1 .. Len(m.days) /\ DOMAIN plan.days = 1 .. Len(plan.days)
      /\ Len(plan.days) \in Nat
  BY <1>1 DEF PlansV1, PlansV2
<1>3. \A i \in DOMAIN plan.days : PlainDay(ToSet(m.days[n + i]))
  BY <1>1, RegularDayIs
<1>4. ASSUME NEW j \in DOMAIN m.days
      PROVE  (j = 1 /\ PlainPractice(ToSet(m.days[j]))) \/ PlainDay(ToSet(m.days[j]))
  <2>1. CASE Practising(plan) /\ j = 1
    BY <1>1, <2>1
  <2>2. CASE ~(Practising(plan) /\ j = 1)
    <3>1. n \in {0, 1} /\ (n = 1 <=> Practising(plan))
      BY DEF Shift
    <3> HIDE DEF n
    <3>2. j - n \in DOMAIN plan.days /\ n + (j - n) = j
      BY <1>1, <1>2, <2>2, <3>1
    <3> QED BY <1>3, <3>2
  <2> QED BY <2>1, <2>2
<1> QED BY <1>4 DEF Plain, m

LEMMA ShapedReturns == Shaped => RoundTripKeepsWindows
<1> SUFFICES ASSUME Shaped, NEW r \in Rows, rows[r] # NoPlan, rows[r].v = 2 => Plain(rows[r])
             PROVE  Windows(MigrateV1ToV2(DowngradeV2ToV1(MigrateV1ToV2(rows[r])))) = Windows(rows[r])
  BY DEF RoundTripKeepsWindows
<1> DEFINE plan == rows[r]
           m == MigrateV1ToV2(plan)
           back == MigrateV1ToV2(DowngradeV2ToV1(m))
<1>1. plan \in OldPlans \/ plan \in GoodV2
  <2>1. plan \in Stored
    BY DEF Shaped
  <2> QED BY <2>1, Disjoint
<1>2. m \in PlansV2 /\ Sound(m) /\ Plain(m) /\ WindowsV2(m) = Windows(plan)
  <2>1. CASE plan \in OldPlans
    <3>1. plan \in PlansV1 /\ WellTimed(plan) /\ plan.v = 1
      BY <2>1, PlansAssumption DEF PlansV1
    <3> HIDE DEF plan
    <3>2. m \in PlansV2 /\ WindowsV2(m) = WindowsV1(plan) /\ Plain(m)
      BY <3>1, MigrateIs, MigratedIsPlain
    <3>3. Sound(m)
      BY <3>1, MigratedIsSound DEF Sound
    <3> QED BY <3>1, <3>2, <3>3 DEF Windows
  <2>2. CASE plan \in GoodV2
    <3>1. plan \in PlansV2 /\ Sound(plan) /\ plan.v = 2 /\ Plain(plan)
      BY <2>2 DEF GoodV2, PlansV2
    <3> HIDE DEF plan
    <3> QED BY <3>1 DEF MigrateV1ToV2, Windows
  <2> QED BY <1>1, <2>1, <2>2
<1> HIDE DEF m, plan
<1>3. WindowsV2(back) = WindowsV2(m)
  BY <1>2, PlainPlanReturns
<1>4. back.v = 2
  <2>1. DowngradeV2ToV1(m) \in PlansV1
    <3>1. PICK f : IsDowngrade(f, m) /\ DowngradeV2ToV1(m) = ViewFrom(m, f[Len(m.days)])
      BY <1>2, DowngradeIs
    <3>2. f[Len(m.days)] \in Outs
      <4> DEFINE n == Len(m.days)
      <4>1. n \in Nat /\ n \in 0 .. n
        BY <1>2 DEF PlansV2
      <4>2. f \in [0 .. n -> Outs]
        BY <3>1 DEF IsDowngrade
      <4> HIDE DEF n
      <4> QED BY <4>1, <4>2 DEF n
    <3> QED BY <1>2, <3>1, <3>2, ViewIs
  <2>2. back \in PlansV2
    BY <2>1, MigrateIs
  <2> QED BY <2>2 DEF PlansV2
<1>5. Windows(back) = WindowsV2(back)
  BY <1>4 DEF Windows
<1> QED BY <1>2, <1>3, <1>5 DEF plan, m

\* A plan of a V1 client's kind survives being shown in V1 shape and saved again
\* from there, and the V1 day a V2 day became has a break over every gap between
\* its match blocks, the first day of practice alone apart, which the practice
\* slot takes; for any plans, files, saves, script runs and crashes: of
\* downgrade_v2_to_v1 and migrate_v1_to_v2 together, for days in any number.
THEOREM V1ViewStands == Spec => []V1ViewIsFaithful
<1>1. Spec => []Shaped
  BY ShapedInit, ShapedStep, PTL DEF Spec
<1>2. Shaped => V1ViewIsFaithful
  BY ShapedReturns, ShapedKeepsGapsIdle DEF V1ViewIsFaithful
<1> QED BY <1>1, <1>2, PTL
=============================================================================
