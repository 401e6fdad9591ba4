--------------------------- MODULE RequestProofs ---------------------------
(***************************************************************************)
(* What ScheduleRequests keeps for any number of requests, teams, trials   *)
(* and permits: the types with the queue of the semaphore, and that the    *)
(* schedule stored is the best answer and stands on rows that exist.       *)
(***************************************************************************)
EXTENDS ScheduleRequests, SequenceTheorems, FiniteSetTheorems, TLAPS

-----------------------------------------------------------------------------
\* The queue of the semaphore: nobody waits twice.

NoTwice(q) == \A i, j \in 1..Len(q) : q[i] = q[j] => i = j

LEMMA EntersLast ==
  ASSUME NEW S, NEW q \in Seq(S), NoTwice(q), NEW x \in S, x \notin ToSet(q)
  PROVE  /\ Append(q, x) \in Seq(S) /\ NoTwice(Append(q, x))
         /\ ToSet(Append(q, x)) = ToSet(q) \cup {x}
<1> DEFINE r == Append(q, x)
<1>1. /\ r \in Seq(S) /\ Len(r) = Len(q) + 1
      /\ \A i \in 1..Len(q) : r[i] = q[i]
      /\ r[Len(q) + 1] = x
  BY AppendProperties
<1>2. /\ Len(q) \in Nat /\ DOMAIN q = 1..Len(q) /\ DOMAIN r = 1..Len(r)
  BY <1>1, LenProperties
<1> HIDE DEF r
<1>3. NoTwice(r)
  BY <1>1, <1>2 DEF NoTwice, ToSet
<1>4. ToSet(r) = ToSet(q) \cup {x}
  BY <1>1, <1>2 DEF ToSet
<1> QED
  BY <1>1, <1>3, <1>4 DEF r

LEMMA LeavesFirst ==
  ASSUME NEW S, NEW q \in Seq(S), NoTwice(q), q # <<>>
  PROVE  /\ Head(q) \in ToSet(q)
         /\ Tail(q) \in Seq(S) /\ NoTwice(Tail(q))
         /\ ToSet(Tail(q)) = ToSet(q) \ {Head(q)}
<1> DEFINE r == Tail(q)
<1>1. /\ r \in Seq(S) /\ Len(r) = Len(q) - 1
      /\ \A i \in 1..Len(r) : r[i] = q[i + 1]
  BY HeadTailProperties
<1>2. /\ Len(q) \in Nat \ {0} /\ DOMAIN q = 1..Len(q) /\ DOMAIN r = 1..Len(r)
      /\ Head(q) = q[1]
  BY <1>1, LenProperties, EmptySeq
<1> HIDE DEF r
<1>3. NoTwice(r)
  BY <1>1, <1>2 DEF NoTwice
<1>4. ASSUME NEW x \in ToSet(q) \ {q[1]}
      PROVE  x \in ToSet(r)
  <2>1. PICK i \in 1..Len(q) : x = q[i]
    BY <1>2 DEF ToSet
  <2>2. i # 1 /\ i - 1 \in 1..Len(r) /\ r[i - 1] = x
    BY <1>1, <1>2, <1>4, <2>1
  <2> QED
    BY <1>2, <2>2 DEF ToSet
<1>5. ASSUME NEW x \in ToSet(r)
      PROVE  x \in ToSet(q) \ {q[1]}
  <2>1. PICK i \in 1..Len(r) : x = r[i]
    BY <1>2 DEF ToSet
  <2>2. x = q[i + 1] /\ i + 1 \in 1..Len(q) /\ 1 \in 1..Len(q) /\ i + 1 # 1
    BY <1>1, <1>2, <2>1
  <2> QED
    BY <1>2, <2>2 DEF ToSet, NoTwice
<1>6. Head(q) \in ToSet(q)
  BY <1>2 DEF ToSet
<1> QED
  BY <1>1, <1>2, <1>3, <1>4, <1>5, <1>6 DEF r

LEMMA LeavesAt ==
  ASSUME NEW S, NEW q \in Seq(S), NoTwice(q), NEW i \in DOMAIN q
  PROVE  /\ RemoveAt(q, i) \in Seq(S) /\ NoTwice(RemoveAt(q, i))
         /\ ToSet(RemoveAt(q, i)) = ToSet(q) \ {q[i]}
<1> DEFINE r == RemoveAt(q, i)
           a == SubSeq(q, 1, i - 1)
           b == SubSeq(q, i + 1, Len(q))
<1>1. /\ Len(q) \in Nat /\ DOMAIN q = 1..Len(q) /\ i \in 1..Len(q)
      /\ \A j \in 1..Len(q) : q[j] \in S
  BY LenProperties, ElementOfSeq
<1>2. /\ a \in Seq(S) /\ Len(a) = i - 1
      /\ \A j \in 1..i - 1 : a[j] = q[j]
  <2>1. \A j \in 1..i - 1 : q[j] \in S
    BY <1>1
  <2>2. /\ a \in Seq(S) /\ Len(a) = IF 1 <= i - 1 THEN i - 1 - 1 + 1 ELSE 0
        /\ \A j \in 1..i - 1 - 1 + 1 : a[j] = q[1 + j - 1]
    BY <1>1, <2>1, SubSeqProperties
  <2> QED
    BY <1>1, <2>2
<1>3. /\ b \in Seq(S) /\ Len(b) = Len(q) - i
      /\ \A j \in 1..Len(q) - i : b[j] = q[i + j]
  <2>1. \A j \in i + 1..Len(q) : q[j] \in S
    BY <1>1
  <2>2. /\ b \in Seq(S)
        /\ Len(b) = IF i + 1 <= Len(q) THEN Len(q) - (i + 1) + 1 ELSE 0
        /\ \A j \in 1..Len(q) - (i + 1) + 1 : b[j] = q[i + 1 + j - 1]
    BY <1>1, <2>1, SubSeqProperties
  <2> HIDE DEF b
  <2>3. Len(q) - (i + 1) + 1 = Len(q) - i
    BY <1>1
  <2>4. \A j \in 1..Len(q) - i : b[j] = q[i + j]
    <3>1. \A j \in 1..Len(q) - i : i + 1 + j - 1 = i + j
      BY <1>1
    <3> QED
      BY <2>2, <2>3, <3>1
  <2> QED
    BY <1>1, <2>2, <2>3, <2>4
<1>4. /\ r \in Seq(S) /\ Len(r) = Len(q) - 1
      /\ \A j \in 1..Len(q) - 1 : r[j] = IF j < i THEN q[j] ELSE q[j + 1]
  <2> HIDE DEF a, b
  <2>1. r = a \o b
    BY DEF r, a, b, RemoveAt
  <2> HIDE DEF r
  <2>2. /\ r \in Seq(S) /\ Len(r) = Len(a) + Len(b)
        /\ \A j \in 1..Len(a) + Len(b) :
             r[j] = IF j <= Len(a) THEN a[j] ELSE b[j - Len(a)]
    BY <1>2, <1>3, <2>1, ConcatProperties
  <2>3. ASSUME NEW j \in 1..Len(q) - 1
        PROVE  r[j] = IF j < i THEN q[j] ELSE q[j + 1]
    <3>1. CASE j < i
      BY <1>1, <1>2, <1>3, <2>2, <3>1
    <3>2. CASE ~(j < i)
      <4>1. r[j] = b[j - (i - 1)] /\ j - (i - 1) \in 1..Len(q) - i
        BY <1>1, <1>2, <1>3, <2>2, <3>2
      <4>2. i + (j - (i - 1)) = j + 1
        BY <1>1
      <4> QED
        BY <1>3, <3>2, <4>1, <4>2
    <3> QED
      BY <3>1, <3>2
  <2> QED
    BY <1>1, <1>2, <1>3, <2>2, <2>3
<1> HIDE DEF r, a, b
<1>5. DOMAIN r = 1..Len(q) - 1
  BY <1>4, LenProperties
<1>6. NoTwice(r)
  <2>1. SUFFICES ASSUME NEW j \in 1..Len(q) - 1, NEW k \in 1..Len(q) - 1, r[j] = r[k]
                 PROVE  j = k
    BY <1>4 DEF NoTwice
  <2> DEFINE at(x) == IF x < i THEN x ELSE x + 1
  <2>2. q[at(j)] = q[at(k)] /\ at(j) \in 1..Len(q) /\ at(k) \in 1..Len(q)
    BY <1>1, <1>4, <2>1
  <2>3. at(j) = at(k)
    BY <2>2 DEF NoTwice
  <2> QED
    BY <1>1, <2>3
<1>7. ASSUME NEW x \in ToSet(r)
      PROVE  x \in ToSet(q) \ {q[i]}
  <2>1. PICK j \in 1..Len(q) - 1 : x = r[j]
    BY <1>5 DEF ToSet
  <2>2. \E k \in 1..Len(q) : k # i /\ x = q[k]
    BY <1>1, <1>4, <2>1
  <2> QED
    BY <1>1, <2>2 DEF ToSet, NoTwice
<1>8. ASSUME NEW x \in ToSet(q) \ {q[i]}
      PROVE  x \in ToSet(r)
  <2>1. PICK j \in 1..Len(q) : x = q[j] /\ j # i
    BY <1>1 DEF ToSet
  <2>2. CASE j < i
    <3>1. j \in 1..Len(q) - 1 /\ r[j] = x
      BY <1>1, <1>4, <2>1, <2>2
    <3> QED
      BY <1>5, <3>1 DEF ToSet
  <2>3. CASE j > i
    <3>1. j - 1 \in 1..Len(q) - 1 /\ r[j - 1] = x
      BY <1>1, <1>4, <2>1, <2>3
    <3> QED
      BY <1>5, <3>1 DEF ToSet
  <2> QED
    BY <1>1, <2>1, <2>2, <2>3
<1> QED
  BY <1>4, <1>6, <1>7, <1>8 DEF r

-----------------------------------------------------------------------------
\* The inductive invariant: what a request knows, given the abstract schedules.

Kinds == {None, "generate", "create", "assign", "add", "remove", "drop", "import"}
Pcs   == {"idle", "queued", "work", "store", "commit", "fetch", "edit"}

\* The best of the trials that answered so far, once one did.
IsBest(best, done) ==
  IF best = None THEN done = {}
  ELSE best \in done /\ \A r \in done : best <= r

\* An assignment has read as many teams as its abstract schedule has slots,
\* and nothing can happen to that schedule but its deletion.
Fits(plans, q) ==
  /\ DOMAIN q = {"pc", "kind", "target", "shape", "teams", "left", "done", "best"}
  /\ q.pc \in Pcs /\ q.kind \in Kinds /\ q.left \in 0..Trials
  /\ q.teams \subseteq Teams /\ q.done \subseteq Scores
  /\ IsBest(q.best, q.done)
  /\ q.pc \in {"queued", "work", "store", "commit"} <=>
       q.kind \in {"generate", "create", "assign"}
  /\ q.kind \in {"generate", "create", "assign"} => q.shape \in Shapes
  /\ q.pc = "queued" => q.kind # "create"
  /\ q.pc = "commit" => q.kind = "assign"
  /\ q.pc \in {"store", "commit"} /\ q.kind = "assign" => q.best # None
  /\ q.kind = "assign" =>
       /\ q.target \in Abstracts /\ plans[q.target] \in {q.shape, Deleted}
       /\ Cardinality(q.teams) = q.shape.size

Known   == reqs = [s \in Slots |-> reqs[s]] /\ \A s \in Slots : Fits(abstracts, reqs[s])
Waiting == waiters \in Seq(Slots) /\ NoTwice(waiters)
Inv     == TypeOK /\ Waiting /\ Known /\ StoredIsSound

TablesOK ==
  /\ event \in {"absent", "live", "frozen", "deleted"}
  /\ roster \subseteq Teams /\ (roster # {} => Live)
  /\ abstracts \in [Abstracts -> Shapes \cup {Unused, Deleted}]
  /\ active # None => active.teams \subseteq Teams /\ active.target \in Abstracts
  /\ StoredIsSound

\* An abstract schedule is stored under an unused id, and deleted.
Grows == \A a \in Abstracts :
           abstracts'[a] = abstracts[a] \/ abstracts[a] = Unused \/ abstracts'[a] = Deleted

LEMMA FitsStill ==
  ASSUME NEW q, Fits(abstracts, q), Grows
  PROVE  Fits(abstracts', q)
<1>1. Unused \notin Shapes /\ Unused # Deleted
  BY RequestsAssumption
<1>2. q.kind = "assign" => abstracts'[q.target] \in {q.shape, Deleted}
  BY <1>1 DEF Fits, Grows
<1> QED
  BY <1>2 DEF Fits

\* A step of request s that comes to q.
LEMMA InvKeeps ==
  ASSUME Inv, NEW s \in Slots, NEW q, reqs' = [reqs EXCEPT ![s] = q],
         Fits(abstracts', q), Grows, TablesOK', pool' \in {"up", "broken"},
         Waiting', q.pc = "queued" <=> s \in ToSet(waiters'),
         \A t \in Slots \ {s} : t \in ToSet(waiters') <=> t \in ToSet(waiters),
         q.pc = "work" /\ q.kind # "create" =>
           s \in Holders \/ Cardinality(Holders) < Permits
  PROVE  Inv'
<1>1. /\ reqs'[s] = q /\ reqs' = [t \in Slots |-> reqs'[t]]
      /\ \A t \in Slots \ {s} : reqs'[t] = reqs[t]
  BY DEF Inv, Known
<1>2. Known'
  BY <1>1, FitsStill DEF Inv, Known
<1>3. Cardinality(Holders') <= Permits
  <2>1. IsFiniteSet(Holders) /\ Cardinality(Holders) <= Permits
        /\ Cardinality(Holders) \in Nat /\ Permits \in Nat
    <3>1. IsFiniteSet(Holders)
      BY FS_Subset, RequestsAssumption DEF Holders
    <3>2. Cardinality(Holders) <= Permits
      BY DEF Inv, TypeOK, Holders, InPool
    <3> QED
      BY <3>1, <3>2, FS_CardinalityType, RequestsAssumption
  <2>2. CASE q.pc = "work" /\ q.kind # "create" /\ s \notin Holders
    <3>1. Holders' \subseteq Holders \cup {s}
      BY <1>1 DEF Holders, InPool
    <3>2. IsFiniteSet(Holders \cup {s}) /\ Cardinality(Holders \cup {s}) = Cardinality(Holders) + 1
      BY <2>1, <2>2, FS_AddElement
    <3>3. Cardinality(Holders') <= Cardinality(Holders \cup {s})
          /\ IsFiniteSet(Holders')
      BY <3>1, <3>2, FS_Subset
    <3>4. Cardinality(Holders') \in Nat
      BY <3>3, FS_CardinalityType
    <3> QED
      BY <2>1, <2>2, <3>2, <3>3, <3>4
  <2>3. CASE ~(q.pc = "work" /\ q.kind # "create" /\ s \notin Holders)
    <3>1. Holders' \subseteq Holders
      BY <1>1, <2>3 DEF Holders, InPool
    <3>2. Cardinality(Holders') <= Cardinality(Holders) /\ IsFiniteSet(Holders')
      BY <2>1, <3>1, FS_Subset
    <3>3. Cardinality(Holders') \in Nat
      BY <3>2, FS_CardinalityType
    <3> QED
      BY <2>1, <3>2, <3>3
  <2> QED
    BY <2>2, <2>3
<1>4. \A t \in Slots :
        /\ reqs'[t].pc \in Pcs /\ reqs'[t].left \in 0..Trials
        /\ (reqs'[t].pc = "queued") = (t \in ToSet(waiters'))
  BY <1>1, <1>2 DEF Known, Fits, Inv, TypeOK
<1>5. TypeOK'
  BY <1>3, <1>4 DEF TablesOK, TypeOK, Pcs, Holders, InPool
<1> QED
  BY <1>2, <1>5 DEF Inv, TablesOK

\* The tables are not touched.
LEMMA Unwritten ==
  ASSUME Inv, UNCHANGED tables
  PROVE  TablesOK' /\ Grows /\ abstracts' = abstracts
BY DEF Inv, TypeOK, TablesOK, Grows, tables, StoredIsSound, StoredIsBest, StoredStands,
       Stored, Live

\* A step of a request that is not queued, and does not become so.
LEMMA StepKeeps ==
  ASSUME Inv, NEW s \in Slots, NEW q, reqs' = [reqs EXCEPT ![s] = q],
         Fits(abstracts', q), Grows, TablesOK', pool' = pool, waiters' = waiters,
         reqs[s].pc # "queued", q.pc # "queued",
         q.pc = "work" /\ q.kind # "create" => s \in Holders
  PROVE  Inv'
<1>1. s \notin ToSet(waiters)
  BY DEF Inv, TypeOK
<1>2. pool' \in {"up", "broken"} /\ Waiting'
  BY DEF Inv, TypeOK, Waiting
<1> QED
  BY <1>1, <1>2, InvKeeps

LEMMA IdleFits ==
  ASSUME NEW plans
  PROVE  Fits(plans, Idle) /\ Idle.pc = "idle" /\ Idle.kind = None
<1>1. None \notin {"generate", "create", "assign"}
  BY RequestsAssumption
<1>2. 0 \in 0..Trials
  BY RequestsAssumption
<1> QED
  BY <1>1, <1>2 DEF Fits, Idle, IsBest, Pcs, Kinds

\* A request that waits in no queue ends.
LEMMA EndKeeps ==
  ASSUME Inv, NEW s \in Slots, Ends(s), Grows, TablesOK', pool' = pool, waiters' = waiters,
         reqs[s].pc # "queued"
  PROVE  Inv'
BY IdleFits, StepKeeps DEF Ends

-----------------------------------------------------------------------------
\* The pool.

LEMMA InvInit == Init => Inv
<1> SUFFICES ASSUME Init PROVE Inv
  OBVIOUS
<1>1. ToSet(waiters) = {} /\ waiters \in Seq(Slots) /\ NoTwice(waiters)
  BY DEF Init, ToSet, NoTwice
<1>2. Known
  BY IdleFits DEF Init, Known
<1>3. {s \in Slots : reqs[s].pc = "work" /\ reqs[s].kind # "create"} = {}
  BY DEF Init, Idle
<1>4. Cardinality({s \in Slots : reqs[s].pc = "work" /\ reqs[s].kind # "create"}) <= Permits
  <2>1. Cardinality({}) = 0 /\ 0 <= Permits
    BY FS_EmptySet, RequestsAssumption
  <2> QED
    BY <1>3, <2>1
<1>5. TypeOK
  <2>1. 0 \in 0..Trials
    BY RequestsAssumption
  <2>2. \A s \in Slots : (reqs[s].pc = "queued") = (s \in ToSet(waiters))
    BY <1>1 DEF Init, Idle
  <2> QED
    BY <1>1, <1>4, <2>1, <2>2 DEF Init, TypeOK, Idle
<1> QED
  BY <1>1, <1>2, <1>5 DEF Inv, Waiting, Init, StoredIsSound

-----------------------------------------------------------------------------
\* Requests begin.

LEMMA QueueKeeps ==
  ASSUME Inv, NEW s \in Slots, NEW r, Queue(s, r),
         Over(Over([pc |-> "queued"], r), Idle).pc = "queued",
         Fits(abstracts, Over(Over([pc |-> "queued"], r), Idle))
  PROVE  Inv'
<1> DEFINE q == Over(Over([pc |-> "queued"], r), Idle)
<1>1. /\ reqs[s].pc = "idle" /\ reqs' = [reqs EXCEPT ![s] = q]
      /\ waiters' = Append(waiters, s) /\ UNCHANGED <<tables, pool>>
  BY DEF Queue, Starts
<1>2. q.pc = "queued" /\ Fits(abstracts, q)
  OBVIOUS
<1> HIDE DEF q
<1>3. s \notin ToSet(waiters)
  BY <1>1 DEF Inv, TypeOK
<1>4. Waiting' /\ ToSet(waiters') = ToSet(waiters) \cup {s}
  BY <1>1, <1>3, EntersLast DEF Inv, Waiting
<1>5. TablesOK' /\ Grows /\ abstracts' = abstracts /\ pool' \in {"up", "broken"}
  BY <1>1, Unwritten DEF Inv, TypeOK
<1> QED
  BY <1>1, <1>2, <1>4, <1>5, InvKeeps

\* A request that begins without a permit.
LEMMA StartKeeps ==
  ASSUME Inv, NEW s \in Slots, NEW r, Starts(s, r), UNCHANGED <<tables, pool, waiters>>,
         Fits(abstracts, Over(r, Idle)), Over(r, Idle).pc # "queued",
         Over(r, Idle).pc = "work" => Over(r, Idle).kind = "create"
  PROVE  Inv'
<1> DEFINE q == Over(r, Idle)
<1>1. reqs[s].pc = "idle" /\ reqs' = [reqs EXCEPT ![s] = q]
  BY DEF Starts
<1>2. Fits(abstracts, q) /\ q.pc # "queued" /\ (q.pc = "work" => q.kind = "create")
  OBVIOUS
<1> HIDE DEF q
<1>3. TablesOK' /\ Grows /\ abstracts' = abstracts
  BY Unwritten
<1> QED
  BY <1>1, <1>2, <1>3, StepKeeps

LEMMA BeginKeeps ==
  ASSUME Inv, NEW s \in Slots, Begin(s)
  PROVE  Inv'
<1>0. 0 \in 0..Trials /\ 1 \in 0..Trials /\ None \notin {"generate", "create", "assign"}
  BY RequestsAssumption
<1>1. CASE GenerateAbstract(s)
  <2>1. PICK shape \in Shapes : Queue(s, [kind |-> "generate", shape |-> shape])
    BY <1>1 DEF GenerateAbstract
  <2> DEFINE q == Over(Over([pc |-> "queued"], [kind |-> "generate", shape |-> shape]), Idle)
  <2>2. q.pc = "queued" /\ Fits(abstracts, q)
    BY <1>0 DEF Over, Idle, Fits, IsBest, Pcs, Kinds
  <2> QED
    BY <2>1, <2>2, QueueKeeps
<1>2. CASE CreateSchedule(s)
  <2>1. PICK shape \in Shapes, known \in BOOLEAN :
          Starts(s, IF known THEN [kind |-> "create", shape |-> shape, pc |-> "store"]
                    ELSE [kind |-> "create", shape |-> shape, pc |-> "work", left |-> 1])
    BY <1>2 DEF CreateSchedule
  <2> DEFINE a == Over([kind |-> "create", shape |-> shape, pc |-> "store"], Idle)
             b == Over([kind |-> "create", shape |-> shape, pc |-> "work", left |-> 1], Idle)
  <2>2. a.pc = "store" /\ Fits(abstracts, a)
    BY <1>0 DEF Over, Idle, Fits, IsBest, Pcs, Kinds
  <2>3. b.pc = "work" /\ b.kind = "create" /\ Fits(abstracts, b)
    BY <1>0 DEF Over, Idle, Fits, IsBest, Pcs, Kinds
  <2> QED
    BY <1>2, <2>1, <2>2, <2>3, StartKeeps DEF CreateSchedule
<1>3. CASE AssignTeams(s)
  <2>1. PICK a \in Abstracts :
          /\ Stored(a) /\ Cardinality(roster) = abstracts[a].size
          /\ Queue(s, [kind |-> "assign", target |-> a, shape |-> abstracts[a],
                       teams |-> roster])
    BY <1>3 DEF AssignTeams
  <2> DEFINE q == Over(Over([pc |-> "queued"],
                            [kind |-> "assign", target |-> a, shape |-> abstracts[a],
                             teams |-> roster]), Idle)
  <2>2. abstracts[a] \in Shapes /\ roster \subseteq Teams
    BY <2>1 DEF Stored, Inv, TypeOK
  <2>3. q.pc = "queued" /\ Fits(abstracts, q)
    BY <1>0, <2>1, <2>2 DEF Over, Idle, Fits, IsBest, Pcs, Kinds
  <2> QED
    BY <2>1, <2>3, QueueKeeps
<1>4. CASE BeginEdit(s)
  <2>1. PICK kind \in {"add", "remove", "drop"}, T \in SUBSET Teams :
          Starts(s, [kind |-> kind, teams |-> T, pc |-> "edit"])
    BY <1>4 DEF BeginEdit
  <2> DEFINE q == Over([kind |-> kind, teams |-> T, pc |-> "edit"], Idle)
  <2>2. q.pc = "edit" /\ Fits(abstracts, q)
    BY <1>0 DEF Over, Idle, Fits, IsBest, Pcs, Kinds
  <2> QED
    BY <1>4, <2>1, <2>2, StartKeeps DEF BeginEdit
<1>5. CASE BeginImport(s)
  <2> DEFINE q == Over([kind |-> "import", pc |-> "fetch"], Idle)
  <2>1. q.pc = "fetch" /\ Fits(abstracts, q)
    BY <1>0 DEF Over, Idle, Fits, IsBest, Pcs, Kinds
  <2> QED
    BY <1>5, <2>1, StartKeeps DEF BeginImport
<1> QED
  BY <1>1, <1>2, <1>3, <1>4, <1>5 DEF Begin

-----------------------------------------------------------------------------
\* The pool.

LEMMA AcquireKeeps ==
  ASSUME Inv, NEW s \in Slots, Acquire(s)
  PROVE  Inv'
<1>1. waiters # <<>> /\ Head(waiters) = s /\ waiters' = Tail(waiters)
      /\ Cardinality(Holders) < Permits /\ UNCHANGED <<tables, pool>>
  BY DEF Acquire
<1>2. /\ s \in ToSet(waiters) /\ Waiting'
      /\ ToSet(waiters') = ToSet(waiters) \ {s}
  BY <1>1, LeavesFirst DEF Inv, Waiting
<1>3. reqs[s].pc = "queued" /\ Fits(abstracts, reqs[s])
  BY <1>2 DEF Inv, TypeOK, Known
<1>4. TablesOK' /\ Grows /\ abstracts' = abstracts /\ pool' \in {"up", "broken"}
  BY <1>1, Unwritten DEF Inv, TypeOK
<1>5. PICK q : /\ reqs' = [reqs EXCEPT ![s] = q]
               /\ Fits(abstracts, q) /\ q.pc # "queued"
  <2>1. CASE pool = "up"
    <3> DEFINE n == IF reqs[s].kind = "assign" THEN Trials ELSE 1
               q == [reqs[s] EXCEPT !.pc = "work", !.left = n]
    <3>1. n \in 0..Trials
      BY RequestsAssumption
    <3>2. reqs' = [reqs EXCEPT ![s] = q]
      BY <2>1 DEF Acquire, Inv, Known
    <3> HIDE DEF n
    <3>3. Fits(abstracts, q) /\ q.pc # "queued"
      BY <1>3, <3>1 DEF Fits, Pcs
    <3> QED
      BY <3>2, <3>3
  <2>2. CASE pool # "up"
    BY <2>2, IdleFits DEF Acquire, Ends
  <2> QED
    BY <2>1, <2>2
<1> QED
  BY <1>1, <1>2, <1>4, <1>5, InvKeeps

\* The smaller of two answers is the best of both.
LEMMA BetterIsBest ==
  ASSUME NEW best, NEW done \in SUBSET Scores, NEW r \in Scores, IsBest(best, done)
  PROVE  IsBest(Better(best, r), done \cup {r}) /\ Better(best, r) \in Scores
<1>1. None \notin Scores /\ Scores \subseteq Nat
  BY RequestsAssumption
<1>2. CASE best = None
  BY <1>1, <1>2 DEF IsBest, Better
<1>3. CASE best # None
  <2>1. best \in Nat /\ r \in Nat /\ done \subseteq Nat /\ best \in done
        /\ \A x \in done : best <= x
    BY <1>1, <1>3 DEF IsBest
  <2>2. CASE r < best
    <3>1. Better(best, r) = r /\ r # None
      BY <1>1, <2>2 DEF Better
    <3>2. \A x \in done \cup {r} : r <= x
      BY <2>1, <2>2
    <3> QED
      BY <3>1, <3>2 DEF IsBest
  <2>3. CASE ~(r < best)
    <3>1. Better(best, r) = best
      BY <1>3, <2>3 DEF Better
    <3>2. \A x \in done \cup {r} : best <= x
      BY <2>1, <2>3
    <3> QED
      BY <1>3, <2>1, <3>1, <3>2 DEF IsBest
  <2> QED
    BY <2>2, <2>3
<1> QED
  BY <1>2, <1>3

LEMMA TrialEndsKeeps ==
  ASSUME Inv, NEW s \in Slots, TrialEnds(s)
  PROVE  Inv'
<1> DEFINE p == reqs[s]
<1>1. PICK r \in Scores \cup {Raised} :
        /\ InPool(s) /\ p.left > 0 /\ UNCHANGED <<tables, pool, waiters>>
        /\ reqs' = [reqs EXCEPT
             ![s].left = p.left - 1,
             ![s].best = IF r = Raised THEN p.best ELSE Better(p.best, r),
             ![s].done = IF r = Raised THEN p.done ELSE p.done \cup {r}]
  BY DEF TrialEnds, Inv, Known
<1>2. Fits(abstracts, p) /\ p.pc = "work"
  BY <1>1 DEF Inv, Known, InPool
<1>3. PICK best, done :
        /\ reqs' = [reqs EXCEPT ![s] =
                      [p EXCEPT !.left = p.left - 1, !.best = best, !.done = done]]
        /\ done \subseteq Scores /\ IsBest(best, done)
  <2>1. p.done \subseteq Scores /\ IsBest(p.best, p.done)
    BY <1>2 DEF Fits
  <2>2. CASE r = Raised
    BY <1>1, <2>1, <2>2 DEF Inv, Known
  <2>3. CASE r # Raised
    <3>1. IsBest(Better(p.best, r), p.done \cup {r}) /\ p.done \cup {r} \subseteq Scores
      BY <2>1, <2>3, BetterIsBest
    <3> QED
      BY <1>1, <2>3, <3>1 DEF Inv, Known
  <2> QED
    BY <2>2, <2>3
<1> DEFINE q == [p EXCEPT !.left = p.left - 1, !.best = best, !.done = done]
<1>4. p.left - 1 \in 0..Trials
  BY <1>1, <1>2, RequestsAssumption DEF Fits
<1>5. Fits(abstracts, q) /\ q.pc = "work" /\ q.kind = p.kind
  BY <1>2, <1>3, <1>4 DEF Fits
<1>6. q.kind # "create" => s \in Holders
  BY <1>2, <1>5 DEF Holders, InPool
<1>7. TablesOK' /\ Grows /\ abstracts' = abstracts
  BY <1>1, Unwritten
<1> HIDE DEF q
<1> QED
  BY <1>1, <1>2, <1>3, <1>5, <1>6, <1>7, StepKeeps DEF q

\* A step of a request to another stop.
LEMMA GotoKeeps ==
  ASSUME Inv, NEW s \in Slots, NEW pc \in {"store", "commit"}, Goto(s, pc),
         UNCHANGED <<tables, pool, waiters>>, reqs[s].pc \in {"work", "store"},
         pc = "commit" => reqs[s].kind = "assign",
         reqs[s].kind = "assign" => reqs[s].best # None
  PROVE  Inv'
<1> DEFINE q == [reqs[s] EXCEPT !.pc = pc]
<1>1. Fits(abstracts, reqs[s]) /\ reqs' = [reqs EXCEPT ![s] = q]
  BY DEF Inv, Known, Goto
<1>2. Fits(abstracts, q) /\ q.pc = pc
  BY <1>1 DEF Fits, Pcs
<1>3. TablesOK' /\ Grows /\ abstracts' = abstracts
  BY Unwritten
<1> HIDE DEF q
<1> QED
  BY <1>1, <1>2, <1>3, StepKeeps

LEMMA PoolKeeps ==
  ASSUME Inv, NEW s \in Slots, TrialsOver(s) \/ CheckFreeze(s)
  PROVE  Inv'
<1>1. TablesOK' /\ Grows
  BY Unwritten DEF TrialsOver, CheckFreeze
<1>2. CASE TrialsOver(s)
  <2>1. reqs[s].pc = "work"
    BY <1>2 DEF TrialsOver, InPool
  <2> QED
    BY <1>1, <1>2, <2>1, EndKeeps, GotoKeeps DEF TrialsOver
<1>3. CASE CheckFreeze(s)
  <2>1. reqs[s].best # None
    BY <1>3 DEF CheckFreeze, Inv, Known, Fits
  <2> QED
    BY <1>1, <1>3, <2>1, EndKeeps, GotoKeeps DEF CheckFreeze
<1> QED
  BY <1>2, <1>3

-----------------------------------------------------------------------------
\* What is stored.

\* The tables as they are: what the steps below start from.
LEMMA InvTables ==
  ASSUME Inv
  PROVE  TablesOK /\ Unused \notin Shapes /\ Deleted \notin Shapes /\ Unused # Deleted
BY RequestsAssumption DEF Inv, TypeOK, TablesOK

LEMMA StoreAbstractKeeps ==
  ASSUME Inv, NEW s \in Slots, StoreAbstract(s)
  PROVE  Inv'
<1>1. /\ reqs[s].pc = "store" /\ reqs[s].kind # "assign" /\ Ends(s)
      /\ UNCHANGED <<event, roster, active, pool, waiters>>
  BY DEF StoreAbstract
<1>2. reqs[s].shape \in Shapes
  BY <1>1 DEF Inv, Known, Fits
<1>3. CASE abstracts' = abstracts
  BY <1>1, <1>3, Unwritten, EndKeeps DEF tables
<1>4. ASSUME NEW a \in Abstracts, abstracts[a] = Unused,
             abstracts' = [abstracts EXCEPT ![a] = reqs[s].shape]
      PROVE  Inv'
  <2>1. Grows
    BY <1>4 DEF Grows, Inv, TypeOK
  <2>2. abstracts' \in [Abstracts -> Shapes \cup {Unused, Deleted}]
    BY <1>2, <1>4 DEF Inv, TypeOK
  <2>3. active # None => active.target # a /\ abstracts'[active.target] = abstracts[active.target]
    BY <1>4, InvTables DEF TablesOK, StoredIsSound, StoredStands, Stored
  <2>4. TablesOK'
    BY <1>1, <2>2, <2>3, InvTables
    DEF TablesOK, StoredIsSound, StoredIsBest, StoredStands, Stored, Live
  <2> QED
    BY <1>1, <2>1, <2>4, EndKeeps
<1> QED
  BY <1>3, <1>4 DEF StoreAbstract

LEMMA StoreAssignedKeeps ==
  ASSUME Inv, NEW s \in Slots, StoreAssigned(s)
  PROVE  Inv'
<1> DEFINE p == reqs[s]
<1>1. /\ p.pc = "commit" /\ Ends(s)
      /\ UNCHANGED <<event, roster, abstracts, pool, waiters>>
  BY DEF StoreAssigned
<1>2. CASE ~KeysHold(s)
  BY <1>1, <1>2, Unwritten, EndKeeps DEF StoreAssigned, tables
<1>3. CASE KeysHold(s)
  <2>1. active' = [target |-> p.target, teams |-> p.teams, score |-> p.best, trials |-> p.done]
    BY <1>3 DEF StoreAssigned
  <2>2. /\ p.kind = "assign" /\ p.best # None /\ p.teams \subseteq Teams
        /\ IsBest(p.best, p.done) /\ p.target \in Abstracts
        /\ abstracts[p.target] \in {p.shape, Deleted}
        /\ Cardinality(p.teams) = p.shape.size
    BY <1>1 DEF Inv, Known, Fits
  <2>3. Live /\ Stored(p.target) /\ Cardinality(p.teams) = abstracts[p.target].size
    BY <1>3, <2>2, InvTables DEF KeysHold, Stored
  <2>4. StoredIsBest'
    BY <2>1, <2>2 DEF IsBest, StoredIsBest
  <2>5. StoredStands'
    BY <1>1, <2>1, <2>3 DEF StoredStands, Live, Stored
  <2>6. TablesOK'
    BY <1>1, <2>1, <2>2, <2>4, <2>5, InvTables DEF TablesOK, StoredIsSound, Live
  <2>7. Grows
    BY <1>1 DEF Grows
  <2> QED
    BY <1>1, <2>6, <2>7, EndKeeps
<1> QED
  BY <1>2, <1>3

LEMMA FetchedKeeps ==
  ASSUME Inv, NEW s \in Slots, Fetched(s)
  PROVE  Inv'
<1>1. reqs[s].pc = "fetch" /\ UNCHANGED <<tables, pool, waiters>>
  BY DEF Fetched
<1>2. TablesOK' /\ Grows /\ abstracts' = abstracts
  BY <1>1, Unwritten
<1>3. CASE Ends(s)
  BY <1>1, <1>2, <1>3, EndKeeps
<1>4. CASE ~Ends(s)
  <2>1. PICK T \in SUBSET Teams :
          reqs' = [reqs EXCEPT ![s].pc = "edit", ![s].teams = T, ![s].target = event]
    BY <1>4 DEF Fetched
  <2> DEFINE q == [reqs[s] EXCEPT !.pc = "edit", !.teams = T, !.target = event]
  <2>2. reqs' = [reqs EXCEPT ![s] = q] /\ Fits(abstracts, reqs[s])
    BY <2>1 DEF Inv, Known
  <2>3. Fits(abstracts, q) /\ q.pc = "edit"
    BY <1>1, <2>2 DEF Fits, Pcs
  <2> HIDE DEF q
  <2> QED
    BY <1>1, <1>2, <2>2, <2>3, StepKeeps
<1> QED
  BY <1>3, <1>4

\* An event that is gone has no roster and no active schedule, and all its
\* abstract schedules are deleted.
LEMMA EditKeeps ==
  ASSUME Inv, NEW s \in Slots, CommitEdit(s)
  PROVE  Inv'
<1> DEFINE p == reqs[s]
<1>1. p.pc = "edit" /\ Ends(s) /\ UNCHANGED <<pool, waiters>>
  BY DEF CommitEdit
<1>2. p.teams \subseteq Teams
  BY DEF Inv, Known, Fits
<1>3. CASE UNCHANGED tables
  BY <1>1, <1>3, Unwritten, EndKeeps
<1>4. ASSUME Live' /\ (Live \/ event = "absent"),
             event' \in {"absent", "live", "frozen", "deleted"},
             roster' \subseteq Teams, UNCHANGED <<abstracts, active>>
      PROVE  Inv'
  <2>1. TablesOK' /\ Grows
    BY <1>4, InvTables
    DEF TablesOK, Grows, StoredIsSound, StoredIsBest, StoredStands, Stored
  <2> QED
    BY <1>1, <2>1, EndKeeps
<1>5. ASSUME event' = "deleted", roster' = {}, active' = None,
             abstracts' = [a \in Abstracts |-> IF Stored(a) THEN Deleted ELSE abstracts[a]]
      PROVE  Inv'
  <2>1. TablesOK' /\ Grows
    BY <1>5, InvTables DEF TablesOK, Grows, StoredIsSound
  <2> QED
    BY <1>1, <2>1, EndKeeps
<1> QED
  BY <1>2, <1>3, <1>4, <1>5, InvTables DEF CommitEdit, TablesOK, Live

LEMMA DisconnectKeeps ==
  ASSUME Inv, NEW s \in Slots, Disconnect(s)
  PROVE  Inv'
<1>1. TablesOK' /\ Grows /\ pool' \in {"up", "broken"}
  BY Unwritten DEF Disconnect, Inv, TypeOK
<1>2. Waiting' /\ ToSet(waiters') = ToSet(waiters) \ {s}
  <2>1. CASE s \notin ToSet(waiters) /\ UNCHANGED waiters
    BY <2>1 DEF Inv, Waiting
  <2>2. ASSUME NEW i \in DOMAIN waiters, waiters[i] = s, waiters' = RemoveAt(waiters, i)
        PROVE  Waiting' /\ ToSet(waiters') = ToSet(waiters) \ {s}
    BY <2>2, LeavesAt DEF Inv, Waiting
  <2> QED
    BY <2>1, <2>2 DEF Disconnect
<1> QED
  BY <1>1, <1>2, IdleFits, InvKeeps DEF Disconnect, Ends

-----------------------------------------------------------------------------
\* Steps of no request, and of all.

LEMMA OthersKeep ==
  ASSUME Inv, UNCHANGED <<reqs, waiters>>, pool' \in {"up", "broken"}, Grows, TablesOK'
  PROVE  Inv'
<1>1. Known'
  BY FitsStill DEF Inv, Known
<1>2. Waiting'
  BY DEF Inv, Waiting
<1>3. Cardinality(Holders') <= Permits
  BY DEF Inv, TypeOK, Holders, InPool
<1>4. TypeOK'
  BY <1>3 DEF Inv, TypeOK, TablesOK, Holders, InPool
<1> QED
  BY <1>1, <1>2, <1>4 DEF Inv, TablesOK

LEMMA TableStepKeeps ==
  ASSUME Inv, (\E a \in Abstracts : DeleteAbstract(a)) \/ CreateEvent \/ ToggleFreeze
  PROVE  Inv'
<1>1. UNCHANGED <<reqs, waiters>> /\ pool' \in {"up", "broken"}
  BY DEF DeleteAbstract, CreateEvent, ToggleFreeze, Inv, TypeOK
<1>2. ASSUME NEW a \in Abstracts, DeleteAbstract(a)
      PROVE  TablesOK' /\ Grows
  <2>1. /\ abstracts' = [abstracts EXCEPT ![a] = Deleted]
        /\ active' = IF active # None /\ active.target = a THEN None ELSE active
        /\ UNCHANGED <<event, roster>>
    BY <1>2 DEF DeleteAbstract
  <2>2. abstracts' \in [Abstracts -> Shapes \cup {Unused, Deleted}] /\ Grows
    BY <2>1, InvTables DEF TablesOK, Grows
  <2>3. active' # None =>
          active' = active /\ active # None /\ abstracts'[active.target] = abstracts[active.target]
    BY <2>1, InvTables DEF TablesOK
  <2>4. TablesOK'
    BY <2>1, <2>2, <2>3, InvTables
    DEF TablesOK, StoredIsSound, StoredIsBest, StoredStands, Stored, Live
  <2> QED
    BY <2>2, <2>4
<1>3. ASSUME CreateEvent \/ ToggleFreeze
      PROVE  TablesOK' /\ Grows
  <2>1. event' \in {"live", "frozen"} /\ UNCHANGED <<roster, abstracts, active>>
    BY <1>3 DEF CreateEvent, ToggleFreeze
  <2>2. Live'
    BY <2>1 DEF Live
  <2>3. StoredIsSound'
    BY <2>1, <2>2 DEF Inv, StoredIsSound, StoredIsBest, StoredStands, Stored
  <2> QED
    BY <2>1, <2>2, <2>3, InvTables DEF TablesOK, Grows
<1> QED
  BY <1>1, <1>2, <1>3, OthersKeep

LEMMA WorkerDiesKeeps ==
  ASSUME Inv, WorkerDies
  PROVE  Inv'
<1>1. TablesOK' /\ Grows /\ abstracts' = abstracts /\ waiters' = waiters /\ pool' = "broken"
  BY Unwritten DEF WorkerDies
<1>2. /\ reqs' = [s \in Slots |-> reqs'[s]]
      /\ \A s \in Slots : \/ reqs'[s] = reqs[s]
                          \/ reqs'[s] = [reqs[s] EXCEPT !.left = 0]
  BY DEF WorkerDies
<1>3. 0 \in 0..Trials
  BY RequestsAssumption
<1>4. \A s \in Slots : /\ Fits(abstracts, reqs'[s])
                      /\ reqs'[s].pc = reqs[s].pc /\ reqs'[s].kind = reqs[s].kind
  <2>1. ASSUME NEW s \in Slots
        PROVE  Fits(abstracts, reqs[s])
    BY DEF Inv, Known
  <2> QED
    BY <1>2, <1>3, <2>1 DEF Fits
<1>5. Known' /\ Waiting'
  BY <1>1, <1>2, <1>4 DEF Known, Inv, Waiting
<1>6. Holders' = Holders
  BY <1>4 DEF Holders, InPool
<1>7. \A s \in Slots : reqs'[s].pc \in Pcs /\ reqs'[s].left \in 0..Trials
  BY <1>4 DEF Fits
<1>8. TypeOK'
  BY <1>1, <1>4, <1>6, <1>7 DEF Inv, TypeOK, TablesOK, Pcs, Holders, InPool
<1> QED
  BY <1>1, <1>5, <1>8 DEF Inv, TablesOK

LEMMA RestartKeeps ==
  ASSUME Inv, Restart
  PROVE  Inv'
<1>1. TablesOK' /\ Grows /\ abstracts' = abstracts
  BY Unwritten DEF Restart
<1>2. ToSet(waiters') = {} /\ Waiting' /\ pool' = "up"
  BY DEF Restart, ToSet, Waiting, NoTwice
<1>3. \A s \in Slots : reqs'[s] = Idle
  BY DEF Restart
<1>4. Known'
  BY <1>3, IdleFits DEF Restart, Known
<1>5. Holders' = {}
  BY <1>3, IdleFits DEF Holders, InPool
<1>6. Cardinality(Holders') <= Permits
  <2>1. Cardinality({}) = 0 /\ 0 <= Permits
    BY FS_EmptySet, RequestsAssumption
  <2> QED
    BY <1>5, <2>1
<1>7. \A s \in Slots : reqs'[s].pc = "idle" /\ reqs'[s].left \in 0..Trials
  BY <1>3, IdleFits DEF Fits
<1>8. TypeOK'
  BY <1>1, <1>2, <1>6, <1>7 DEF TypeOK, TablesOK, Holders, InPool
<1> QED
  BY <1>1, <1>2, <1>4, <1>8 DEF Inv, TablesOK

LEMMA InvStep == Inv /\ [Next]_vars => Inv'
<1> SUFFICES ASSUME Inv, [Next]_vars PROVE Inv'
  OBVIOUS
<1>1. ASSUME NEW s \in Slots, Begin(s) \/ Step(s) \/ Disconnect(s)
      PROVE  Inv'
  BY <1>1, BeginKeeps, AcquireKeeps, TrialEndsKeeps, PoolKeeps, StoreAbstractKeeps,
     StoreAssignedKeeps, FetchedKeeps, EditKeeps, DisconnectKeeps DEF Step
<1>2. CASE UNCHANGED vars
  <2>1. TablesOK' /\ Grows /\ UNCHANGED <<reqs, waiters, pool>>
    BY <1>2, Unwritten DEF vars, tables
  <2> QED
    BY <2>1, OthersKeep DEF Inv, TypeOK
<1> QED
  BY <1>1, <1>2, TableStepKeeps, WorkerDiesKeeps, RestartKeeps DEF Next

\* For any number of requests, workers and permits: the rows and requests keep
\* their types, who waits for the semaphore is in its queue, and no more than
\* Permits generations are in the pool, whoever hangs up, dies or restarts.
THEOREM RequestTypes == Spec => []TypeOK
<1>1. Inv => TypeOK
  BY DEF Inv
<1> QED
  BY <1>1, InvInit, InvStep, PTL DEF Spec

\* The active schedule is the best of all trials that answered, in any order
\* and number, and stands on a live event and an abstract schedule that is
\* there and has a slot for each team.
THEOREM StoredSound == Spec => []StoredIsSound
<1>1. Inv => StoredIsSound
  BY DEF Inv
<1> QED
  BY <1>1, InvInit, InvStep, PTL DEF Spec
=============================================================================
