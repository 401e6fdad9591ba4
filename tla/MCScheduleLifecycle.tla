------------------------ MODULE MCScheduleLifecycle ------------------------
(***************************************************************************)
(* Instances of ScheduleLifecycle for TLC.                                  *)
(***************************************************************************)
EXTENDS ScheduleLifecycle, TLC

CONSTANTS alice, bob, root, d1, d2, p1, p2

JustAlice    == {alice}
OneAdmin     == {root}
AliceAndRoot == {alice, root}
AliceAndBob  == {alice, bob}
All3         == {alice, bob, root}
NoAdmins     == {}
TwoDays      == {d1, d2}
OneDay       == {d1}
OneShape     == {p1}
TwoShapes    == {p1, p2}

\* "actor" is written by every step and read by none: states that differ only
\* in it have the same successors.  TLC checks action properties on every step
\* it generates, those into states it has already seen included.
WithoutActor == <<rows, live, hist, locklog, plans, event, nextId, nextPlan,
                  freezes>>

\* Users without the admin flag are interchangeable, and so are the days and
\* the shapes.
FullSymmetry ==
  {f @@ g @@ h : f \in Permutations({alice, bob}), g \in Permutations(Days),
                 h \in Permutations(Shapes)}

-----------------------------------------------------------------------------
\* Freezes and lock events of a schedule are three together.  With a second
\* shape nothing was frozen and there is one lock event; with a second schedule
\* moreover one user and the admins have acted and everything says the same.
\* The steps out of such states are still taken and checked, whoever takes them.

Hands ==
  {event.freezer} \cup
  UNION {{rows[s].owner, rows[s].lockedBy, rows[s].officialBy} \cup
         {locklog[s][i].user : i \in DOMAIN locklog[s]} : s \in live}
Said == UNION {{rows[s].content} \cup {h.content : h \in hist[s]} : s \in live}
Planned == {plans[p] : p \in LivePlans}

Logged == {at \in ScheduleIds \X (1 .. MaxLockEvents) : at[2] <= Len(locklog[at[1]])}
Quiet == freezes = 0 /\ Cardinality(Logged) <= 1

FreezesAndLocks == \A s \in ScheduleIds : freezes + Len(locklog[s]) <= 3
SecondScheduleIsQuiet ==
  nextId > 2 =>
    /\ Quiet
    /\ Cardinality(Hands \ (Admins \cup {NoUser})) <= 1
    /\ Cardinality(Said) <= 1 /\ Cardinality(Planned) <= 1
SecondShapeIsQuiet ==
  Cardinality(Planned \cup {c.slots : c \in Said}) > 1 => Quiet
Bounded == FreezesAndLocks /\ SecondScheduleIsQuiet /\ SecondShapeIsQuiet
=============================================================================
