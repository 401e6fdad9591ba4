-------------------------- MODULE MCLifecycleRaces --------------------------
(***************************************************************************)
(* Instances of LifecycleRaces for TLC: who is signed in, which endpoints   *)
(* are called and how many requests are in flight.                          *)
(***************************************************************************)
EXTENDS LifecycleRaces, TLC

CONSTANTS alice, bob, root, d1, d2, p1, r1, r2

AliceAndBob  == {alice, bob}
AliceAndRoot == {alice, root}
OneAdmin     == {root}
NoAdmins     == {}
OneDay       == {d1}
TwoDays      == {d1, d2}
OneShape     == {p1}

OneRequest  == {r1}
TwoRequests == {r1, r2}

AllOps    == RowOps \cup EventOps \cup {"generate", "assign", "import", "drop"}
HeaderOps == {"activate", "lock", "unlock", "mark", "delete"}
EditOps   == {"patch", "mark"}

\* Without admins the users are interchangeable, as the requests always are.
FullSymmetry == {f @@ g : f \in Permutations(Slots), g \in Permutations(Users)}

\* Only SerialPartRefines speaks of the actor, and only of its next value.
WithoutActor == <<rows, live, hist, locklog, plans, event, nextId, nextPlan,
                  freezes, reqs>>

-----------------------------------------------------------------------------
\* Two uses of the server in one run.  "serial": an event without schedules,
\* every endpoint, one request at a time.  "racing": two schedules and two
\* requests in flight that write their headers.

VARIABLE part
RunVars == <<vars, part>>

Busy == {r \in Slots : reqs[r] # Idle}

RunInit ==
  \/ part = "serial" /\ Init
  \/ part = "racing" /\ InitAssigned

HeaderStep ==
  \/ \E r \in Slots : Advance(r)
  \/ \E r \in Slots, u \in Users, op \in HeaderOps, s \in ScheduleIds : LoadRow(r, u, op, s)

RunNext ==
  /\ \/ part = "serial" /\ Next /\ Cardinality(Busy') <= 1
     \/ part = "racing" /\ HeaderStep
  /\ UNCHANGED part

RunSpec == RunInit /\ [][RunNext]_RunVars

\* The second part with Ops as they are, for the race of an edit and a mark.
EditSpec == part = "racing" /\ InitAssigned /\ [][Next /\ UNCHANGED part]_RunVars

\* Bounds on what one history spends, over all the counters together: the
\* schedules, the abstract schedules and the freezes; then the lock events, and
\* in the second part the requests in flight with them.
Created     == (nextId - 1) + (nextPlan - 1) + freezes
LocksLogged == Len(locklog[1]) + Len(locklog[2])

Bounded ==
  /\ part = "serial" => Created <= 3 /\ Created + LocksLogged <= 4
  /\ part = "racing" => LocksLogged + Cardinality(Busy) <= 3

PartWithoutActor == <<WithoutActor, part>>

\* One request at a time takes the steps of ScheduleLifecycle and no others,
\* split at its reads as it is (LifecycleRaces!RefinesSerial for the first part).
SerialPartRefines == [][part = "serial" => [Serial!Next]_(Serial!vars)]_RunVars
=============================================================================
