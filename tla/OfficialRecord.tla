--------------------------- MODULE OfficialRecord ---------------------------
(***************************************************************************)
(* What the lifecycle promises about the official record of an event,      *)
(* without rows, locks, users or history: at most one schedule is official *)
(* at a time, and the content of a schedule that was ever official never   *)
(* changes for as long as the schedule exists.                             *)
(***************************************************************************)
CONSTANTS
  Ids,        \* schedule ids
  Contents,   \* what a schedule can say
  NoSchedule, \* no schedule is official
  NoContent   \* the schedule was never official, or is gone

VARIABLES
  official,   \* the official schedule, or NoSchedule
  sealed      \* the content each schedule was sealed with

Init ==
  /\ official = NoSchedule
  /\ sealed = [s \in Ids |-> NoContent]

Seal(s, c) ==
  /\ official = NoSchedule
  /\ sealed[s] \in {NoContent, c}
  /\ official' = s
  /\ sealed' = [sealed EXCEPT ![s] = c]

Unmark ==
  /\ official # NoSchedule
  /\ official' = NoSchedule
  /\ UNCHANGED sealed

\* Schedules are deleted; a sealed one takes its seal with it.
Discard(D) ==
  /\ official' = IF official \in D THEN NoSchedule ELSE official
  /\ sealed' = [s \in Ids |-> IF s \in D THEN NoContent ELSE sealed[s]]

Next ==
  \/ \E s \in Ids, c \in Contents : Seal(s, c)
  \/ Unmark
  \/ \E D \in SUBSET Ids : Discard(D)

Spec == Init /\ [][Next]_<<official, sealed>>
=============================================================================
