--------------------------- MODULE LiveSyncProofs ---------------------------
(***************************************************************************)
(* What LiveSync keeps for any number of requests and matches: the types,  *)
(* what was reported about a match, and the rows a refresh has flushed.    *)
(***************************************************************************)
EXTENDS LiveSync, TLAPS

-----------------------------------------------------------------------------
\* What a request knows at each of its stops.

Stops == {"idle", "insert", "matches", "flush", "failed", "rankings", "commit",
          "pull", "store", "rebuild", "wipe"}
Ranks == [source : {Kept}] \cup [source : {"none", "tba"}, played : SUBSET Matches]

\* What a request that adds the sync row goes on with.
Firsts == [pc : {"matches"}]
            \cup [pc : {"store"}, seen : SUBSET Matches, queued : SUBSET Matches,
                  made : UNION {[M -> BOOLEAN] : M \in SUBSET Matches}]
            \cup [pc : {"wipe"}, op : {"start"}, row : {TRUE}, seen : SUBSET Matches]

RequestOK(s) ==
  LET q == reqs[s] IN
  /\ {"pc", "ins"} \subseteq DOMAIN q /\ q.pc \in Stops
  /\ q.pc = "insert" => q.then \in Firsts
  /\ q.pc \in {"flush", "rankings", "commit"} =>
       {"payload", "seen"} \subseteq DOMAIN q /\ DOMAIN q.payload \subseteq Matches
  /\ q.pc = "commit" => q.ranks \in Ranks
  /\ q.pc = "store" => DOMAIN q.made \subseteq Matches
  /\ q.pc = "rebuild" => sync.row
  /\ q.pc = "wipe" => q.op = "start" \/ q.row = FALSE \/ sync.row

Requests == reqs = [s \in Slots |-> reqs[s]] /\ \A s \in Slots : RequestOK(s)

Typed == TypeOK /\ Requests

\* A step of one request, or of none, keeps what the others know as long as
\* the sync row stays.
LEMMA OthersKeep ==
  ASSUME Requests, NEW s \in Slots, NEW q, reqs' = [reqs EXCEPT ![s] = q],
         sync.row => sync'.row
  PROVE  /\ reqs' = [t \in Slots |-> reqs'[t]]
         /\ reqs'[s] = q
         /\ \A t \in Slots \ {s} : RequestOK(t)' /\ reqs'[t] = reqs[t]
BY DEF Requests, RequestOK

\* A request begins with what is wanted of it, with or without a sync row.
LEMMA BeginKeeps ==
  ASSUME Typed, NEW s \in Slots, NEW first, Begin(s, first),
         \/ first \in Firsts
         \/ sync.row /\ \E seen : first = [pc |-> "rebuild", seen |-> seen]
         \/ sync.row /\ \E op, seen :
              first = [pc |-> "wipe", op |-> op, row |-> TRUE, seen |-> seen]
  PROVE  Typed'
<1>1. sync' = sync /\ UNCHANGED <<world, tables>>
  BY DEF Begin, tables
<1>2. RequestOK(s)'
  <2>1. CASE sync.row
    <3>1. reqs'[s] = Over(first, Idle)
      BY <2>1 DEF Begin, Typed, Requests
    <3>2. CASE first \in [pc : {"matches"}]
      BY <1>1, <2>1, <3>1, <3>2 DEF RequestOK, Over, Idle, Stops
    <3>3. ASSUME NEW seen, NEW queued, NEW M \in SUBSET Matches,
                 NEW made \in [M -> BOOLEAN],
                 first = [pc |-> "store", seen |-> seen, queued |-> queued, made |-> made]
          PROVE  RequestOK(s)'
      BY <1>1, <2>1, <3>1, <3>3 DEF RequestOK, Over, Idle, Stops
    <3>4. ASSUME NEW op, NEW seen,
                 first = [pc |-> "wipe", op |-> op, row |-> TRUE, seen |-> seen]
          PROVE  RequestOK(s)'
      BY <1>1, <2>1, <3>1, <3>4 DEF RequestOK, Over, Idle, Stops
    <3>5. ASSUME NEW seen, first = [pc |-> "rebuild", seen |-> seen]
          PROVE  RequestOK(s)'
      BY <1>1, <2>1, <3>1, <3>5 DEF RequestOK, Over, Idle, Stops
    <3> QED
      BY <3>2, <3>3, <3>4, <3>5 DEF Firsts
  <2>2. CASE ~sync.row
    <3>1. reqs'[s] = [pc |-> "insert", ins |-> FALSE, then |-> first]
      BY <2>2 DEF Begin, Typed, Requests
    <3> QED
      BY <2>2, <3>1 DEF RequestOK, Stops
  <2> QED
    BY <2>1, <2>2
<1>3. Requests'
  BY <1>1, <1>2, OthersKeep DEF Begin, Typed, Requests
<1> QED
  BY <1>1, <1>3 DEF Typed, TypeOK, Requests, RequestOK, Stops, tables

\* What a push or a pull is about to write is one of the Firsts.
LEMMA IngestType ==
  ASSUME Typed, NEW M \in SUBSET Matches, NEW report \in [M -> BOOLEAN]
  PROVE  Ingest(report) \in Firsts
BY DEF Ingest, Firsts, Typed, TypeOK, Present

LEMMA ReportType ==
  /\ \A report \in Reports : \E M \in SUBSET Matches : report \in [M -> BOOLEAN]
  /\ FullAnswer \in [Published -> BOOLEAN]
  /\ Published \in SUBSET Matches
BY DEF Reports, FullAnswer, Published, Played

\* A step that only reads.
LEMMA ReadKeeps ==
  ASSUME Typed, NEW s \in Slots, NEW q, reqs' = [reqs EXCEPT ![s] = q],
         UNCHANGED <<world, tables>>, RequestOK(s)'
  PROVE  Typed'
<1>1. Requests'
  BY OthersKeep DEF Typed, Requests, tables
<1> QED
  BY <1>1 DEF Typed, TypeOK, Requests, RequestOK, Stops, tables

\* A step that writes and is done.
LEMMA WriteKeeps ==
  ASSUME Typed, NEW s \in Slots, NEW q \in {Idle, [Idle EXCEPT !.pc = "pull"]},
         reqs' = [reqs EXCEPT ![s] = q],
         world' = world, sync'.row,
         sync' \in [row : BOOLEAN, fetched : Stamps, sim : BOOLEAN],
         results' \in [Matches -> Results],
         rankings' \in [source : {"none", "tba", "sim"}, played : SUBSET Matches],
         queue' \subseteq Matches
  PROVE  Typed'
<1>0. q.pc \in {"idle", "pull"} /\ DOMAIN q = {"pc", "ins"}
  BY DEF Idle
<1>1. reqs'[s] = q
  BY DEF Typed, Requests
<1>2. RequestOK(s)'
  BY <1>0, <1>1 DEF RequestOK, Stops
<1>3. Requests'
  BY <1>2, OthersKeep DEF Typed, Requests
<1> QED
  BY <1>3 DEF Typed, TypeOK, Requests, RequestOK, Stops

LEMMA AbortKeeps ==
  ASSUME Typed, NEW s \in Slots, Abort(s)
  PROVE  Typed'
<1>1. reqs' = [reqs EXCEPT ![s] = Idle] /\ UNCHANGED <<world, tables>>
  BY DEF Abort, Done
<1>2. RequestOK(s)'
  BY <1>1 DEF RequestOK, Idle, Stops, Typed, Requests
<1> QED
  BY <1>1, <1>2, ReadKeeps

-----------------------------------------------------------------------------
\* Type correctness.

LEMMA ClientTypes ==
  ASSUME Typed, NEW s \in Slots, ClientStep(s)
  PROVE  Typed'
<1>1. ASSUME NEW force \in BOOLEAN, View(s, force)
      PROVE  Typed'
  <2>1. sync.sim => sync.row
    BY DEF Typed, TypeOK, NoSync
  <2>2. [pc |-> "matches"] \in Firsts
    BY DEF Firsts
  <2>3. CASE sync.sim
    <3>1. Begin(s, [pc |-> "rebuild", seen |-> Present])
      BY <1>1, <2>3 DEF View
    <3> QED
      BY <2>1, <2>3, <3>1, BeginKeeps
  <2>4. CASE ~sync.sim
    <3>1. Begin(s, [pc |-> "matches"])
      BY <1>1, <2>4 DEF View
    <3> QED
      BY <2>2, <3>1, BeginKeeps
  <2> QED
    BY <2>3, <2>4
<1>2. ASSUME NEW report \in Reports, Push(s, report)
      PROVE  Typed'
  BY <1>2, ReportType, IngestType, BeginKeeps DEF Push
<1>3. ASSUME NEW op \in {"start", "stop"}, Switch(s, op)
      PROVE  Typed'
  <2> DEFINE wipe(row) == [pc |-> "wipe", op |-> op, row |-> row, seen |-> Present]
  <2>1. CASE sync.row
    BY <1>3, <2>1, BeginKeeps DEF Switch
  <2>2. CASE ~sync.row /\ op = "start"
    <3>1. Begin(s, wipe(TRUE)) /\ Present \in SUBSET Matches
      BY <1>3, <2>2 DEF Switch, Present
    <3>2. wipe(TRUE) \in Firsts
      BY <2>2, <3>1 DEF Firsts
    <3> QED
      BY <3>1, <3>2, BeginKeeps
  <2>3. CASE ~sync.row /\ op = "stop"
    <3>1. /\ reqs' = [reqs EXCEPT ![s] = Over(wipe(FALSE), Idle)]
          /\ UNCHANGED <<world, tables>>
      BY <1>3, <2>3 DEF Switch
    <3>2. RequestOK(s)'
      BY <3>1 DEF RequestOK, Over, Idle, Stops, Typed, Requests
    <3> QED
      BY <3>1, <3>2, ReadKeeps
  <2> QED
    BY <2>1, <2>2, <2>3
<1> QED
  BY <1>1, <1>2, <1>3 DEF ClientStep

LEMMA TbaTypes ==
  ASSUME Typed, NEW s \in Slots, TbaSteps(s)
  PROVE  Typed'
<1>0. RequestOK(s) /\ reqs = [t \in Slots |-> reqs[t]]
  BY DEF Typed, Requests
<1>1. ASSUME NEW answer \in Answers, MatchesAnswer(s, answer)
      PROVE  Typed'
  <2>1. DOMAIN answer \subseteq Matches
    BY <1>1 DEF Answers, Published
  <2>2. RequestOK(s)'
    BY <1>0, <1>1, <2>1 DEF MatchesAnswer, RequestOK, Over, Stops
  <2> QED
    BY <1>1, <2>2, ReadKeeps DEF MatchesAnswer
<1>2. ASSUME MatchesFail(s)
      PROVE  Typed'
  <2>1. RequestOK(s)'
    BY <1>0, <1>2 DEF MatchesFail, Goto, RequestOK, Stops
  <2> QED
    BY <1>2, <2>1, ReadKeeps DEF MatchesFail, Goto
<1>3. ASSUME FlushMatches(s)
      PROVE  Typed'
  <2>1. CASE Abort(s)
    BY <2>1, AbortKeeps
  <2>2. CASE Goto(s, "rankings") /\ UNCHANGED <<world, tables>>
    <3>1. RequestOK(s)'
      BY <1>0, <1>3, <2>2 DEF FlushMatches, Goto, RequestOK, Stops
    <3> QED
      BY <2>2, <3>1, ReadKeeps DEF Goto
  <2> QED
    BY <1>3, <2>1, <2>2 DEF FlushMatches
<1>4. ASSUME RankingsAnswer(s)
      PROVE  Typed'
  <2>1. [source |-> "tba", played |-> Played] \in Ranks /\ NoRankings \in Ranks
    BY DEF Ranks, NoRankings, Played
  <2>2. RequestOK(s)'
    BY <1>0, <1>4, <2>1 DEF RankingsAnswer, RequestOK, Over, Stops
  <2> QED
    BY <1>4, <2>2, ReadKeeps DEF RankingsAnswer
<1>5. ASSUME RankingsFail(s)
      PROVE  Typed'
  <2>1. [source |-> Kept] \in Ranks
    BY DEF Ranks
  <2>2. RequestOK(s)'
    BY <1>0, <1>5, <2>1 DEF RankingsFail, RequestOK, Over, Stops
  <2> QED
    BY <1>5, <2>2, ReadKeeps DEF RankingsFail
<1>6. ASSUME CommitRefresh(s)
      PROVE  Typed'
  <2>1. results' \in [Matches -> Results]
    BY <1>6 DEF CommitRefresh, Merged, Results, Typed, TypeOK
  <2>2. rankings' \in [source : {"none", "tba", "sim"}, played : SUBSET Matches]
    BY <1>0, <1>6 DEF CommitRefresh, RequestOK, Ranks, Kept, Typed, TypeOK
  <2>3. sync'.row /\ sync' \in [row : BOOLEAN, fetched : Stamps, sim : BOOLEAN]
    BY <1>6 DEF CommitRefresh, Stamps, Typed, TypeOK
  <2> QED
    BY <1>6, <2>1, <2>2, <2>3, WriteKeeps
    DEF CommitRefresh, AfterRefresh, Done, Typed, TypeOK
<1>7. ASSUME CommitFailed(s)
      PROVE  Typed'
  <2>1. sync'.row /\ sync' \in [row : BOOLEAN, fetched : Stamps, sim : BOOLEAN]
    BY <1>7 DEF CommitFailed, Stamps, Typed, TypeOK
  <2> QED
    BY <1>7, <2>1, WriteKeeps DEF CommitFailed, AfterRefresh, Done, Typed, TypeOK
<1> QED
  BY <1>1, <1>2, <1>3, <1>4, <1>5, <1>6, <1>7 DEF TbaSteps

LEMMA NexusTypes ==
  ASSUME Typed, NEW s \in Slots, NexusSteps(s)
  PROVE  Typed'
<1>0. RequestOK(s) /\ reqs = [t \in Slots |-> reqs[t]]
  BY DEF Typed, Requests
<1>1. ASSUME PullAnswer(s)
      PROVE  Typed'
  <2>1. DOMAIN Ingest(FullAnswer).made \subseteq Matches
    BY DEF Ingest, FullAnswer, Published
  <2>2. RequestOK(s)'
    BY <1>0, <1>1, <2>1 DEF PullAnswer, Ingest, RequestOK, Over, Idle, Stops
  <2> QED
    BY <1>1, <2>2, ReadKeeps DEF PullAnswer
<1>2. ASSUME PullFail(s)
      PROVE  Typed'
  BY <1>2, AbortKeeps DEF PullFail
<1>3. ASSUME Store(s)
      PROVE  Typed'
  <2>1. CASE Abort(s)
    BY <2>1, AbortKeeps
  <2>2. CASE ~Abort(s)
    <3>1. results' \in [Matches -> Results]
      BY <1>3, <2>2 DEF Store, Results, Typed, TypeOK
    <3>2. queue' \subseteq Matches
      <4>1. DOMAIN reqs[s].made \subseteq Matches
        BY <1>0, <1>3 DEF Store, RequestOK
      <4> QED
        BY <1>3, <2>2, <4>1 DEF Store, Typed, TypeOK
    <3>3. sync'.row /\ sync' \in [row : BOOLEAN, fetched : Stamps, sim : BOOLEAN]
      <4>1. sync' = [sync EXCEPT !.row = TRUE]
        BY <1>3, <2>2 DEF Store
      <4> QED
        BY <4>1 DEF Typed, TypeOK
    <3> QED
      BY <1>3, <2>2, <3>1, <3>2, <3>3, WriteKeeps DEF Store, Done, Typed, TypeOK
  <2> QED
    BY <2>1, <2>2
<1> QED
  BY <1>1, <1>2, <1>3 DEF NexusSteps

LEMMA SimTypes ==
  ASSUME Typed, NEW s \in Slots, SimSteps(s)
  PROVE  Typed'
<1>0. RequestOK(s) /\ reqs = [t \in Slots |-> reqs[t]]
  BY DEF Typed, Requests
<1>1. ASSUME CommitSwitch(s)
      PROVE  Typed'
  <2>1. /\ results' \in [Matches -> Results]
        /\ rankings' \in [source : {"none", "tba", "sim"}, played : SUBSET Matches]
        /\ queue' \subseteq Matches
    BY <1>1 DEF CommitSwitch, Results, NoRankings, Typed, TypeOK
  <2>2. CASE sync'.row
    <3>1. sync' \in [row : BOOLEAN, fetched : Stamps, sim : BOOLEAN]
      BY <1>1 DEF CommitSwitch, Switched, Stamps, Typed, TypeOK
    <3> QED
      BY <1>1, <2>1, <2>2, <3>1, WriteKeeps DEF CommitSwitch, Done
  <2>3. CASE ~sync'.row
    <3>1. sync' = sync
      BY <1>0, <1>1, <2>3 DEF CommitSwitch, Switched, RequestOK, Typed, TypeOK
    <3>2. RequestOK(s)'
      BY <1>0, <1>1 DEF CommitSwitch, Done, RequestOK, Idle, Stops
    <3>3. Requests'
      BY <1>1, <3>1, <3>2, OthersKeep DEF CommitSwitch, Done, Typed, Requests
    <3> QED
      BY <1>1, <2>1, <3>1, <3>3 DEF CommitSwitch, Typed, TypeOK, Requests, RequestOK, Stops
  <2> QED
    BY <2>2, <2>3
<1>2. ASSUME NEW over \in SUBSET Matches, FailSimulated(s, over)
      PROVE  Typed'
  BY <1>2, AbortKeeps DEF FailSimulated
<1>3. ASSUME NEW over \in SUBSET Matches, CommitSimulated(s, over)
      PROVE  Typed'
  <2>1. /\ results' \in [Matches -> Results]
        /\ rankings' \in [source : {"none", "tba", "sim"}, played : SUBSET Matches]
        /\ queue' \subseteq Matches
    BY <1>3 DEF CommitSimulated, Results, Typed, TypeOK
  <2>2. sync'.row /\ sync' \in [row : BOOLEAN, fetched : Stamps, sim : BOOLEAN]
    BY <1>0, <1>3 DEF CommitSimulated, RequestOK, Stamps, Typed, TypeOK
  <2> QED
    BY <1>3, <2>1, <2>2, WriteKeeps DEF CommitSimulated, Done
<1> QED
  BY <1>1, <1>2, <1>3 DEF SimSteps

LEMMA InsertSyncTypes ==
  ASSUME Typed, NEW s \in Slots, InsertSync(s)
  PROVE  Typed'
<1>1. CASE Abort(s)
  BY <1>1, AbortKeeps
<1>2. CASE ~Abort(s)
  <2>1. /\ reqs' = [reqs EXCEPT ![s] = Over([ins |-> TRUE], reqs[s].then)]
        /\ UNCHANGED <<world, tables>>
        /\ reqs[s].then \in Firsts
        /\ reqs'[s] = Over([ins |-> TRUE], reqs[s].then)
    BY <1>2 DEF InsertSync, Typed, Requests, RequestOK
  <2>2. CASE reqs[s].then \in [pc : {"matches"}]
    <3>1. RequestOK(s)'
      BY <2>1, <2>2 DEF RequestOK, Over, Stops
    <3> QED
      BY <2>1, <3>1, ReadKeeps
  <2>3. ASSUME NEW seen, NEW queued, NEW M \in SUBSET Matches,
               NEW made \in [M -> BOOLEAN],
               reqs[s].then = [pc |-> "store", seen |-> seen, queued |-> queued,
                               made |-> made]
        PROVE  Typed'
    <3>1. RequestOK(s)'
      BY <2>1, <2>3 DEF RequestOK, Over, Stops
    <3> QED
      BY <2>1, <3>1, ReadKeeps
  <2>4. ASSUME NEW seen,
               reqs[s].then = [pc |-> "wipe", op |-> "start", row |-> TRUE, seen |-> seen]
        PROVE  Typed'
    <3>1. RequestOK(s)'
      BY <2>1, <2>4 DEF RequestOK, Over, Stops
    <3> QED
      BY <2>1, <3>1, ReadKeeps
  <2> QED
    BY <2>1, <2>2, <2>3, <2>4 DEF Firsts
<1> QED
  BY <1>1, <1>2

LEMMA TypedInit == Init => Typed
BY DEF Init, Typed, TypeOK, Requests, RequestOK, Idle, Stops, NoSync, NoRankings,
       Results, Stamps

LEMMA TypedStep == Typed /\ [Next]_vars => Typed'
<1> SUFFICES ASSUME Typed, [Next]_vars PROVE Typed'
  OBVIOUS
<1>1. ASSUME NEW s \in Slots, ServerStep(s)
      PROVE  Typed'
  BY <1>1, InsertSyncTypes, TbaTypes, NexusTypes, SimTypes, AbortKeeps
  DEF ServerStep, DeadlockVictim
<1>2. ASSUME NEW s \in Slots, ClientStep(s)
      PROVE  Typed'
  BY <1>2, ClientTypes
<1>3. CASE AgeFetched
  BY <1>3 DEF AgeFetched, Typed, TypeOK, Requests, RequestOK, Stamps, NoSync
<1>4. ASSUME Publish \/ \E m \in Matches : Play(m)
      PROVE  Typed'
  BY <1>4 DEF Publish, Play, Typed, TypeOK, Requests, RequestOK, tables
<1>5. CASE UNCHANGED vars
  BY <1>5 DEF Typed, TypeOK, Requests, RequestOK, vars, tables
<1> QED
  BY <1>1, <1>2, <1>3, <1>4, <1>5 DEF Next, WorldStep

\* The tables and the requests keep their types, and a sync row is there
\* whenever one of its flags is set, for any number of requests and matches.
THEOREM LiveTypes == Spec => []TypeOK
<1>1. Typed => TypeOK
  BY DEF Typed
<1> QED
  BY <1>1, TypedInit, TypedStep, PTL DEF Spec

-----------------------------------------------------------------------------
\* What was reported stays.

Wipes == \E s \in Slots :
           CommitSwitch(s) \/ \E over \in SUBSET Matches : CommitSimulated(s, over)

\* Whatever else a request does leaves the results alone, or merges into them.
LEMMA WhoWritesResults ==
  ASSUME NEW s \in Slots, ServerStep(s) \/ ClientStep(s), ~Wipes
  PROVE  results' = results \/ CommitRefresh(s) \/ (Store(s) /\ ~Abort(s))
<1>1. Abort(s) => results' = results
  BY DEF Abort, tables
<1>2. ClientStep(s) => results' = results
  BY DEF ClientStep, View, Push, Switch, Begin, tables
<1>3. InsertSync(s) => results' = results
  BY <1>1 DEF InsertSync, tables
<1>4. TbaSteps(s) => results' = results \/ CommitRefresh(s)
  BY <1>1 DEF TbaSteps, MatchesAnswer, MatchesFail, FlushMatches, RankingsAnswer,
              RankingsFail, CommitFailed, tables
<1>5. NexusSteps(s) => results' = results \/ (Store(s) /\ ~Abort(s))
  BY <1>1 DEF NexusSteps, PullAnswer, PullFail, tables
<1>6. SimSteps(s) \/ DeadlockVictim(s) => results' = results
  BY <1>1 DEF SimSteps, FailSimulated, DeadlockVictim, Wipes
<1> QED
  BY <1>2, <1>3, <1>4, <1>5, <1>6 DEF ServerStep

\* A result, once there, is only merged with: no refresh, push or pull clears
\* one or drops a row, for any number of requests that race.
THEOREM ReportedIsKept == Spec => KeepsReported
<1> DEFINE Kept1 == /\ Present \subseteq Present'
                    /\ \A m \in Matches : results[m] \in Reported => results'[m] \in Reported
<1>1. ASSUME Typed, [Next]_vars, ~Wipes
      PROVE  Kept1
  <2>1. CASE results' = results
    BY <2>1 DEF Present
  <2>2. ASSUME NEW s \in Slots, CommitRefresh(s)
        PROVE  Kept1
    <3>1. \A m \in Matches : \/ results'[m] = results[m]
                            \/ \E reported : results'[m] = Merged(results[m], reported)
      BY <2>2 DEF CommitRefresh
    <3> QED
      BY <3>1 DEF Merged, Present, Reported
  <2>3. ASSUME NEW s \in Slots, Store(s), ~Abort(s)
        PROVE  Kept1
    <3>1. \A m \in Matches : results'[m] \in {"real", results[m]}
      BY <2>3 DEF Store
    <3> QED
      BY <3>1 DEF Present, Reported
  <2>4. WorldStep \/ UNCHANGED vars => results' = results
    BY DEF WorldStep, AgeFetched, Publish, Play, vars, tables
  <2> QED
    BY <1>1, <2>1, <2>2, <2>3, <2>4, WhoWritesResults DEF Next
<1>2. Typed /\ [Next]_vars => [~Wipes => Kept1]_vars
  BY <1>1
<1> QED
  BY <1>2, TypedInit, TypedStep, PTL DEF Spec, KeepsReported, Wipes

-----------------------------------------------------------------------------
\* The rows a refresh has flushed.

\* What a step has to show: of itself, and to those who hold rows.
LEMMA HoldersKeep ==
  ASSUME Typed, FlushedRowsHold, NEW s \in Slots, NEW q,
         reqs' = [reqs EXCEPT ![s] = q],
         \A t \in Slots \ {s} : \A m \in HoldsMatches(t) :
           (m \in Present') = (m \in Present),
         q.pc \in {"rankings", "commit"} => \A m \in DOMAIN q.payload :
           /\ (m \in q.seen) = (m \in Present')
           /\ \A t \in Slots \ {s} : m \notin HoldsMatches(t)
  PROVE  FlushedRowsHold'
<1>1. /\ reqs'[s] = q
      /\ \A t \in Slots \ {s} : reqs'[t] = reqs[t]
  BY DEF Typed, Requests
<1>2. /\ \A t \in Slots \ {s} : HoldsMatches(t)' = HoldsMatches(t)
      /\ HoldsMatches(s)' = IF q.pc \in {"rankings", "commit"}
                            THEN DOMAIN q.payload ELSE {}
  BY <1>1 DEF HoldsMatches
<1>3. SUFFICES ASSUME NEW t \in Slots, NEW m \in HoldsMatches(t)'
               PROVE  /\ (m \in reqs'[t].seen) = (m \in Present')
                      /\ \A u \in Slots \ {t} : m \notin HoldsMatches(u)'
  BY DEF FlushedRowsHold
<1>4. CASE t = s
  BY <1>1, <1>2, <1>3, <1>4
<1>5. CASE t # s
  <2>1. m \in HoldsMatches(t) /\ reqs'[t] = reqs[t]
    BY <1>1, <1>2, <1>3, <1>5
  <2>2. /\ (m \in reqs[t].seen) = (m \in Present)
        /\ \A u \in Slots \ {t} : m \notin HoldsMatches(u)
    BY <2>1 DEF FlushedRowsHold
  <2>3. m \notin HoldsMatches(s)'
    BY <1>2, <1>5, <2>1
  <2> QED
    BY <1>2, <1>5, <2>1, <2>2, <2>3
<1> QED
  BY <1>4, <1>5

\* Nothing is written, and the request comes to a stop without rows.
LEMMA NothingHeld ==
  ASSUME Typed, FlushedRowsHold, NEW s \in Slots, NEW q,
         reqs' = [reqs EXCEPT ![s] = q], q.pc \notin {"rankings", "commit"},
         results' = results
  PROVE  FlushedRowsHold'
<1>1. Present' = Present
  BY DEF Present
<1> QED
  BY <1>1, HoldersKeep

LEMMA AbortHolds ==
  ASSUME Typed, FlushedRowsHold, NEW s \in Slots, Abort(s)
  PROVE  FlushedRowsHold'
BY NothingHeld DEF Abort, Done, Idle, tables

LEMMA ClientHolds ==
  ASSUME Typed, FlushedRowsHold, NEW s \in Slots, ClientStep(s)
  PROVE  FlushedRowsHold'
<1>1. ASSUME NEW first, Begin(s, first),
             "pc" \in DOMAIN first, first.pc \notin {"rankings", "commit"}
      PROVE  FlushedRowsHold'
  <2>1. Over(first, Idle).pc = first.pc
    BY <1>1 DEF Over, Idle
  <2> DEFINE q == IF sync.row THEN Over(first, Idle)
                  ELSE [pc |-> "insert", ins |-> FALSE, then |-> first]
  <2>2. q.pc \notin {"rankings", "commit"}
    BY <1>1, <2>1
  <2>3. reqs' = [reqs EXCEPT ![s] = q] /\ results' = results
    BY <1>1 DEF Begin, tables
  <2> QED
    BY <2>2, <2>3, NothingHeld
<1>2. ASSUME NEW force \in BOOLEAN, View(s, force)
      PROVE  FlushedRowsHold'
  BY <1>1, <1>2 DEF View
<1>3. ASSUME NEW report \in Reports, Push(s, report)
      PROVE  FlushedRowsHold'
  BY <1>1, <1>3 DEF Push, Ingest
<1>4. ASSUME NEW op \in {"start", "stop"}, Switch(s, op)
      PROVE  FlushedRowsHold'
  <2> DEFINE wipe(row) == [pc |-> "wipe", op |-> op, row |-> row, seen |-> Present]
  <2>1. CASE Begin(s, wipe(TRUE))
    BY <1>1, <2>1
  <2>2. CASE ~Begin(s, wipe(TRUE))
    <3>1. reqs' = [reqs EXCEPT ![s] = Over(wipe(FALSE), Idle)] /\ results' = results
      BY <1>4, <2>2 DEF Switch, tables
    <3>2. Over(wipe(FALSE), Idle).pc = "wipe"
      BY DEF Over, Idle
    <3> QED
      BY <3>1, <3>2, NothingHeld
  <2> QED
    BY <2>1, <2>2
<1> QED
  BY <1>2, <1>3, <1>4 DEF ClientStep

LEMMA InsertSyncHolds ==
  ASSUME Typed, FlushedRowsHold, NEW s \in Slots, InsertSync(s)
  PROVE  FlushedRowsHold'
<1>1. CASE Abort(s)
  BY <1>1, AbortHolds
<1>2. CASE ~Abort(s)
  <2>1. /\ reqs' = [reqs EXCEPT ![s] = Over([ins |-> TRUE], reqs[s].then)]
        /\ results' = results
        /\ reqs[s].then \in Firsts
    BY <1>2 DEF InsertSync, tables, Typed, Requests, RequestOK
  <2>2. /\ "pc" \in DOMAIN reqs[s].then
        /\ reqs[s].then.pc \in {"matches", "store", "wipe"}
    BY <2>1 DEF Firsts
  <2>3. Over([ins |-> TRUE], reqs[s].then).pc = reqs[s].then.pc
    BY <2>2 DEF Over
  <2> QED
    BY <2>1, <2>2, <2>3, NothingHeld
<1> QED
  BY <1>1, <1>2

LEMMA TbaHolds ==
  ASSUME Typed, FlushedRowsHold, NEW s \in Slots, TbaSteps(s)
  PROVE  FlushedRowsHold'
<1>0. RequestOK(s) /\ reqs = [t \in Slots |-> reqs[t]]
  BY DEF Typed, Requests
<1>1. ASSUME NEW answer \in Answers, MatchesAnswer(s, answer)
      PROVE  FlushedRowsHold'
  <2>1. Over([pc |-> "flush", payload |-> answer, seen |-> Present], reqs[s]).pc = "flush"
    BY <1>0 DEF Over, RequestOK
  <2> QED
    BY <1>1, <2>1, NothingHeld DEF MatchesAnswer, tables
<1>2. ASSUME MatchesFail(s)
      PROVE  FlushedRowsHold'
  <2>1. [reqs[s] EXCEPT !.pc = "failed"].pc = "failed"
    BY <1>0 DEF RequestOK
  <2> QED
    BY <1>2, <2>1, NothingHeld DEF MatchesFail, Goto, tables
<1>3. ASSUME FlushMatches(s)
      PROVE  FlushedRowsHold'
  <2>1. CASE Abort(s)
    BY <2>1, AbortHolds
  <2>2. CASE ~Abort(s)
    <3> DEFINE q == [reqs[s] EXCEPT !.pc = "rankings"]
    <3>1. /\ reqs' = [reqs EXCEPT ![s] = q] /\ results' = results
          /\ ~Conflict(reqs[s].seen, Present, DOMAIN reqs[s].payload)
          /\ MatchesFree(s, DOMAIN reqs[s].payload)
      BY <1>3, <2>2 DEF FlushMatches, Goto, tables
    <3>2. q.payload = reqs[s].payload /\ q.seen = reqs[s].seen
      BY <1>0, <1>3 DEF FlushMatches, RequestOK
    <3>3. Present' = Present
      BY <3>1 DEF Present
    <3>4. \A m \in DOMAIN q.payload :
            /\ (m \in q.seen) = (m \in Present')
            /\ \A t \in Slots \ {s} : m \notin HoldsMatches(t)
      BY <3>1, <3>2, <3>3 DEF Conflict, MatchesFree
    <3> HIDE DEF q
    <3> QED
      BY <3>1, <3>3, <3>4, HoldersKeep
  <2> QED
    BY <2>1, <2>2
<1>4. ASSUME RankingsAnswer(s) \/ RankingsFail(s)
      PROVE  FlushedRowsHold'
  <2>1. PICK ranks : reqs' = [reqs EXCEPT ![s] =
                                Over([pc |-> "commit", ranks |-> ranks], reqs[s])]
    BY <1>4 DEF RankingsAnswer, RankingsFail
  <2>2. reqs[s].pc = "rankings" /\ results' = results
    BY <1>4 DEF RankingsAnswer, RankingsFail, tables
  <2> DEFINE q == Over([pc |-> "commit", ranks |-> ranks], reqs[s])
  <2>3. q.payload = reqs[s].payload /\ q.seen = reqs[s].seen
    BY <1>0, <2>2 DEF Over, RequestOK
  <2>4. Present' = Present
    BY <2>2 DEF Present
  <2>5. \A m \in DOMAIN reqs[s].payload :
          /\ (m \in reqs[s].seen) = (m \in Present')
          /\ \A t \in Slots \ {s} : m \notin HoldsMatches(t)
    BY <2>2, <2>4 DEF FlushedRowsHold, HoldsMatches
  <2> HIDE DEF q
  <2> QED
    BY <2>1, <2>3, <2>4, <2>5, HoldersKeep DEF q
<1>5. ASSUME CommitRefresh(s)
      PROVE  FlushedRowsHold'
  <2>1. PICK q \in {Idle, [Idle EXCEPT !.pc = "pull"]} : reqs' = [reqs EXCEPT ![s] = q]
    BY <1>5 DEF CommitRefresh, AfterRefresh, Done
  <2>2. q.pc \in {"idle", "pull"}
    BY <2>1 DEF Idle
  <2>3. ASSUME NEW t \in Slots \ {s}, NEW m \in HoldsMatches(t)
        PROVE  (m \in Present') = (m \in Present)
    <3>1. m \notin HoldsMatches(s)
      BY <2>3 DEF FlushedRowsHold
    <3>2. m \notin DOMAIN reqs[s].payload
      BY <1>5, <3>1 DEF CommitRefresh, HoldsMatches
    <3>3. m \in Matches => results'[m] = results[m]
      BY <1>5, <3>2 DEF CommitRefresh
    <3> QED
      BY <3>3 DEF Present
  <2> QED
    BY <2>1, <2>2, <2>3, HoldersKeep
<1>6. ASSUME CommitFailed(s)
      PROVE  FlushedRowsHold'
  <2>1. PICK q \in {Idle, [Idle EXCEPT !.pc = "pull"]} : reqs' = [reqs EXCEPT ![s] = q]
    BY <1>6 DEF CommitFailed, AfterRefresh, Done
  <2>2. q.pc \in {"idle", "pull"}
    BY <2>1 DEF Idle
  <2> QED
    BY <1>6, <2>1, <2>2, NothingHeld DEF CommitFailed
<1> QED
  BY <1>1, <1>2, <1>3, <1>4, <1>5, <1>6 DEF TbaSteps

\* A write of rows that nobody else holds.
LEMMA FreeWriteHolds ==
  ASSUME Typed, FlushedRowsHold, NEW s \in Slots, Done(s), NEW M, MatchesFree(s, M),
         \A m \in Matches \ M : results'[m] = results[m]
  PROVE  FlushedRowsHold'
<1>1. ASSUME NEW t \in Slots \ {s}, NEW m \in HoldsMatches(t)
      PROVE  (m \in Present') = (m \in Present)
  BY <1>1 DEF MatchesFree, Present
<1> QED
  BY <1>1, HoldersKeep DEF Done, Idle

LEMMA NexusHolds ==
  ASSUME Typed, FlushedRowsHold, NEW s \in Slots, NexusSteps(s)
  PROVE  FlushedRowsHold'
<1>1. ASSUME PullAnswer(s)
      PROVE  FlushedRowsHold'
  <2>1. Over(Ingest(FullAnswer), Idle).pc = "store"
    BY DEF Over, Ingest, Idle
  <2> QED
    BY <1>1, <2>1, NothingHeld DEF PullAnswer, tables
<1>2. ASSUME PullFail(s)
      PROVE  FlushedRowsHold'
  BY <1>2, AbortHolds DEF PullFail
<1>3. ASSUME Store(s)
      PROVE  FlushedRowsHold'
  <2>1. CASE Abort(s)
    BY <2>1, AbortHolds
  <2>2. CASE ~Abort(s)
    <3> DEFINE M == {m \in DOMAIN reqs[s].made : reqs[s].made[m]}
    <3>1. Done(s) /\ MatchesFree(s, M)
      BY <1>3, <2>2 DEF Store
    <3>2. \A m \in Matches \ M : results'[m] = results[m]
      BY <1>3, <2>2 DEF Store
    <3> QED
      BY <3>1, <3>2, FreeWriteHolds
  <2> QED
    BY <2>1, <2>2
<1> QED
  BY <1>1, <1>2, <1>3 DEF NexusSteps

LEMMA SimHolds ==
  ASSUME Typed, FlushedRowsHold, NEW s \in Slots, SimSteps(s)
  PROVE  FlushedRowsHold'
<1>1. ASSUME CommitSwitch(s)
      PROVE  FlushedRowsHold'
  <2>1. \A m \in Matches \ reqs[s].seen : results'[m] = results[m]
    BY <1>1 DEF CommitSwitch
  <2> QED
    BY <1>1, <2>1, FreeWriteHolds DEF CommitSwitch
<1>2. ASSUME NEW over \in SUBSET Matches, FailSimulated(s, over)
      PROVE  FlushedRowsHold'
  BY <1>2, AbortHolds DEF FailSimulated
<1>3. ASSUME NEW over \in SUBSET Matches, CommitSimulated(s, over)
      PROVE  FlushedRowsHold'
  <2>1. Done(s) /\ MatchesFree(s, Matches)
    BY <1>3 DEF CommitSimulated
  <2> QED
    BY <2>1, FreeWriteHolds
<1> QED
  BY <1>1, <1>2, <1>3 DEF SimSteps

\* For any number of requests and matches: the rows a refresh has flushed stay
\* as it selected them until it commits, and nobody else holds them.
THEOREM FlushedRowsStay == Spec => []FlushedRowsHold
<1>1. Init => FlushedRowsHold
  BY DEF Init, FlushedRowsHold, HoldsMatches, Idle
<1>2. Typed /\ FlushedRowsHold /\ [Next]_vars => FlushedRowsHold'
  <2> SUFFICES ASSUME Typed, FlushedRowsHold, [Next]_vars PROVE FlushedRowsHold'
    OBVIOUS
  <2>1. ASSUME NEW s \in Slots, ServerStep(s)
        PROVE  FlushedRowsHold'
    BY <2>1, InsertSyncHolds, TbaHolds, NexusHolds, SimHolds, AbortHolds
    DEF ServerStep, DeadlockVictim
  <2>2. ASSUME NEW s \in Slots, ClientStep(s)
        PROVE  FlushedRowsHold'
    BY <2>2, ClientHolds
  <2>3. ASSUME WorldStep \/ UNCHANGED vars
        PROVE  FlushedRowsHold'
    BY <2>3 DEF WorldStep, AgeFetched, Publish, Play, vars, tables, FlushedRowsHold,
                HoldsMatches, Present
  <2> QED
    BY <2>1, <2>2, <2>3 DEF Next
<1> QED
  BY <1>1, <1>2, TypedInit, TypedStep, PTL DEF Spec
=============================================================================
