------------------------------- MODULE Imports -------------------------------
(***************************************************************************)
(* Importing a schedule from a file (app/main.py, import_pdf, import_xlsx,  *)
(* import_csv_endpoint, commit_pdf_import).  An upload is parsed, or found  *)
(* by content hash in pdf_imports; the browser shows a preview, the user    *)
(* may correct it and commits it.  Sheets are parsed by rule, PDFs by a     *)
(* language model whose reply may fail, stop early or differ from one call  *)
(* to the next.  Uploads run in several processes and die with them.  A     *)
(* parsed match has its number, two alliances and their surrogate flags;    *)
(* locks, freezes and history of the schedule written are the matter of     *)
(* ScheduleLifecycle.                                                       *)
(***************************************************************************)
EXTENDS LlmReply, FiniteSets, TLC

CONSTANTS
  Clients,       \* browsers and API clients
  Pdfs, Sheets,  \* files, by content hash
  Pdf,           \* [Pdfs -> what a PDF is and what the model may write about it]
  Rows,          \* [Sheets -> the data rows of the sheets of a workbook or CSV]
  MatchOf,       \* the match an item of a reply stands for
  Corrected,     \* [files -> the match list a user makes of a preview of it]
  Rosters,       \* rosters the event can have
  LegacyRows,    \* rows written before practice matches were kept
  AllianceSize,  \* 3 in the code
  NoRow, Absent, Blank

Files == Pdfs \cup Sheets

ASSUME ImportsAssumption ==
  /\ AllianceSize \in Nat \ {0}
  /\ Pdfs \cap Sheets = {}
  /\ \A f \in DOMAIN LegacyRows :
       /\ f \in Files
       /\ LegacyRows[f] = [kind |-> LegacyRows[f].kind, matches |-> LegacyRows[f].matches,
                           practice |-> Absent]
       /\ LegacyRows[f].kind \in {"matches", "dayplan"}
       /\ LegacyRows[f].kind = "dayplan" => f \in Pdfs /\ Pdf[f].program

VARIABLES
  cache,     \* pdf_imports: file -> row, at most one per content hash
  roster,    \* team numbers of the event
  reqs       \* what each client is waiting for or looking at, and what it made

vars == <<cache, roster, reqs>>

Idle == [pc |-> "idle", file |-> Absent, key |-> Absent, doc |-> Absent,
         parsed |-> Absent, edited |-> FALSE, read |-> Absent, made |-> Absent]

Parsed(kind, matches, practice) == [kind |-> kind, matches |-> matches, practice |-> practice]
PracticeOf(p) == IF p.practice = Absent THEN <<>> ELSE p.practice   \* .get("practice", [])
\* Faulty: the preview is the cached dictionary itself.
Shown_Raw(p) == p
Shown(p)     == [p EXCEPT !.practice = PracticeOf(p)]

-----------------------------------------------------------------------------
\* parse_xlsx and parse_csv.
Seated(cells) == SelectSeq(cells, LAMBDA t : t # Blank)
Flags(cells, surrogates) ==
  LET seats == Seated(cells) IN [i \in DOMAIN seats |-> seats[i] \in surrogates]
MatchRow(r) == [num |-> r.num, red |-> Seated(r.red), blue |-> Seated(r.blue),
                redSur |-> Flags(r.red, r.surrogates), blueSur |-> Flags(r.blue, r.surrogates)]
IsMatch(r)  == r.num # Blank /\ (Seated(r.red) # <<>> \/ Seated(r.blue) # <<>>)
RowsOf(f, type) ==
  LET kept == SelectSeq(Rows[f], LAMBDA r : r.type = type /\ IsMatch(r)) IN
  [i \in DOMAIN kept |-> MatchRow(kept[i])]
ParseSheet(f) == Parsed("matches", RowsOf(f, "qual"), RowsOf(f, "practice"))
SheetFails(f) == ParseSheet(f).matches = <<>> /\ ParseSheet(f).practice = <<>>

\* What json.loads can make of each reply, wherever it stops.
Docs  == UNION {Pdf[p].matchReplies \cup Pdf[p].planReplies : p \in Pdfs}
Outcomes == {[doc |-> d, reads |-> {ParseReply(d, Cut(d, n)) : n \in 0..Len(Spell(d))}] : d \in Docs}
FromReply(key, d) ==
  LET items == Items(d, key) IN
  IF key = "blocks" THEN Parsed("dayplan", <<>>, Absent)
  ELSE Parsed("matches", [i \in DOMAIN items |-> MatchOf[items[i].name]], Absent)

\* What the server can have parsed; none of it is a null value.
Parses == {ParseSheet(f) : f \in Sheets}
            \cup {FromReply(key, d) : key \in {"matches", "blocks"},
                                    d \in (UNION {o.reads : o \in Outcomes}) \ {Malformed}}
ASSUME NullsAssumption ==
  /\ \A row \in Parses \cup Range(LegacyRows) : row # NoRow
  /\ \A list \in {<<>>} \cup {ParseSheet(f).practice : f \in Sheets} : list # Absent

\* Match and team numbers are integers, in what is parsed and in what users make of it.
Matches    == [num : Int, red : Seq(Int), blue : Seq(Int), redSur : Seq(BOOLEAN), blueSur : Seq(BOOLEAN)]
MatchLists == Seq(Matches)
ASSUME ListsAssumption ==
  /\ \A row \in Parses \cup Range(LegacyRows) : row.matches \in MatchLists
  /\ \A f \in Files : Corrected[f] \in MatchLists

-----------------------------------------------------------------------------
\* validate_schedule: the errors; warnings stop nothing.
Teams(m)  == ToSet(m.red) \cup ToSet(m.blue)
Nums(ms)  == {ms[i].num : i \in DOMAIN ms}
AllTeams(ms) == UNION {Teams(ms[i]) : i \in DOMAIN ms}
FullAlliances(m) == Len(m.red) = AllianceSize /\ Len(m.blue) = AllianceSize
NoTeamTwice(m)   == Cardinality(Teams(m)) = Len(m.red) + Len(m.blue)
NumbersRun(ms)   == /\ Cardinality(Nums(ms)) = Len(ms)
                    /\ \A n \in Nums(ms) : n = Greatest(Nums(ms)) \/ n + 1 \in Nums(ms)
InRoster(ms, r)  == r # {} => AllTeams(ms) \subseteq r
Valid(ms, r) ==
  /\ ms # <<>>
  /\ \A i \in DOMAIN ms : FullAlliances(ms[i]) /\ NoTeamTwice(ms[i])
  /\ \A t \in AllTeams(ms) : t > 0
  /\ NumbersRun(ms)
  /\ InRoster(ms, r)

\* commit_pdf_import: slots are numbered by first appearance in match order.
\* Faulty: the matches are taken in the order of the file.
InOrder_AsParsed(ms) == ms
Before(ms, j) == {k \in DOMAIN ms : ms[k].num < ms[j].num \/ (ms[k].num = ms[j].num /\ k < j)}
InOrder(ms) ==
  [i \in DOMAIN ms |-> ms[CHOOSE j \in DOMAIN ms : Cardinality(Before(ms, j)) = i - 1]]
Lineup(ms)  == FlattenSeq([i \in DOMAIN ms |-> ms[i].red \o ms[i].blue])
SlotMap(ms) ==
  LET seats  == Lineup(ms)
      firsts == {i \in DOMAIN seats : \A j \in 1..(i - 1) : seats[j] # seats[i]}
  IN  [s \in 1..Cardinality(firsts) |->
         seats[CHOOSE i \in firsts : Cardinality({j \in firsts : j <= i}) = s]]
\* An empty flag list stands for no surrogates; a list shorter than its alliance
\* is an IndexError.
FlagsOf(flags) == IF flags = <<>> THEN [i \in 1..AllianceSize |-> FALSE] ELSE flags
EnoughFlags(m) == Len(FlagsOf(m.redSur)) >= AllianceSize /\ Len(FlagsOf(m.blueSur)) >= AllianceSize

Abstract(ms, map) ==
  LET Slots(teams) == [j \in DOMAIN teams |-> CHOOSE s \in DOMAIN map : map[s] = teams[j]] IN
  [i \in DOMAIN ms |->
     [red    |-> Slots(ms[i].red),       blue    |-> Slots(ms[i].blue),
      redSur |-> FlagsOf(ms[i].redSur),  blueSur |-> FlagsOf(ms[i].blueSur)]]

SurrogateCount(plan, n) ==
  [s \in 1..n |->
     LET seats == (DOMAIN plan) \X (1..AllianceSize) IN
     Cardinality({x \in seats : plan[x[1]].red[x[2]] = s /\ plan[x[1]].redSur[x[2]]})
     + Cardinality({x \in seats : plan[x[1]].blue[x[2]] = s /\ plan[x[1]].blueSur[x[2]]})]

BothSides(p) == p.red # <<>> /\ p.blue # <<>>

Built(read) ==
  LET ms   == InOrder(read.matches)
      map  == SlotMap(ms)
      plan == Abstract(ms, map)
  IN  [plan     |-> plan,
       map      |-> map,
       count    |-> SurrogateCount(plan, Cardinality(AllTeams(ms))),
       practice |-> SelectSeq(read.practice, BothSides)]

-----------------------------------------------------------------------------
Init ==
  /\ cache = [f \in Files |-> IF f \in DOMAIN LegacyRows THEN LegacyRows[f] ELSE NoRow]
  /\ roster \in Rosters
  /\ reqs = [c \in Clients |-> Idle]

tables == <<cache, roster>>
Goto(c, r)  == reqs' = [reqs EXCEPT ![c] = r]
Ends(c)     == Goto(c, Idle)
At(c, pc)   == reqs[c].pc = pc
Waits(c)    == reqs[c].pc \notin {"idle", "preview", "written"}
Answers(c, p) == Goto(c, [Idle EXCEPT !.pc = "preview", !.file = reqs[c].file, !.parsed = Shown(p)])

\* A cached sheet without the practice key is parsed again; a PDF is not.
\* Faulty: every row of the hash is used.
Hit_AnyRow(f) == cache[f] # NoRow
Hit(f) == cache[f] # NoRow /\ (f \in Sheets => cache[f].practice # Absent)

\* nocache leaves the lookup out.
Upload(c, f, nocache) ==
  /\ ~Waits(c)
  /\ IF Hit(f) /\ ~nocache
     THEN Goto(c, [Idle EXCEPT !.pc = "preview", !.file = f, !.parsed = Shown(cache[f])])
     ELSE Goto(c, [Idle EXCEPT !.pc = "extract", !.file = f])
  /\ UNCHANGED tables

ReadSheet(c) ==
  /\ At(c, "extract") /\ reqs[c].file \in Sheets
  /\ IF SheetFails(reqs[c].file) THEN Ends(c)
     ELSE Goto(c, [reqs[c] EXCEPT !.pc = "store", !.parsed = ParseSheet(reqs[c].file)])
  /\ UNCHANGED tables

\* extract_schedule: the text layer, or OCR, or the page images.  Text that
\* looks like an itinerary is read as a day plan; a long match list is refused;
\* images are always read as matches.
ReadText(c, p) ==
  \/ p.program /\ Goto(c, [reqs[c] EXCEPT !.pc = "ask", !.key = "blocks"])
  \/ ~p.program /\ ~p.long /\ Goto(c, [reqs[c] EXCEPT !.pc = "ask", !.key = "matches"])
  \/ ~p.program /\ p.long /\ Ends(c)
ReadImages(c, p) ==
  ~p.text /\ Goto(c, [reqs[c] EXCEPT !.pc = "ask", !.key = "matches"])
NothingExtracted(c, p) == ~p.text /\ Ends(c)

Extract(c) ==
  /\ At(c, "extract") /\ reqs[c].file \in Pdfs
  /\ LET p == Pdf[reqs[c].file] IN ReadText(c, p) \/ ReadImages(c, p) \/ NothingExtracted(c, p)
  /\ UNCHANGED tables

Replies(c) == IF reqs[c].key = "blocks" THEN Pdf[reqs[c].file].planReplies
              ELSE Pdf[reqs[c].file].matchReplies

\* _post: the model writes, or times out, refuses, or is out of reach.
Reply(c) ==
  /\ At(c, "ask")
  /\ \E d \in Replies(c) : Goto(c, [reqs[c] EXCEPT !.pc = "reply", !.doc = d])
  /\ UNCHANGED tables
ModelFails(c) == At(c, "ask") /\ Ends(c) /\ UNCHANGED tables

\* No matches is an error; a day plan without blocks is not, unless it is empty.
Unusable(key, d) == \/ d = Malformed
                    \/ key = "matches" /\ Items(d, key) = <<>>
                    \/ key = "blocks" /\ d = <<>>
ReadReply(c) ==
  /\ At(c, "reply")
  /\ \E o \in Outcomes : o.doc = reqs[c].doc /\ \E d \in o.reads :
       IF Unusable(reqs[c].key, d) THEN Ends(c)
       ELSE Goto(c, [reqs[c] EXCEPT !.pc = "store", !.doc = Absent,
                                    !.parsed = FromReply(reqs[c].key, d)])
  /\ UNCHANGED tables

\* INSERT; the unique hash refuses it when a row exists, and the rollback is
\* followed by an update of that row.
Store(c) ==
  /\ At(c, "store")
  /\ IF cache[reqs[c].file] = NoRow
     THEN cache' = [cache EXCEPT ![reqs[c].file] = reqs[c].parsed] /\ Answers(c, reqs[c].parsed)
     ELSE UNCHANGED cache /\ Goto(c, [reqs[c] EXCEPT !.pc = "overwrite"])
  /\ UNCHANGED roster
Overwrite(c) ==
  /\ At(c, "overwrite")
  /\ cache' = [cache EXCEPT ![reqs[c].file] = reqs[c].parsed]
  /\ Answers(c, reqs[c].parsed)
  /\ UNCHANGED roster

-----------------------------------------------------------------------------
Edit(c) ==
  /\ At(c, "preview") /\ reqs[c].parsed.kind = "matches" /\ ~reqs[c].edited
  /\ Goto(c, [reqs[c] EXCEPT !.parsed.matches = Corrected[reqs[c].file], !.edited = TRUE])
  /\ UNCHANGED tables

\* The body of a commit carries the lists of the preview, or leaves each out;
\* then the row counts as it is now.
Choice(c, matches, practice) ==
  LET p == reqs[c].parsed  row == cache[reqs[c].file] IN
  [matches  |-> IF matches THEN p.matches ELSE row.matches,
   practice |-> IF practice THEN p.practice ELSE PracticeOf(row),
   roster   |-> roster]
Refuses(read) == \/ ~Valid(read.matches, read.roster)
                 \/ \E i \in DOMAIN read.matches : ~EnoughFlags(read.matches[i])

CommitReads(c, matches, practice) ==
  /\ At(c, "preview") /\ cache[reqs[c].file] # NoRow
  /\ ~Refuses(Choice(c, matches, practice))
  /\ Goto(c, [reqs[c] EXCEPT !.pc = "commit", !.read = Choice(c, matches, practice)])
  /\ UNCHANGED tables
CommitStores(c) ==
  /\ At(c, "commit")
  /\ Goto(c, [Idle EXCEPT !.pc = "written", !.read = reqs[c].read, !.made = Built(reqs[c].read)])
  /\ UNCHANGED tables

EditRoster == \E r \in Rosters : r # roster /\ roster' = r /\ UNCHANGED <<cache, reqs>>

\* A process dies with the requests it serves; what the browsers show stays.
Restart ==
  /\ reqs' = [c \in Clients |-> IF Waits(c) THEN Idle ELSE reqs[c]]
  /\ reqs' # reqs
  /\ UNCHANGED tables

Serves(c) == \/ ReadSheet(c) \/ Extract(c) \/ Reply(c) \/ ModelFails(c) \/ ReadReply(c)
             \/ Store(c) \/ Overwrite(c) \/ CommitStores(c)
Asks(c) == \/ \E f \in Files, nocache \in BOOLEAN : Upload(c, f, nocache)
           \/ Edit(c)
           \/ \E matches, practice \in BOOLEAN : CommitReads(c, matches, practice)

Next == (\E c \in Clients : Serves(c) \/ Asks(c)) \/ EditRoster \/ Restart

Spec == Init /\ [][Next]_vars

-----------------------------------------------------------------------------
\* Types; one row per file, of the kind the file can have.
TypeOK ==
  /\ \A f \in Files : cache[f] # NoRow =>
       /\ cache[f].kind \in {"matches", "dayplan"}
       /\ cache[f].kind = "dayplan" => f \in Pdfs /\ Pdf[f].program
  /\ roster \in Rosters
  /\ \A c \in Clients :
       /\ reqs[c].pc \in {"idle", "extract", "ask", "reply", "store", "overwrite", "preview", "commit", "written"}
       /\ At(c, "preview") => cache[reqs[c].file] # NoRow /\ reqs[c].parsed.practice # Absent
       /\ At(c, "reply") => reqs[c].doc \in Docs

\* A model that stops in the middle of its reply costs the matches or blocks it
\* had not finished, never the finished ones and never a wrong one
\* (llm_client.py, the repairs of _parse_json_response).
SalvagedDocs ==
  {d \in Docs : \A key \in {"matches", "blocks"} :
     (\E i \in DOMAIN d : d[i].key = key) => \A n \in 0..Len(Spell(d)) : Salvaged(d, key, n)}
CutRepliesAreNotMisread == \A c \in Clients : At(c, "reply") => reqs[c].doc \in SalvagedDocs

\* A preview of a sheet shows its matches and its practice matches whoever
\* uploaded it before, also when the cache row dates from the time practice
\* matches were dropped (main.py, the "practice" test of a cached sheet).
SheetsComeBackWhole ==
  \A c \in Clients :
    At(c, "preview") /\ reqs[c].file \in Sheets =>
      /\ reqs[c].parsed.practice = ParseSheet(reqs[c].file).practice
      /\ ~reqs[c].edited => reqs[c].parsed.matches = ParseSheet(reqs[c].file).matches

\* The schedule written is the list that was confirmed: match i of the rows that
\* are stored has the teams and the surrogates of the i-th match by number, the
\* slots are 1 to the number of teams, one per team, and the surrogate counts
\* are those of the teams' flags.  And whatever the model misread, whoever
\* overwrote the cached parse and whatever the client sent, it has full alliances
\* of different teams of the roster the commit read (main.py, commit_pdf_import:
\* "bad parses can corrupt schedules").
SurrogateSeats(ms, t) ==
  {x \in ToSet(ms) \X (1..AllianceSize) :
     \/ x[1].red[x[2]] = t /\ FlagsOf(x[1].redSur)[x[2]]
     \/ x[1].blue[x[2]] = t /\ FlagsOf(x[1].blueSur)[x[2]]}
Reproduces(made, ms) ==
  LET Named(slots) == [j \in DOMAIN slots |-> made.map[slots[j]]] IN
  /\ DOMAIN made.map = 1..Cardinality(AllTeams(ms))
  /\ IsInjective(made.map)
  /\ Len(made.plan) = Len(ms)
  /\ \A m \in ToSet(ms) :
       LET row == made.plan[m.num - Least(Nums(ms)) + 1] IN
       Named(row.red) = m.red /\ Named(row.blue) = m.blue
  /\ \A s \in DOMAIN made.map :
       made.count[s] = Cardinality(SurrogateSeats(ms, made.map[s]))
SlotsReproduceTheMatches ==
  \A c \in Clients : At(c, "written") => Reproduces(reqs[c].made, reqs[c].read.matches)

Playing(made, i) ==
  [j \in 1..2 * AllianceSize |->
     made.map[(made.plan[i].red \o made.plan[i].blue)[j]]]
CommittedIsSound ==
  \A c \in Clients : At(c, "written") =>
    LET made == reqs[c].made IN
    /\ made.plan # <<>>
    /\ \A i \in DOMAIN made.plan :
         /\ Len(made.plan[i].red) = AllianceSize /\ Len(made.plan[i].blue) = AllianceSize
         /\ IsInjective(Playing(made, i))
         /\ reqs[c].read.roster # {} => Range(Playing(made, i)) \subseteq reqs[c].read.roster
CommitsTheConfirmedList == SlotsReproduceTheMatches /\ CommittedIsSound
=============================================================================
