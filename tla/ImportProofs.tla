---------------------------- MODULE ImportProofs ----------------------------
(***************************************************************************)
(* What Imports keeps for any files, clients and replies of the model: the *)
(* types, that a sheet comes back whole from the cache, and that a commit   *)
(* writes the list that was confirmed.                                      *)
(***************************************************************************)
EXTENDS Imports, FiniteSetTheorems, TLAPS

-----------------------------------------------------------------------------
\* What may be cached of a file, and what a request for it may hold.

IsParse(p) == /\ {"kind", "matches", "practice"} \subseteq DOMAIN p
              /\ p.kind \in {"matches", "dayplan"} /\ p.matches \in MatchLists
Fits(p, f) ==
  /\ f \in Files /\ IsParse(p)
  /\ p.kind = "dayplan" => f \in Pdfs /\ Pdf[f].program
\* A row of a sheet is whole, unless it dates from before practice matches.
Cachable(p, f) == Fits(p, f) /\ (f \in Sheets => p = ParseSheet(f) \/ p.practice = Absent)

Stops == {"idle", "extract", "ask", "reply", "store", "overwrite", "preview", "commit", "written"}

IsRequest(q) ==
  {"pc", "file", "key", "doc", "parsed", "edited", "read", "made"} \subseteq DOMAIN q

Asking(q) ==
  /\ q.file \in Pdfs /\ q.key \in {"matches", "blocks"}
  /\ q.key = "blocks" => Pdf[q.file].program

\* What a commit has read and found no errors in.
Confirmed(read) == read.matches \in MatchLists /\ ~Refuses(read)

\* What a request knows at each of its stops.
RequestOK(q) ==
  /\ IsRequest(q) /\ q.pc \in Stops
  /\ q.pc = "extract" => q.file \in Files
  /\ q.pc \in {"ask", "reply"} => Asking(q)
  /\ q.pc = "reply" => q.doc \in Docs
  /\ q.pc \in {"store", "overwrite"} =>
       /\ Fits(q.parsed, q.file) /\ q.parsed # NoRow
       /\ q.file \in Sheets => q.parsed = ParseSheet(q.file)
  /\ q.pc = "preview" =>
       /\ q.file \in Files /\ IsParse(q.parsed) /\ q.parsed.practice # Absent
       /\ q.file \in Sheets =>
            /\ q.parsed.practice = ParseSheet(q.file).practice
            /\ ~q.edited => q.parsed.matches = ParseSheet(q.file).matches
  /\ q.pc = "commit" => Confirmed(q.read)
  /\ q.pc = "written" => Confirmed(q.read) /\ q.made = Built(q.read)

\* Rows are overwritten, never removed.
Kept(q, rows) == q.pc \in {"overwrite", "preview"} => rows[q.file] # NoRow

Inv ==
  /\ cache = [f \in Files |-> cache[f]]
  /\ \A f \in Files : cache[f] = NoRow \/ Cachable(cache[f], f)
  /\ roster \in Rosters
  /\ reqs = [c \in Clients |-> reqs[c]]
  /\ \A c \in Clients : RequestOK(reqs[c]) /\ Kept(reqs[c], cache)

-----------------------------------------------------------------------------
\* A parsed sheet is a match list with its practice matches.
LEMMA SheetFits ==
  ASSUME NEW f \in Sheets
  PROVE  /\ Fits(ParseSheet(f), f) /\ ParseSheet(f) # NoRow
         /\ ParseSheet(f).practice # Absent
<1>1. ParseSheet(f) # NoRow /\ ParseSheet(f).practice # Absent
  BY NullsAssumption DEF Parses
<1>2. ParseSheet(f).kind = "matches" /\ IsParse(ParseSheet(f))
  <2>1. ParseSheet(f).matches \in MatchLists
    BY ListsAssumption DEF Parses
  <2> QED BY <2>1 DEF ParseSheet, Parsed, IsParse
<1> QED BY <1>1, <1>2 DEF Fits, Files

\* A preview is the row it shows, with a list of practice matches.
LEMMA ShownIsWhole ==
  ASSUME NEW p, NEW f, Fits(p, f), f \in Sheets => p = ParseSheet(f)
  PROVE  LET q == Shown(p) IN
         /\ IsParse(q) /\ q.practice # Absent
         /\ f \in Sheets => /\ q.practice = ParseSheet(f).practice
                            /\ q.matches = ParseSheet(f).matches
<1> DEFINE q == Shown(p)
<1>1. IsParse(p)
  BY DEF Fits
<1>2. /\ DOMAIN q = DOMAIN p /\ q.kind = p.kind /\ q.matches = p.matches
      /\ q.practice = PracticeOf(p)
  BY <1>1 DEF Shown, IsParse
<1>3. PracticeOf(p) # Absent
  BY NullsAssumption DEF PracticeOf
<1>4. f \in Sheets => PracticeOf(p) = ParseSheet(f).practice
  BY SheetFits DEF PracticeOf
<1>5. IsParse(q)
  BY <1>1, <1>2 DEF IsParse
<1> QED BY <1>2, <1>3, <1>4, <1>5

\* What is read of a reply is a parse of its file.
LEMMA ReplyFits ==
  ASSUME NEW q, Asking(q), NEW o \in Outcomes, NEW d \in o.reads, d # Malformed
  PROVE  Fits(FromReply(q.key, d), q.file) /\ FromReply(q.key, d) # NoRow
<1>1. FromReply(q.key, d) \in Parses
  <2>1. d \in (UNION {x.reads : x \in Outcomes}) \ {Malformed}
    <3>1. \E R \in {x.reads : x \in Outcomes} : d \in R
      OBVIOUS
    <3>2. d \in UNION {x.reads : x \in Outcomes}
      BY <3>1, Zenon
    <3> QED BY <3>2
  <2>2. q.key \in {"matches", "blocks"}
    BY DEF Asking
  <2> QED BY <2>1, <2>2 DEF Parses
<1>2. FromReply(q.key, d) # NoRow
  BY <1>1, NullsAssumption
<1>0. FromReply(q.key, d).matches \in MatchLists
  BY <1>1, ListsAssumption
<1>3. CASE q.key = "blocks"
  BY <1>0, <1>2, <1>3 DEF FromReply, Parsed, Fits, IsParse, Asking, Files
<1>4. CASE q.key = "matches"
  <2>1. FromReply(q.key, d).kind = "matches" /\ IsParse(FromReply(q.key, d))
    BY <1>0, <1>4 DEF FromReply, Parsed, IsParse
  <2> QED BY <1>2, <2>1 DEF Fits, Asking, Files
<1> QED BY <1>3, <1>4 DEF Asking

\* Every row stays, or is written as it may be.
RowsStand ==
  /\ cache' = [f \in Files |-> cache'[f]]
  /\ \A f \in Files : cache'[f] = cache[f] \/ (Cachable(cache'[f], f) /\ cache'[f] # NoRow)

\* A step of one client keeps what the others hold, as rows stay.
LEMMA OneMoves ==
  ASSUME Inv, NEW c \in Clients, NEW r, Goto(c, r), RequestOK(r), Kept(r, cache'),
         roster' = roster, RowsStand
  PROVE  Inv'
<1>1. reqs' = [d \in Clients |-> reqs'[d]] /\ reqs'[c] = r
  BY DEF Inv, Goto
<1>2. ASSUME NEW d \in Clients PROVE RequestOK(reqs'[d]) /\ Kept(reqs'[d], cache')
  <2>1. CASE d = c
    BY <2>1, <1>1 DEF Kept
  <2>2. CASE d # c
    <3>1. reqs'[d] = reqs[d]
      BY <2>2 DEF Inv, Goto
    <3>2. RequestOK(reqs[d]) /\ Kept(reqs[d], cache)
      BY DEF Inv
    <3>3. reqs[d].pc \in {"overwrite", "preview"} => reqs[d].file \in Files
      BY <3>2 DEF RequestOK, Fits
    <3> QED BY <3>1, <3>2, <3>3 DEF Kept, RowsStand
  <2> QED BY <2>1, <2>2
<1>3. \A f \in Files : cache'[f] = NoRow \/ Cachable(cache'[f], f)
  BY DEF Inv, RowsStand
<1> QED BY <1>1, <1>2, <1>3 DEF Inv, RowsStand

-----------------------------------------------------------------------------
LEMMA IdleOK == RequestOK(Idle) /\ Kept(Idle, cache')
BY DEF RequestOK, IsRequest, Idle, Stops, Kept

\* The cache as it stays when a step leaves the tables alone.
LEMMA TablesStay ==
  ASSUME Inv, UNCHANGED tables
  PROVE  /\ roster' = roster /\ cache' = [f \in Files |-> cache'[f]]
         /\ \A f \in Files : cache'[f] = cache[f]
BY DEF Inv, tables

LEMMA MovesAlone ==
  ASSUME Inv, NEW c \in Clients, NEW r, Goto(c, r), RequestOK(r), Kept(r, cache'),
         UNCHANGED tables
  PROVE  Inv'
<1>1. RowsStand /\ roster' = roster
  <2>1. cache' = cache /\ roster' = roster
    BY DEF tables
  <2>2. cache' = [f \in Files |-> cache'[f]]
    BY <2>1 DEF Inv
  <2> QED BY <2>1, <2>2 DEF RowsStand
<1> QED BY <1>1, OneMoves

LEMMA UploadKeeps ==
  ASSUME Inv, NEW c \in Clients, NEW f \in Files, NEW nocache, Upload(c, f, nocache)
  PROVE  Inv'
<1>1. UNCHANGED tables
  BY DEF Upload
<1>2. CASE Hit(f) /\ ~nocache
  <2> DEFINE r == [Idle EXCEPT !.pc = "preview", !.file = f, !.parsed = Shown(cache[f])]
  <2>1. cache[f] # NoRow /\ Cachable(cache[f], f)
    BY <1>2 DEF Hit, Inv
  <2>2. Fits(cache[f], f) /\ (f \in Sheets => cache[f] = ParseSheet(f))
    BY <1>2, <2>1 DEF Hit, Cachable
  <2>3. /\ IsParse(Shown(cache[f])) /\ Shown(cache[f]).practice # Absent
        /\ f \in Sheets => /\ Shown(cache[f]).practice = ParseSheet(f).practice
                           /\ Shown(cache[f]).matches = ParseSheet(f).matches
    BY <2>2, ShownIsWhole
  <2>4. /\ IsRequest(r) /\ r.pc = "preview" /\ r.file = f
        /\ r.parsed = Shown(cache[f])
    BY DEF IsRequest, Idle
  <2>5. RequestOK(r) /\ Kept(r, cache')
    <3> HIDE DEF r
    <3> QED BY <1>1, <2>1, <2>3, <2>4, TablesStay DEF RequestOK, Stops, Kept
  <2>6. Goto(c, r)
    BY <1>2 DEF Upload
  <2> HIDE DEF r
  <2> QED BY <1>1, <2>5, <2>6, MovesAlone
<1>3. CASE ~(Hit(f) /\ ~nocache)
  <2> DEFINE r == [Idle EXCEPT !.pc = "extract", !.file = f]
  <2>1. RequestOK(r) /\ Kept(r, cache')
    BY DEF RequestOK, IsRequest, Idle, Stops, Kept
  <2>2. Goto(c, r)
    BY <1>3 DEF Upload
  <2> HIDE DEF r
  <2> QED BY <1>1, <2>1, <2>2, MovesAlone
<1> QED BY <1>2, <1>3

LEMMA ReadSheetKeeps ==
  ASSUME Inv, NEW c \in Clients, ReadSheet(c)
  PROVE  Inv'
<1> DEFINE f == reqs[c].file
           r == [reqs[c] EXCEPT !.pc = "store", !.parsed = ParseSheet(f)]
<1>1. UNCHANGED tables /\ f \in Sheets
  BY DEF ReadSheet
<1>2. IsRequest(reqs[c])
  BY DEF Inv, RequestOK
<1>3. IsRequest(r) /\ r.pc = "store" /\ r.file = f /\ r.parsed = ParseSheet(f)
  BY <1>2 DEF IsRequest
<1>4. RequestOK(r) /\ Kept(r, cache')
  <2> HIDE DEF r
  <2> QED BY <1>1, <1>3, SheetFits DEF RequestOK, Stops, Kept
<1>5. Goto(c, Idle) \/ Goto(c, r)
  BY DEF ReadSheet, Ends
<1> HIDE DEF r
<1> QED BY <1>1, <1>4, <1>5, IdleOK, MovesAlone

LEMMA ExtractKeeps ==
  ASSUME Inv, NEW c \in Clients, Extract(c)
  PROVE  Inv'
<1> DEFINE f == reqs[c].file
           r(key) == [reqs[c] EXCEPT !.pc = "ask", !.key = key]
<1>1. UNCHANGED tables /\ f \in Pdfs
  BY DEF Extract
<1>2. IsRequest(reqs[c])
  BY DEF Inv, RequestOK
<1>3. \/ Goto(c, Idle) \/ Goto(c, r("matches"))
      \/ Pdf[f].program /\ Goto(c, r("blocks"))
  BY DEF Extract, ReadText, ReadImages, NothingExtracted, Ends
<1>4. ASSUME NEW key \in {"matches", "blocks"}, key = "blocks" => Pdf[f].program
      PROVE  RequestOK(r(key)) /\ Kept(r(key), cache')
  <2>1. IsRequest(r(key)) /\ r(key).pc = "ask" /\ r(key).file = f /\ r(key).key = key
    BY <1>2 DEF IsRequest
  <2> HIDE DEF r
  <2> QED BY <1>1, <1>4, <2>1 DEF RequestOK, Stops, Kept, Asking
<1>5. RequestOK(r("matches")) /\ Kept(r("matches"), cache')
  BY <1>4
<1>6. Pdf[f].program => RequestOK(r("blocks")) /\ Kept(r("blocks"), cache')
  BY <1>4
<1> HIDE DEF r
<1> QED BY <1>1, <1>3, <1>5, <1>6, IdleOK, MovesAlone

LEMMA ModelKeeps ==
  ASSUME Inv, NEW c \in Clients, Reply(c) \/ ModelFails(c)
  PROVE  Inv'
<1> DEFINE r(d) == [reqs[c] EXCEPT !.pc = "reply", !.doc = d]
<1>1. UNCHANGED tables /\ At(c, "ask")
  BY DEF Reply, ModelFails
<1>2. IsRequest(reqs[c]) /\ Asking(reqs[c])
  BY <1>1 DEF Inv, RequestOK, At
<1>3. Replies(c) \subseteq Docs
  BY <1>2 DEF Replies, Docs, Asking
<1>4. ASSUME NEW d \in Docs, Goto(c, r(d))
      PROVE  Inv'
  <2>1. /\ IsRequest(r(d)) /\ r(d).pc = "reply" /\ r(d).file = reqs[c].file
        /\ r(d).key = reqs[c].key /\ r(d).doc = d
    BY <1>2 DEF IsRequest
  <2>2. RequestOK(r(d)) /\ Kept(r(d), cache')
    <3> HIDE DEF r
    <3> QED BY <1>2, <2>1 DEF RequestOK, Stops, Kept, Asking
  <2> HIDE DEF r
  <2> QED BY <1>1, <1>4, <2>2, MovesAlone
<1>5. CASE ModelFails(c)
  BY <1>1, <1>5, IdleOK, MovesAlone DEF ModelFails, Ends
<1>6. CASE Reply(c)
  BY <1>3, <1>4, <1>6 DEF Reply
<1> QED BY <1>5, <1>6

LEMMA ReadReplyKeeps ==
  ASSUME Inv, NEW c \in Clients, ReadReply(c)
  PROVE  Inv'
<1> DEFINE q == reqs[c]
           r(d) == [q EXCEPT !.pc = "store", !.doc = Absent, !.parsed = FromReply(q.key, d)]
<1>1. UNCHANGED tables /\ At(c, "reply")
  BY DEF ReadReply
<1>2. IsRequest(q) /\ Asking(q)
  BY <1>1 DEF Inv, RequestOK, At
<1>3. ASSUME NEW o \in Outcomes, NEW d \in o.reads, d # Malformed, Goto(c, r(d))
      PROVE  Inv'
  <2>1. IsRequest(r(d)) /\ r(d).pc = "store" /\ r(d).file = q.file
        /\ r(d).parsed = FromReply(q.key, d)
    BY <1>2 DEF IsRequest
  <2>2. Fits(FromReply(q.key, d), q.file) /\ FromReply(q.key, d) # NoRow
    BY <1>2, <1>3, ReplyFits
  <2>3. q.file \notin Sheets
    BY <1>2, ImportsAssumption DEF Asking
  <2>4. RequestOK(r(d)) /\ Kept(r(d), cache')
    <3> HIDE DEF r
    <3> QED BY <2>1, <2>2, <2>3 DEF RequestOK, Stops, Kept
  <2> HIDE DEF r
  <2> QED BY <1>1, <1>3, <2>4, MovesAlone
<1>4. ASSUME Goto(c, Idle)
      PROVE  Inv'
  BY <1>1, <1>4, IdleOK, MovesAlone
<1> QED BY <1>3, <1>4 DEF ReadReply, Unusable, Ends

\* A preview answers with what has just been stored.
LEMMA StoreKeeps ==
  ASSUME Inv, NEW c \in Clients, Store(c) \/ Overwrite(c)
  PROVE  Inv'
<1> DEFINE q == reqs[c]
           r == [Idle EXCEPT !.pc = "preview", !.file = q.file, !.parsed = Shown(q.parsed)]
<1>1. q.pc \in {"store", "overwrite"} /\ RequestOK(q)
  BY DEF Inv, Store, Overwrite, At
<1>2. /\ IsRequest(q) /\ Fits(q.parsed, q.file) /\ q.parsed # NoRow
      /\ q.file \in Sheets => q.parsed = ParseSheet(q.file)
  BY <1>1 DEF RequestOK
<1>3. CASE cache' = [cache EXCEPT ![q.file] = q.parsed] /\ Answers(c, q.parsed) /\ UNCHANGED roster
  <2>1. RowsStand /\ cache'[q.file] # NoRow
    <3>1. q.file \in Files /\ Cachable(q.parsed, q.file)
      BY <1>2 DEF Cachable, Fits
    <3>2. \A f \in Files : cache'[f] = IF f = q.file THEN q.parsed ELSE cache[f]
      BY <1>3 DEF Inv
    <3>3. cache' = [f \in Files |-> cache'[f]]
      BY <1>3 DEF Inv
    <3>4. \A f \in Files : cache'[f] = cache[f] \/ (Cachable(cache'[f], f) /\ cache'[f] # NoRow)
      BY <1>2, <3>1, <3>2 DEF Cachable
    <3> QED BY <1>2, <3>1, <3>2, <3>3, <3>4 DEF RowsStand
  <2>2. /\ IsParse(Shown(q.parsed)) /\ Shown(q.parsed).practice # Absent
        /\ q.file \in Sheets => /\ Shown(q.parsed).practice = ParseSheet(q.file).practice
                                /\ Shown(q.parsed).matches = ParseSheet(q.file).matches
    BY <1>2, ShownIsWhole
  <2>3. IsRequest(r) /\ r.pc = "preview" /\ r.file = q.file /\ r.parsed = Shown(q.parsed)
    BY DEF IsRequest, Idle
  <2>4. RequestOK(r) /\ Kept(r, cache')
    <3> HIDE DEF r
    <3> QED BY <1>2, <2>1, <2>2, <2>3 DEF RequestOK, Stops, Kept, Fits
  <2>5. Goto(c, r)
    BY <1>3 DEF Answers
  <2> HIDE DEF r
  <2> QED BY <1>3, <2>1, <2>4, <2>5, OneMoves
<1>4. CASE Store(c) /\ cache[q.file] # NoRow
  <2> DEFINE n == [q EXCEPT !.pc = "overwrite"]
  <2>1. UNCHANGED tables /\ Goto(c, n)
    BY <1>4 DEF Store, tables
  <2>2. IsRequest(n) /\ n.pc = "overwrite" /\ n.file = q.file /\ n.parsed = q.parsed
    BY <1>2 DEF IsRequest
  <2>3. q.file \in Files
    BY <1>2 DEF Fits
  <2>4. RequestOK(n) /\ Kept(n, cache')
    <3> HIDE DEF n
    <3> QED BY <1>2, <1>4, <2>1, <2>2, <2>3, TablesStay DEF RequestOK, Stops, Kept
  <2> HIDE DEF n
  <2> QED BY <2>1, <2>4, MovesAlone
<1> QED BY <1>3, <1>4 DEF Store, Overwrite

\* The user corrects the match list, and the practice matches stay.
LEMMA EditKeeps ==
  ASSUME Inv, NEW c \in Clients, Edit(c)
  PROVE  Inv'
<1> DEFINE q == reqs[c]
           r == [q EXCEPT !.parsed.matches = Corrected[q.file], !.edited = TRUE]
<1>1. UNCHANGED tables /\ Goto(c, r) /\ q.pc = "preview"
  BY DEF Edit, At
<1>2. RequestOK(q) /\ Kept(q, cache)
  BY DEF Inv
<1>3. IsRequest(q) /\ IsParse(q.parsed)
  BY <1>1, <1>2 DEF RequestOK
<1>4. /\ IsRequest(r) /\ r.pc = "preview" /\ r.file = q.file /\ r.edited
      /\ r.parsed = [q.parsed EXCEPT !.matches = Corrected[q.file]]
  BY <1>1, <1>3 DEF IsRequest
<1>5. IsParse(r.parsed) /\ r.parsed.practice = q.parsed.practice
  <2>1. Corrected[q.file] \in MatchLists
    BY <1>1, <1>2, ListsAssumption DEF RequestOK
  <2> HIDE DEF r
  <2> QED BY <1>3, <1>4, <2>1 DEF IsParse
<1>6. RequestOK(r) /\ Kept(r, cache')
  <2>1. cache'[q.file] # NoRow
    BY <1>1, <1>2 DEF tables, Kept
  <2> HIDE DEF r
  <2> QED BY <1>1, <1>2, <1>4, <1>5, <2>1 DEF RequestOK, Stops, Kept
<1> HIDE DEF r
<1> QED BY <1>1, <1>6, MovesAlone

LEMMA CommitKeeps ==
  ASSUME Inv, NEW c \in Clients,
         \/ \E matches, practice \in BOOLEAN : CommitReads(c, matches, practice)
         \/ CommitStores(c)
  PROVE  Inv'
<1> DEFINE q == reqs[c]
           r(read) == [q EXCEPT !.pc = "commit", !.read = read]
           w == [Idle EXCEPT !.pc = "written", !.read = q.read, !.made = Built(q.read)]
<1>1. UNCHANGED tables /\ IsRequest(q)
  BY DEF CommitReads, CommitStores, Inv, RequestOK
<1>2. ASSUME NEW read, Confirmed(read)
      PROVE  RequestOK(r(read)) /\ Kept(r(read), cache')
  <2>1. IsRequest(r(read)) /\ r(read).pc = "commit" /\ r(read).read = read
    BY <1>1 DEF IsRequest
  <2> HIDE DEF r
  <2> QED BY <1>2, <2>1 DEF RequestOK, Stops, Kept
<1>3. ASSUME q.pc = "commit"
      PROVE  RequestOK(w) /\ Kept(w, cache')
  <2>1. IsRequest(w) /\ w.pc = "written" /\ w.read = q.read /\ w.made = Built(q.read)
    BY DEF IsRequest, Idle
  <2>2. Confirmed(q.read)
    BY <1>3 DEF Inv, RequestOK
  <2> HIDE DEF w
  <2> QED BY <2>1, <2>2 DEF RequestOK, Stops, Kept
<1>4. ASSUME NEW read, Confirmed(read), Goto(c, r(read))
      PROVE  Inv'
  <2> HIDE DEF r
  <2> QED BY <1>1, <1>2, <1>4, MovesAlone
<1>5. CASE CommitStores(c)
  <2>1. Goto(c, w) /\ q.pc = "commit"
    BY <1>5 DEF CommitStores, At
  <2> HIDE DEF w
  <2> QED BY <1>1, <1>3, <2>1, MovesAlone
<1>6. ASSUME NEW matches \in BOOLEAN, NEW practice \in BOOLEAN,
             CommitReads(c, matches, practice)
      PROVE  Inv'
  <2> DEFINE read == Choice(c, matches, practice)
  <2>1. Goto(c, r(read)) /\ ~Refuses(read)
    BY <1>6 DEF CommitReads
  <2>2. q.pc = "preview" /\ q.file \in Files /\ IsParse(q.parsed) /\ cache[q.file] # NoRow
    BY <1>6 DEF CommitReads, At, Inv, RequestOK
  <2>3. q.parsed.matches \in MatchLists /\ cache[q.file].matches \in MatchLists
    BY <2>2 DEF Inv, Cachable, Fits, IsParse
  <2>4. read.matches \in MatchLists
    BY <2>3 DEF Choice
  <2>5. Confirmed(read)
    BY <2>1, <2>4 DEF Confirmed
  <2> HIDE DEF r, read
  <2> QED BY <1>4, <2>1, <2>5
<1> QED BY <1>5, <1>6

LEMMA RestartKeeps == ASSUME Inv, Restart PROVE Inv'
<1>1. UNCHANGED tables /\ reqs' = [c \in Clients |-> IF Waits(c) THEN Idle ELSE reqs[c]]
  BY DEF Restart
<1>2. ASSUME NEW c \in Clients PROVE RequestOK(reqs'[c]) /\ Kept(reqs'[c], cache')
  <2>1. CASE reqs'[c] = Idle
    BY <2>1, IdleOK DEF Kept
  <2>2. CASE reqs'[c] = reqs[c]
    BY <1>1, <2>2 DEF Kept, Inv, tables
  <2> QED BY <1>1, <2>1, <2>2
<1>3. reqs' = [c \in Clients |-> reqs'[c]]
  BY <1>1
<1> QED BY <1>1, <1>2, <1>3 DEF Inv, tables

LEMMA InvStep == Inv /\ [Next]_vars => Inv'
<1> SUFFICES ASSUME Inv, [Next]_vars PROVE Inv'
  OBVIOUS
<1>1. ASSUME NEW c \in Clients, Serves(c) PROVE Inv'
  BY <1>1, ReadSheetKeeps, ExtractKeeps, ModelKeeps, ReadReplyKeeps, StoreKeeps, CommitKeeps
  DEF Serves
<1>2. ASSUME NEW c \in Clients, Asks(c) PROVE Inv'
  BY <1>2, UploadKeeps, EditKeeps, CommitKeeps DEF Asks
<1>3. CASE EditRoster
  BY <1>3 DEF EditRoster, Inv, Kept
<1>4. CASE UNCHANGED vars
  BY <1>4 DEF vars, Inv, Kept
<1> QED BY <1>1, <1>2, <1>3, <1>4, RestartKeeps DEF Next

LEMMA InvInit == Init => Inv
<1> SUFFICES ASSUME Init PROVE Inv
  OBVIOUS
<1>1. ASSUME NEW f \in DOMAIN LegacyRows PROVE Cachable(LegacyRows[f], f)
  <2>1. LegacyRows[f] \in Range(LegacyRows)
    BY DEF Range
  <2>2. LegacyRows[f].matches \in MatchLists
    BY <2>1, ListsAssumption
  <2> QED BY <1>1, <2>2, ImportsAssumption DEF Cachable, Fits, IsParse, Parsed
<1>2. \A c \in Clients : RequestOK(reqs[c]) /\ Kept(reqs[c], cache)
  BY DEF Init, RequestOK, IsRequest, Idle, Stops, Kept
<1> QED BY <1>1, <1>2 DEF Init, Inv

LEMMA InvAlways == Spec => []Inv
BY InvInit, InvStep, PTL DEF Spec

-----------------------------------------------------------------------------
\* Every request, row and preview has its type: the row of a file is there while
\* its preview is, and only a file that may hold a day plan is read as one.
THEOREM ImportTypes == Spec => []TypeOK
<1>1. Inv => TypeOK
  BY DEF Inv, TypeOK, At, RequestOK, Kept, Cachable, Fits, IsParse, Stops
<1> QED BY <1>1, InvAlways, PTL

\* Whoever uploaded the sheet before and whatever an older version cached of it,
\* a preview shows its practice matches, and its matches until they are edited.
THEOREM SheetsAreWhole == Spec => []SheetsComeBackWhole
<1>1. Inv => SheetsComeBackWhole
  BY DEF Inv, SheetsComeBackWhole, At, RequestOK
<1> QED BY <1>1, InvAlways, PTL
-----------------------------------------------------------------------------
\* Numbers: every set of natural numbers has a least one, every finite set of
\* integers a least and a greatest.

LEMMA LeastNumber ==
  ASSUME NEW T \in SUBSET Nat, T # {}
  PROVE  \E n \in T : \A m \in T : ~(m < n)
<1>1. \E n \in T : \A m \in T : ~(<<m, n>> \in OpToRel(<, Nat))
  BY NatLessThanWellFounded, WFMin
<1> QED BY <1>1 DEF OpToRel

\* A finite set is the image of 1 .. n, and a place where the image has its
\* least value exists, as those values are a set of naturals after a shift.
LEMMA FiniteHasBounds ==
  ASSUME NEW S, IsFiniteSet(S), S # {}, S \subseteq Int
  PROVE  /\ Least(S) \in S /\ \A y \in S : Least(S) <= y
         /\ Greatest(S) \in S /\ \A y \in S : Greatest(S) >= y
<1> DEFINE BadL == {s \in SUBSET S : s # {} /\ ~\E x \in s : \A y \in s : x <= y}
           BadG == {s \in SUBSET S : s # {} /\ ~\E x \in s : \A y \in s : x >= y}
<1>1. IsWellFoundedOn(StrictSubsetOrdering(S), SUBSET S)
  BY FS_StrictSubsetOrderingWellFounded, FS_FiniteSubsetsOfFinite
<1>2. BadL \subseteq SUBSET S /\ BadG \subseteq SUBSET S
  OBVIOUS
<1>3. BadL = {}
  <2> SUFFICES ASSUME BadL # {} PROVE FALSE
    OBVIOUS
  <2>1. PICK s \in BadL : \A r \in BadL : ~(<<r, s>> \in StrictSubsetOrdering(S))
    <3> HIDE DEF BadL, BadG
    <3> QED BY <1>1, <1>2, WFMin
  <2>2. PICK x \in s : TRUE
    OBVIOUS
  <2>3. s \ {x} \notin BadL
    BY <2>1, <2>2 DEF StrictSubsetOrdering
  <2>4. x \in Int /\ s \subseteq Int
    OBVIOUS
  <2>5. CASE s \ {x} = {}
    <3>1. \A y \in s : x <= y
      BY <2>4, <2>5
    <3> QED BY <2>2, <3>1
  <2>6. CASE s \ {x} # {}
    <3>1. PICK z \in s \ {x} : \A y \in s \ {x} : z <= y
      BY <2>3, <2>6
    <3>2. (\A y \in s : z <= y) \/ (\A y \in s : x <= y)
      BY <2>4, <3>1
    <3> QED BY <2>2, <3>1, <3>2
  <2> QED BY <2>5, <2>6
<1>4. BadG = {}
  <2> SUFFICES ASSUME BadG # {} PROVE FALSE
    OBVIOUS
  <2>1. PICK s \in BadG : \A r \in BadG : ~(<<r, s>> \in StrictSubsetOrdering(S))
    <3> HIDE DEF BadL, BadG
    <3> QED BY <1>1, <1>2, WFMin
  <2>2. PICK x \in s : TRUE
    OBVIOUS
  <2>3. s \ {x} \notin BadG
    BY <2>1, <2>2 DEF StrictSubsetOrdering
  <2>4. x \in Int /\ s \subseteq Int
    OBVIOUS
  <2>5. CASE s \ {x} = {}
    <3>1. \A y \in s : x >= y
      BY <2>4, <2>5
    <3> QED BY <2>2, <3>1
  <2>6. CASE s \ {x} # {}
    <3>1. PICK z \in s \ {x} : \A y \in s \ {x} : z >= y
      BY <2>3, <2>6
    <3>2. (\A y \in s : z >= y) \/ (\A y \in s : x >= y)
      BY <2>4, <3>1
    <3> QED BY <2>2, <3>1, <3>2
  <2> QED BY <2>5, <2>6
<1>5. (\E x \in S : \A y \in S : x <= y) /\ (\E x \in S : \A y \in S : x >= y)
  BY <1>3, <1>4
<1> QED BY <1>5 DEF Least, Greatest

\* A set in which every number but the greatest has a successor is an interval.
LEMMA RunIsInterval ==
  ASSUME NEW S, IsFiniteSet(S), S # {}, S \subseteq Int,
         \A n \in S : n = Greatest(S) \/ n + 1 \in S
  PROVE  /\ S = Least(S) .. Greatest(S)
         /\ Cardinality(S) = Greatest(S) - Least(S) + 1
<1> DEFINE l == Least(S)
           g == Greatest(S)
           Gaps == {k \in Nat : l + k <= g /\ l + k \notin S}
<1>1. /\ l \in S /\ g \in S /\ l \in Int /\ g \in Int /\ l <= g
      /\ \A y \in S : l <= y /\ y <= g
  BY FiniteHasBounds
<1> HIDE DEF l, g
<1>2. Gaps = {}
  <2> SUFFICES ASSUME Gaps # {} PROVE FALSE
    OBVIOUS
  <2>1. PICK k \in Gaps : \A m \in Gaps : ~(m < k)
    <3>1. Gaps \in SUBSET Nat
      OBVIOUS
    <3> HIDE DEF Gaps
    <3> QED BY <3>1, LeastNumber
  <2>2. k # 0 /\ k - 1 \in Nat /\ k - 1 \notin Gaps
    BY <1>1, <2>1
  <2>3. l + (k - 1) \in S
    BY <1>1, <2>2
  <2>4. l + (k - 1) # g /\ (l + (k - 1)) + 1 = l + k
    BY <1>1, <2>1
  <2>5. l + k \in S
    BY <2>3, <2>4 DEF g
  <2> QED BY <2>5
<1>3. S = l .. g
  <2>1. ASSUME NEW y \in l .. g PROVE y \in S
    <3>1. y - l \in Nat /\ l + (y - l) = y /\ y <= g
      BY <1>1
    <3>2. y - l \notin Gaps
      BY <1>2
    <3> QED BY <3>1, <3>2
  <2>2. \A y \in S : y \in l .. g
    <3>1. S \subseteq Int
      OBVIOUS
    <3> QED BY <1>1, <3>1
  <2> QED BY <2>1, <2>2
<1>4. Cardinality(l .. g) = g - l + 1
  BY <1>1, FS_Interval
<1> QED BY <1>3, <1>4 DEF l, g

\* Distinct values: as many as there are places.
LEMMA DistinctValues ==
  ASSUME NEW n \in Nat, NEW f, DOMAIN f = 1 .. n,
         Cardinality({f[i] : i \in 1 .. n}) = n
  PROVE  \A i, j \in 1 .. n : f[i] = f[j] => i = j
<1> DEFINE T == {f[i] : i \in 1 .. n}
           h == [i \in 1 .. n |-> f[i]]
<1>1. h \in Surjection(1 .. n, T)
  BY DEF Surjection
<1>2. IsFiniteSet(1 .. n) /\ Cardinality(1 .. n) = n
  BY FS_Interval
<1>3. h \in Injection(1 .. n, T)
  <2> HIDE DEF h, T
  <2>1. Cardinality(T) = n
    BY DEF T
  <2> QED BY <1>1, <1>2, <2>1, FS_SurjSameCardinalityImpliesInj
<1> QED BY <1>3 DEF Injection, IsInjective

\* Among finitely many places, any rank is taken, by one place.
Rank(F, i) == Cardinality({j \in F : j <= i})

LEMMA RanksAreTaken ==
  ASSUME NEW n \in Nat, NEW F \in SUBSET (1 .. n)
  PROVE  /\ Cardinality(F) \in Nat
         /\ \A i \in F : Rank(F, i) \in 1 .. Cardinality(F)
         /\ \A i, k \in F : Rank(F, i) = Rank(F, k) => i = k
         /\ \A s \in 1 .. Cardinality(F) : \E i \in F : Rank(F, i) = s
<1> DEFINE c == Cardinality(F)
           Low(i) == {j \in F : j <= i}
           r == [i \in F |-> Rank(F, i)]
<1>0. IsFiniteSet(1 .. n)
  BY FS_Interval
<1>1. IsFiniteSet(F) /\ c \in Nat
  BY <1>0, FS_Subset, FS_CardinalityType
<1>2. \A i \in F : IsFiniteSet(Low(i)) /\ Cardinality(Low(i)) \in Nat /\ Cardinality(Low(i)) <= c
  <2>1. \A i \in F : Low(i) \in SUBSET F
    OBVIOUS
  <2> HIDE DEF Low
  <2> QED BY <1>1, <2>1, FS_Subset, FS_CardinalityType
<1>3. ASSUME NEW i \in F PROVE Rank(F, i) \in 1 .. c
  <2>1. i \in Low(i)
    OBVIOUS
  <2>2. Cardinality(Low(i)) # 0
    <3> HIDE DEF Low
    <3> QED BY <1>2, <2>1, FS_EmptySet
  <2> QED BY <1>1, <1>2, <2>2 DEF Rank
<1>4. ASSUME NEW i \in F, NEW k \in F, i < k PROVE Rank(F, i) # Rank(F, k)
  <2>0. \A x \in F : x \in Int
    OBVIOUS
  <2>a. \A j \in F : j <= i => j <= k
    BY <1>4, <2>0
  <2>b. k \in Low(k) /\ k \notin Low(i)
    BY <1>4, <2>0
  <2>1. Low(i) \in SUBSET Low(k) /\ k \in Low(k) /\ k \notin Low(i)
    BY <2>a, <2>b
  <2>2. Low(i) # Low(k)
    BY <2>1
  <2>3. Cardinality(Low(i)) # Cardinality(Low(k))
    <3> HIDE DEF Low
    <3> QED BY <1>2, <2>1, <2>2, FS_Subset
  <2> QED BY <2>3 DEF Rank
<1>5. \A i, k \in F : Rank(F, i) = Rank(F, k) => i = k
  <2>1. \A i, k \in F : i < k \/ i = k \/ k < i
    OBVIOUS
  <2> QED BY <1>4, <2>1
<1>6. r \in Injection(F, 1 .. c)
  BY <1>3, <1>5 DEF Injection, IsInjective
<1>7. IsFiniteSet(1 .. c) /\ Cardinality(1 .. c) = c
  BY <1>1, FS_Interval
<1>8. r \in Surjection(F, 1 .. c)
  <2> HIDE DEF r
  <2> QED BY <1>6, <1>7, FS_Injection
<1>9. \A s \in 1 .. c : \E i \in F : Rank(F, i) = s
  BY <1>8 DEF Surjection
<1> QED BY <1>1, <1>3, <1>5, <1>9
-----------------------------------------------------------------------------
\* FlattenSeq of nonempty lists of integers.

Joins(h, seqs, n) ==
  h = [i \in 1 .. n |-> IF i = 1 THEN seqs[i] ELSE h[i - 1] \o seqs[i]]

LEMMA FlattenIs ==
  ASSUME NEW seqs, Len(seqs) # 0
  PROVE  FlattenSeq(seqs) = (CHOOSE h : Joins(h, seqs, Len(seqs)))[Len(seqs)]
BY DEF FlattenSeq, Joins

LEMMA JoinsExist ==
  ASSUME NEW n \in Nat, NEW seqs
  PROVE  \E h : Joins(h, seqs, n)
<1> DEFINE Bad == {k \in Nat : ~\E h : Joins(h, seqs, k)}
<1>1. \E h : Joins(h, seqs, 0)
  <2>1. Joins([i \in 1 .. 0 |-> 0], seqs, 0)
    BY DEF Joins
  <2> QED BY <2>1
<1>2. ASSUME NEW k \in Nat, NEW h, Joins(h, seqs, k)
      PROVE  \E g : Joins(g, seqs, k + 1)
  <2> DEFINE g == [i \in 1 .. k + 1 |-> IF i = 1 THEN seqs[i] ELSE h[i - 1] \o seqs[i]]
  <2>1. ASSUME NEW i \in 1 .. k + 1, i # 1 PROVE g[i - 1] = h[i - 1]
    <3>1. i - 1 \in 1 .. k /\ i - 1 \in 1 .. k + 1
      BY <2>1
    <3>2. h[i - 1] = IF i - 1 = 1 THEN seqs[i - 1] ELSE h[(i - 1) - 1] \o seqs[i - 1]
      BY <1>2, <3>1 DEF Joins
    <3> QED BY <3>1, <3>2
  <2>2. g = [i \in 1 .. k + 1 |-> IF i = 1 THEN seqs[i] ELSE g[i - 1] \o seqs[i]]
    BY <2>1
  <2> HIDE DEF g
  <2>3. Joins(g, seqs, k + 1)
    BY <2>2 DEF Joins
  <2> QED BY <2>3
<1>3. Bad = {}
  <2> SUFFICES ASSUME Bad # {} PROVE FALSE
    OBVIOUS
  <2>1. PICK k \in Bad : \A m \in Bad : ~(m < k)
    <3>1. Bad \in SUBSET Nat
      OBVIOUS
    <3> HIDE DEF Bad
    <3> QED BY <3>1, LeastNumber
  <2>2. k \in Nat /\ k # 0
    BY <1>1
  <2>3. k - 1 \in Nat /\ k - 1 < k /\ (k - 1) + 1 = k
    BY <2>2
  <2>4. \E h : Joins(h, seqs, k - 1)
    BY <2>1, <2>3
  <2>5. \E h : Joins(h, seqs, (k - 1) + 1)
    BY <1>2, <2>3, <2>4
  <2> QED BY <2>3, <2>5
<1> QED BY <1>3

Entries(s) == {s[i] : i \in 1 .. Len(s)}

LEMMA EntriesAreToSet ==
  ASSUME NEW s \in Seq(Int)
  PROVE  Entries(s) = ToSet(s)
BY DEF Entries, ToSet

LEMMA JoinedEntries ==
  ASSUME NEW a \in Seq(Int), NEW b \in Seq(Int)
  PROVE  /\ a \o b \in Seq(Int) /\ Entries(a \o b) = Entries(a) \cup Entries(b)
         /\ Len(a) \in Nat /\ Len(b) \in Nat /\ Len(a \o b) = Len(a) + Len(b)
         /\ \A i \in 1 .. Len(a) + Len(b) :
              (a \o b)[i] = IF i <= Len(a) THEN a[i] ELSE b[i - Len(a)]
<1> DEFINE c == a \o b
<1>1. /\ Len(a) \in Nat /\ Len(b) \in Nat
      /\ c \in Seq(Int) /\ Len(c) = Len(a) + Len(b)
      /\ \A i \in 1 .. Len(c) : c[i] = IF i <= Len(a) THEN a[i] ELSE b[i - Len(a)]
  OBVIOUS
<1> HIDE DEF c
<1>2. ASSUME NEW i \in 1 .. Len(c) PROVE c[i] \in Entries(a) \cup Entries(b)
  <2>1. CASE i <= Len(a)
    <3>1. i \in 1 .. Len(a) /\ c[i] = a[i]
      BY <1>1, <2>1
    <3> QED BY <3>1 DEF Entries
  <2>2. CASE ~(i <= Len(a))
    <3>1. i - Len(a) \in 1 .. Len(b) /\ c[i] = b[i - Len(a)]
      BY <1>1, <2>2
    <3> QED BY <3>1 DEF Entries
  <2> QED BY <2>1, <2>2
<1>3. ASSUME NEW i \in 1 .. Len(a) PROVE a[i] \in Entries(c)
  <2>1. i \in 1 .. Len(c) /\ c[i] = a[i]
    BY <1>1
  <2> QED BY <2>1 DEF Entries
<1>4. ASSUME NEW i \in 1 .. Len(b) PROVE b[i] \in Entries(c)
  <2>1. /\ i + Len(a) \in 1 .. Len(c) /\ ~(i + Len(a) <= Len(a))
        /\ (i + Len(a)) - Len(a) = i
    BY <1>1
  <2>2. c[i + Len(a)] = b[i]
    BY <1>1, <2>1
  <2> QED BY <2>1, <2>2 DEF Entries
<1>6. Entries(c) = Entries(a) \cup Entries(b)
  BY <1>2, <1>3, <1>4 DEF Entries
<1> QED BY <1>1, <1>6 DEF c

LEMMA FlattenEntries ==
  ASSUME NEW seqs \in Seq(Seq(Int)), Len(seqs) # 0
  PROVE  /\ FlattenSeq(seqs) \in Seq(Int)
         /\ Entries(FlattenSeq(seqs)) = UNION {Entries(seqs[i]) : i \in 1 .. Len(seqs)}
<1> DEFINE n == Len(seqs)
           h == CHOOSE h : Joins(h, seqs, n)
           Upto(k) == UNION {Entries(seqs[i]) : i \in 1 .. k}
           Bad == {k \in Nat : k \in 1 .. n /\ ~(h[k] \in Seq(Int) /\ Entries(h[k]) = Upto(k))}
<1>1. n \in Nat /\ n # 0 /\ \A k \in 1 .. n : seqs[k] \in Seq(Int)
  OBVIOUS
<1>2. Joins(h, seqs, n)
  BY <1>1, JoinsExist
<1>3. FlattenSeq(seqs) = h[n]
  BY <1>1, FlattenIs
<1> HIDE DEF h, n
<1>4. \A k \in 1 .. n : h[k] = IF k = 1 THEN seqs[k] ELSE h[k - 1] \o seqs[k]
  BY <1>2 DEF Joins
<1>5. Bad = {}
  <2> SUFFICES ASSUME Bad # {} PROVE FALSE
    OBVIOUS
  <2>1. PICK k \in Bad : \A m \in Bad : ~(m < k)
    <3>1. Bad \in SUBSET Nat
      OBVIOUS
    <3> HIDE DEF Bad
    <3> QED BY <3>1, LeastNumber
  <2>2. k \in Nat /\ k \in 1 .. n
    OBVIOUS
  <2>3. CASE k = 1
    <3>1. h[k] = seqs[1] /\ Upto(k) = Entries(seqs[1])
      <4>1. 1 .. 1 = {1}
        OBVIOUS
      <4>2. {Entries(seqs[i]) : i \in {1}} = {Entries(seqs[1])}
        OBVIOUS
      <4> QED BY <1>4, <2>2, <2>3, <4>1, <4>2
    <3> QED BY <1>1, <2>2, <2>3, <3>1
  <2>4. CASE k # 1
    <3>1. k - 1 \in Nat /\ k - 1 \in 1 .. n /\ k - 1 < k
      BY <1>1, <2>2, <2>4
    <3>2. k - 1 \notin Bad
      BY <2>1, <3>1
    <3>3. h[k - 1] \in Seq(Int) /\ Entries(h[k - 1]) = Upto(k - 1)
      BY <3>1, <3>2
    <3>4. h[k] = h[k - 1] \o seqs[k]
      BY <1>4, <2>2, <2>4
    <3>5. h[k] \in Seq(Int) /\ Entries(h[k]) = Upto(k - 1) \cup Entries(seqs[k])
      BY <1>1, <2>2, <3>3, <3>4, JoinedEntries
    <3>6. Upto(k) = Upto(k - 1) \cup Entries(seqs[k])
      <4>1. 1 .. k = (1 .. (k - 1)) \cup {k}
        BY <2>2
      <4>2. {Entries(seqs[i]) : i \in 1 .. k} = {Entries(seqs[i]) : i \in 1 .. (k - 1)} \cup {Entries(seqs[k])}
        BY <4>1
      <4> QED BY <4>2
    <3> QED BY <3>5, <3>6
  <2> QED BY <2>3, <2>4
<1>6. n \in Nat /\ n \in 1 .. n
  BY <1>1
<1>7. h[n] \in Seq(Int) /\ Entries(h[n]) = Upto(n)
  BY <1>5, <1>6
<1> QED BY <1>3, <1>7 DEF n
-----------------------------------------------------------------------------
\* InOrder sorts: when the numbers run without gap or repetition, match i is
\* the one whose number is i - 1 more than the least.
LEMMA OrderIsByNumber ==
  ASSUME NEW ms \in MatchLists, ms # <<>>, NumbersRun(ms)
  PROVE  LET o == InOrder(ms)
             l == Least(Nums(ms)) IN
         /\ o \in [1 .. Len(ms) -> ToSet(ms)] /\ o \in MatchLists /\ Len(o) = Len(ms)
         /\ l \in Int /\ \A i \in 1 .. Len(ms) : o[i].num = l + i - 1
         /\ \A m \in ToSet(ms) :
              m.num - l + 1 \in 1 .. Len(ms) /\ o[m.num - l + 1] = m
<1> DEFINE n == Len(ms)
           o == InOrder(ms)
           l == Least(Nums(ms))
           g == Greatest(Nums(ms))
           number == [i \in 1 .. n |-> ms[i].num]
<1>1. /\ n \in Nat /\ n # 0 /\ DOMAIN ms = 1 .. n /\ ms \in [1 .. n -> Matches]
      /\ \A i \in 1 .. n : ms[i] \in Matches /\ ms[i].num \in Int
  <2>1. ms \in Seq(Matches)
    BY DEF MatchLists
  <2>2. n \in Nat /\ n # 0 /\ DOMAIN ms = 1 .. n /\ ms \in [1 .. n -> Matches]
    BY <2>1
  <2>3. \A m \in Matches : m.num \in Int
    BY DEF Matches
  <2> QED BY <2>2, <2>3
<1>2. number \in Surjection(1 .. n, Nums(ms)) /\ Nums(ms) \subseteq Int /\ Nums(ms) # {}
  BY <1>1 DEF Surjection, Nums
<1>3. IsFiniteSet(Nums(ms))
  <2>1. IsFiniteSet(1 .. n)
    BY <1>1, FS_Interval
  <2> QED BY <1>2, <2>1, FS_Surjection
<1>4. /\ Nums(ms) = l .. g /\ n = g - l + 1 /\ l \in Int /\ g \in Int
  <2>1. \A x \in Nums(ms) : x = Greatest(Nums(ms)) \/ x + 1 \in Nums(ms)
    BY DEF NumbersRun
  <2>2. Nums(ms) = l .. g /\ Cardinality(Nums(ms)) = g - l + 1
    BY <1>2, <1>3, <2>1, RunIsInterval
  <2>3. l \in Int /\ g \in Int
    BY <1>2, <1>3, FiniteHasBounds
  <2> QED BY <2>2, <2>3 DEF NumbersRun
<1> HIDE DEF n, l, g
<1>5. \A i, j \in 1 .. n : ms[i].num = ms[j].num => i = j
  <2>1. {number[i] : i \in 1 .. n} = Nums(ms)
    BY <1>1 DEF Nums
  <2>2. Cardinality(Nums(ms)) = n
    BY DEF NumbersRun, n
  <2>3. \A i, j \in 1 .. n : number[i] = number[j] => i = j
    <3> HIDE DEF number
    <3>1. DOMAIN number = 1 .. n
      BY DEF number
    <3> QED BY <1>1, <2>1, <2>2, <3>1, DistinctValues
  <2> QED BY <2>3
<1>6. ASSUME NEW j \in 1 .. n PROVE Cardinality(Before(ms, j)) = ms[j].num - l
  <2> DEFINE B == Before(ms, j)
             T == l .. (ms[j].num - 1)
             f == [k \in B |-> ms[k].num]
  <2>1. B = {k \in 1 .. n : ms[k].num < ms[j].num}
    <3>1. \A k \in 1 .. n : ms[k].num = ms[j].num => ~(k < j)
      BY <1>1, <1>5
    <3> QED BY <1>1, <3>1 DEF Before
  <2>2. ms[j].num \in l .. g
    BY <1>1, <1>4 DEF Nums
  <2>3. ASSUME NEW k \in B PROVE ms[k].num \in T
    <3>1. k \in 1 .. n /\ ms[k].num \in l .. g /\ ms[k].num < ms[j].num
      BY <1>1, <1>4, <2>1 DEF Nums
    <3> QED BY <1>4, <2>2, <3>1
  <2>4. ASSUME NEW x \in T PROVE \E k \in B : ms[k].num = x
    <3>1. x \in l .. g /\ x < ms[j].num
      BY <1>4, <2>2
    <3>2. PICK k \in 1 .. n : ms[k].num = x
      BY <1>1, <1>4, <3>1 DEF Nums
    <3> QED BY <2>1, <3>1, <3>2
  <2>5. f \in Bijection(B, T)
    <3>1. \A i, k \in B : f[i] = f[k] => i = k
      BY <1>5, <2>1
    <3>2. f \in [B -> T]
      BY <2>3
    <3> QED BY <2>4, <3>1, <3>2 DEF Bijection, Injection, Surjection, IsInjective
  <2>6. IsFiniteSet(B)
    <3>1. IsFiniteSet(1 .. n)
      BY <1>1, FS_Interval
    <3> QED BY <2>1, <3>1, FS_Subset
  <2>7. Cardinality(T) = Cardinality(B)
    <3>1. ExistsBijection(B, T)
      BY <2>5 DEF ExistsBijection
    <3> QED BY <2>6, <3>1, FS_Bijection
  <2>8. Cardinality(T) = ms[j].num - l
    <3> DEFINE b == ms[j].num - 1
    <3>1. b \in Int /\ l <= b + 1 /\ b + 1 = ms[j].num
      BY <1>1, <1>4, <2>2
    <3> HIDE DEF b
    <3>2. Cardinality(l .. b) = IF l > b THEN 0 ELSE b - l + 1
      BY <1>4, <3>1, FS_Interval
    <3>3. Cardinality(l .. b) = (b + 1) - l
      BY <1>4, <3>1, <3>2
    <3> QED BY <3>1, <3>3 DEF b
  <2> QED BY <2>7, <2>8
<1>7. ASSUME NEW i \in 1 .. n
      PROVE  \E j \in 1 .. n : o[i] = ms[j] /\ ms[j].num = l + i - 1
  <2>1. l + i - 1 \in l .. g
    BY <1>1, <1>4
  <2>2. PICK k \in 1 .. n : ms[k].num = l + i - 1
    BY <1>1, <1>4, <2>1 DEF Nums
  <2>3. Cardinality(Before(ms, k)) = i - 1
    BY <1>1, <1>4, <1>6, <2>2
  <2> DEFINE j == CHOOSE j \in DOMAIN ms : Cardinality(Before(ms, j)) = i - 1
  <2>4. j \in 1 .. n /\ Cardinality(Before(ms, j)) = i - 1
    BY <1>1, <2>3
  <2>5. o[i] = ms[j]
    BY <1>1 DEF InOrder
  <2> HIDE DEF j, o
  <2>6. ms[j].num - l = i - 1 /\ ms[j].num \in Int
    BY <1>1, <1>6, <2>4
  <2>7. ms[j].num = l + i - 1
    BY <1>4, <2>6
  <2> QED BY <2>4, <2>5, <2>7
<1>8. DOMAIN o = 1 .. n /\ o = [i \in 1 .. n |-> o[i]]
  BY <1>1 DEF InOrder
<1> HIDE DEF o
<1>9. o \in [1 .. n -> ToSet(ms)] /\ o \in [1 .. n -> Matches]
  BY <1>1, <1>7, <1>8 DEF ToSet
<1>10. o \in MatchLists /\ Len(o) = n
  BY <1>1, <1>9 DEF MatchLists
<1>11. ASSUME NEW m \in ToSet(ms) PROVE m.num - l + 1 \in 1 .. n /\ o[m.num - l + 1] = m
  <2>1. PICK k \in 1 .. n : m = ms[k]
    BY <1>1 DEF ToSet
  <2>2. m.num \in l .. g
    BY <1>1, <1>4, <2>1 DEF Nums
  <2>3. m.num - l + 1 \in 1 .. n /\ l + (m.num - l + 1) - 1 = m.num
    BY <1>4, <2>2
  <2>4. PICK j \in 1 .. n : o[m.num - l + 1] = ms[j] /\ ms[j].num = m.num
    BY <1>7, <2>3
  <2> QED BY <1>5, <2>1, <2>3, <2>4
<1>12. \A i \in 1 .. n : o[i].num = l + i - 1
  BY <1>7
<1> QED BY <1>4, <1>9, <1>10, <1>11, <1>12 DEF o, l, n
-----------------------------------------------------------------------------
\* The six teams of a match that passed the validator.

IsGood(m) == m \in Matches /\ FullAlliances(m) /\ NoTeamTwice(m) /\ EnoughFlags(m)

LEMMA TeamsApart ==
  ASSUME NEW m, IsGood(m)
  PROVE  LET A == AllianceSize
             s == m.red \o m.blue IN
         /\ A \in Nat /\ A # 0 /\ m.red \in [1 .. A -> Int] /\ m.blue \in [1 .. A -> Int]
         /\ s \in Seq(Int) /\ Len(s) = 2 * A
         /\ {s[i] : i \in 1 .. 2 * A} = Teams(m)
         /\ \A i, j \in 1 .. 2 * A : s[i] = s[j] => i = j
         /\ \A i, j \in 1 .. A : m.red[i] # m.blue[j]
<1> DEFINE A == AllianceSize
           s == m.red \o m.blue
<1>1. A \in Nat /\ A # 0
  BY ImportsAssumption
<1>2. m.red \in Seq(Int) /\ m.blue \in Seq(Int) /\ Len(m.red) = A /\ Len(m.blue) = A
  BY DEF IsGood, Matches, FullAlliances
<1>3. m.red \in [1 .. A -> Int] /\ m.blue \in [1 .. A -> Int]
  BY <1>2
<1>4. s \in Seq(Int) /\ Entries(s) = Entries(m.red) \cup Entries(m.blue)
  BY <1>2, JoinedEntries
<1>5. Entries(m.red) = ToSet(m.red) /\ Entries(m.blue) = ToSet(m.blue)
  BY <1>2, EntriesAreToSet
<1>6. Len(s) = 2 * A /\ \A i \in 1 .. 2 * A : s[i] = IF i <= A THEN m.red[i] ELSE m.blue[i - A]
  <2>1. A + A = 2 * A
    BY <1>1
  <2>2. Len(s) = A + A
    <3>1. Len(s) = Len(m.red) + Len(m.blue)
      BY <1>2, JoinedEntries
    <3> HIDE DEF s
    <3> QED BY <1>2, <3>1
  <2>3. \A i \in 1 .. A + A : s[i] = IF i <= A THEN m.red[i] ELSE m.blue[i - A]
    <3>1. \A i \in 1 .. Len(m.red) + Len(m.blue) :
            s[i] = IF i <= Len(m.red) THEN m.red[i] ELSE m.blue[i - Len(m.red)]
      BY <1>2, JoinedEntries
    <3> HIDE DEF s, A
    <3> QED BY <1>2, <3>1
  <2> QED BY <2>1, <2>2, <2>3
<1> HIDE DEF s, A
<1>7. {s[i] : i \in 1 .. 2 * A} = Teams(m)
  BY <1>4, <1>5, <1>6 DEF Entries, Teams
<1>8. \A i, j \in 1 .. 2 * A : s[i] = s[j] => i = j
  <2>1. 2 * A \in Nat /\ DOMAIN s = 1 .. 2 * A
    BY <1>1, <1>4, <1>6
  <2>2. Cardinality(Teams(m)) = 2 * A
    BY <1>1, <1>2 DEF IsGood, NoTeamTwice
  <2>3. Cardinality({s[i] : i \in 1 .. 2 * A}) = 2 * A
    BY <1>7, <2>2
  <2> QED BY <2>1, <2>3, DistinctValues
<1>9. ASSUME NEW i \in 1 .. A, NEW j \in 1 .. A PROVE m.red[i] # m.blue[j]
  <2>1. /\ i \in 1 .. 2 * A /\ i <= A /\ j + A \in 1 .. 2 * A /\ ~(j + A <= A)
        /\ i # j + A /\ (j + A) - A = j
    BY <1>1
  <2>2. s[i] = m.red[i] /\ s[j + A] = m.blue[j]
    BY <1>6, <2>1
  <2> QED BY <1>8, <2>1, <2>2
<1> QED BY <1>1, <1>3, <1>4, <1>6, <1>7, <1>8, <1>9 DEF s, A

LEMMA LineupEntries ==
  ASSUME NEW o \in MatchLists, o # <<>>
  PROVE  Lineup(o) \in Seq(Int) /\ Entries(Lineup(o)) = AllTeams(o)
<1> DEFINE seqs == [i \in DOMAIN o |-> o[i].red \o o[i].blue]
<1>1. Len(o) \in Nat /\ Len(o) # 0 /\ DOMAIN o = 1 .. Len(o) /\ \A i \in 1 .. Len(o) : o[i] \in Matches
  <2>1. o \in Seq(Matches)
    BY DEF MatchLists
  <2> QED BY <2>1
<1>2. ASSUME NEW i \in 1 .. Len(o)
      PROVE  seqs[i] \in Seq(Int) /\ Entries(seqs[i]) = Teams(o[i])
  <2>1. o[i].red \in Seq(Int) /\ o[i].blue \in Seq(Int)
    BY <1>1 DEF Matches
  <2>2. Entries(o[i].red) = ToSet(o[i].red) /\ Entries(o[i].blue) = ToSet(o[i].blue)
    BY <2>1, EntriesAreToSet
  <2>3. seqs[i] = o[i].red \o o[i].blue
    BY <1>1
  <2>4. /\ o[i].red \o o[i].blue \in Seq(Int)
        /\ Entries(o[i].red \o o[i].blue) = Entries(o[i].red) \cup Entries(o[i].blue)
    BY <2>1, JoinedEntries
  <2> QED BY <2>2, <2>3, <2>4 DEF Teams
<1>3. seqs \in Seq(Seq(Int)) /\ Len(seqs) = Len(o) /\ Len(seqs) # 0
  <2>1. seqs \in [1 .. Len(o) -> Seq(Int)]
    BY <1>1, <1>2
  <2> HIDE DEF seqs
  <2> QED BY <1>1, <2>1
<1>4. Lineup(o) = FlattenSeq(seqs)
  BY DEF Lineup
<1> HIDE DEF seqs
<1>5. Lineup(o) \in Seq(Int) /\ Entries(Lineup(o)) = UNION {Entries(seqs[i]) : i \in 1 .. Len(o)}
  BY <1>3, <1>4, FlattenEntries
<1>6. {Entries(seqs[i]) : i \in 1 .. Len(o)} = {Teams(o[i]) : i \in DOMAIN o}
  BY <1>1, <1>2
<1> QED BY <1>5, <1>6 DEF AllTeams

\* Every team gets one slot, the slots are 1 to the number of teams.
LEMMA SlotMapNumbersTheTeams ==
  ASSUME NEW o \in MatchLists, o # <<>>
  PROVE  LET map == SlotMap(o) IN
         /\ Cardinality(AllTeams(o)) \in Nat
         /\ DOMAIN map = 1 .. Cardinality(AllTeams(o))
         /\ \A s, r \in DOMAIN map : map[s] = map[r] => s = r
         /\ {map[s] : s \in DOMAIN map} = AllTeams(o)
<1> DEFINE seats  == Lineup(o)
           n == Len(seats)
           firsts == {i \in DOMAIN seats : \A j \in 1 .. (i - 1) : seats[j] # seats[i]}
           c == Cardinality(firsts)
           pick(s) == CHOOSE i \in firsts : Rank(firsts, i) = s
           map == SlotMap(o)
<1>1. n \in Nat /\ DOMAIN seats = 1 .. n /\ {seats[i] : i \in 1 .. n} = AllTeams(o)
  BY LineupEntries DEF Entries
<1>2. map = [s \in 1 .. c |-> seats[pick(s)]]
  BY DEF SlotMap, Rank
<1> HIDE DEF map, seats
<1>3. firsts \in SUBSET (1 .. n)
  BY <1>1
<1>4. \A i, k \in firsts : seats[i] = seats[k] => i = k
  <2>1. ASSUME NEW i \in firsts, NEW k \in firsts, seats[i] = seats[k], i < k PROVE FALSE
    <3>1. i \in 1 .. (k - 1)
      BY <1>1, <2>1
    <3> QED BY <2>1, <3>1
  <2>2. \A i, k \in firsts : i < k \/ i = k \/ k < i
    BY <1>3
  <2> QED BY <2>1, <2>2
<1>5. ASSUME NEW i \in 1 .. n PROVE \E k \in firsts : seats[k] = seats[i]
  <2> DEFINE T == {k \in 1 .. n : seats[k] = seats[i]}
  <2>1. PICK k \in T : \A m \in T : ~(m < k)
    <3>1. T \in SUBSET Nat /\ T # {}
      OBVIOUS
    <3> HIDE DEF T
    <3> QED BY <3>1, LeastNumber
  <2>2. \A j \in 1 .. (k - 1) : j \in 1 .. n /\ j < k
    BY <1>1
  <2>3. \A j \in 1 .. (k - 1) : seats[j] # seats[k]
    BY <2>1, <2>2
  <2> QED BY <1>1, <2>3
<1>6. firsts = firsts /\ {seats[k] : k \in firsts} = AllTeams(o)
  BY <1>1, <1>3, <1>5
<1> HIDE DEF firsts, n
<1>7. /\ c \in Nat
      /\ \A i \in firsts : Rank(firsts, i) \in 1 .. c
      /\ \A i, k \in firsts : Rank(firsts, i) = Rank(firsts, k) => i = k
      /\ \A s \in 1 .. c : \E i \in firsts : Rank(firsts, i) = s
  BY <1>1, <1>3, RanksAreTaken
<1>8. \A s \in 1 .. c : pick(s) \in firsts /\ Rank(firsts, pick(s)) = s
  BY <1>7
<1>9. \A i \in firsts : pick(Rank(firsts, i)) = i
  BY <1>7, <1>8
<1> HIDE DEF pick, c
<1>10. DOMAIN map = 1 .. c /\ \A s \in 1 .. c : map[s] = seats[pick(s)]
  BY <1>2
<1>11. \A s, r \in 1 .. c : map[s] = map[r] => s = r
  BY <1>4, <1>8, <1>10
<1>12. {map[s] : s \in 1 .. c} = AllTeams(o)
  <2>1. \A s \in 1 .. c : map[s] \in {seats[k] : k \in firsts}
    BY <1>8, <1>10
  <2>2. \A k \in firsts : seats[k] = map[Rank(firsts, k)]
    BY <1>7, <1>9, <1>10
  <2>3. \A k \in firsts : seats[k] \in {map[s] : s \in 1 .. c}
    BY <1>7, <2>2
  <2> QED BY <1>6, <2>1, <2>3
<1>13. c = Cardinality(AllTeams(o))
  <2> DEFINE T == AllTeams(o)
             f == [k \in firsts |-> seats[k]]
  <2>1. f \in Bijection(firsts, T)
    BY <1>4, <1>6 DEF Bijection, Injection, Surjection, IsInjective
  <2>2. ExistsBijection(firsts, T)
    BY <2>1 DEF ExistsBijection
  <2>3. IsFiniteSet(firsts)
    <3>1. IsFiniteSet(1 .. n)
      BY <1>1, FS_Interval
    <3> QED BY <1>3, <3>1, FS_Subset
  <2> HIDE DEF T
  <2>4. Cardinality(T) = Cardinality(firsts)
    BY <2>2, <2>3, FS_Bijection
  <2> QED BY <2>4 DEF c, T
<1> QED BY <1>7, <1>10, <1>11, <1>12, <1>13 DEF map
-----------------------------------------------------------------------------
\* The schedule that is built, for a list that passed: Checked is what the
\* commit found out about it.

Checked(ms) == /\ ms \in MatchLists /\ ms # <<>> /\ NumbersRun(ms)
               /\ \A m \in ToSet(ms) : IsGood(m)

LEMMA SlotsNameTheTeams ==
  ASSUME NEW o \in MatchLists, o # <<>>, \A i \in DOMAIN o : IsGood(o[i])
  PROVE  LET map == SlotMap(o)
             plan == Abstract(o, map)
             A == AllianceSize IN
         /\ Len(o) \in Nat /\ Len(o) # 0
         /\ DOMAIN o = 1 .. Len(o) /\ DOMAIN plan = 1 .. Len(o) /\ Len(plan) = Len(o)
         /\ \A i \in DOMAIN o :
              /\ plan[i].red \in [1 .. A -> DOMAIN map]
              /\ plan[i].blue \in [1 .. A -> DOMAIN map]
              /\ \A j \in 1 .. A : /\ map[plan[i].red[j]] = o[i].red[j]
                                   /\ map[plan[i].blue[j]] = o[i].blue[j]
              /\ plan[i].redSur = FlagsOf(o[i].redSur) /\ plan[i].blueSur = FlagsOf(o[i].blueSur)
<1> DEFINE map == SlotMap(o)
           plan == Abstract(o, map)
           A == AllianceSize
           slots(teams) == [j \in DOMAIN teams |-> CHOOSE s \in DOMAIN map : map[s] = teams[j]]
<1>1. Len(o) \in Nat /\ Len(o) # 0 /\ DOMAIN o = 1 .. Len(o)
  <2>1. o \in Seq(Matches)
    BY DEF MatchLists
  <2> QED BY <2>1
<1>2. {map[s] : s \in DOMAIN map} = AllTeams(o)
  BY SlotMapNumbersTheTeams
<1>3. plan = [i \in DOMAIN o |-> [red    |-> slots(o[i].red), blue |-> slots(o[i].blue),
                                  redSur |-> FlagsOf(o[i].redSur), blueSur |-> FlagsOf(o[i].blueSur)]]
  BY DEF Abstract
<1> HIDE DEF map, plan, A
<1>4. Len(plan) = Len(o) /\ DOMAIN plan = 1 .. Len(o)
  BY <1>1, <1>3
<1>5. ASSUME NEW teams \in [1 .. A -> Int], \A j \in 1 .. A : teams[j] \in AllTeams(o)
      PROVE  /\ slots(teams) \in [1 .. A -> DOMAIN map]
             /\ \A j \in 1 .. A : map[slots(teams)[j]] = teams[j]
  <2>1. \A j \in 1 .. A : \E s \in DOMAIN map : map[s] = teams[j]
    BY <1>2, <1>5
  <2> QED BY <2>1
<1> HIDE DEF slots
<1>6. ASSUME NEW i \in DOMAIN o
      PROVE  /\ plan[i].red = slots(o[i].red) /\ plan[i].blue = slots(o[i].blue)
             /\ plan[i].redSur = FlagsOf(o[i].redSur) /\ plan[i].blueSur = FlagsOf(o[i].blueSur)
             /\ o[i].red \in [1 .. A -> Int] /\ o[i].blue \in [1 .. A -> Int]
             /\ \A j \in 1 .. A : o[i].red[j] \in AllTeams(o) /\ o[i].blue[j] \in AllTeams(o)
  <2>1. o[i].red \in [1 .. A -> Int] /\ o[i].blue \in [1 .. A -> Int]
    BY TeamsApart DEF A
  <2>2. \A j \in 1 .. A : o[i].red[j] \in Teams(o[i]) /\ o[i].blue[j] \in Teams(o[i])
    BY <2>1 DEF Teams, ToSet
  <2>3. Teams(o[i]) \in {Teams(o[k]) : k \in DOMAIN o}
    OBVIOUS
  <2>4. Teams(o[i]) \subseteq AllTeams(o)
    BY <2>3 DEF AllTeams
  <2> QED BY <1>3, <2>1, <2>2, <2>4
<1>7. ASSUME NEW i \in DOMAIN o
      PROVE  /\ plan[i].red \in [1 .. A -> DOMAIN map]
             /\ plan[i].blue \in [1 .. A -> DOMAIN map]
             /\ \A j \in 1 .. A : /\ map[plan[i].red[j]] = o[i].red[j]
                                  /\ map[plan[i].blue[j]] = o[i].blue[j]
  BY <1>5, <1>6
<1> QED BY <1>1, <1>4, <1>6, <1>7 DEF map, plan, A

\* Seats found by the place of their match, or by the match.
Taken(P, o, n, A)  == \A p \in P : \E i \in 1 .. n, k \in 1 .. A : p = <<o[i], k>>
Distinct(o, n)     == \A i, j \in 1 .. n : o[i] = o[j] => i = j
Places(P, o, n, A) == {x \in (1 .. n) \X (1 .. A) : <<o[x[1]], x[2]>> \in P}

LEMMA SeatsByPlace ==
  ASSUME NEW n \in Nat, NEW A \in Nat, NEW o, Distinct(o, n), NEW P, Taken(P, o, n, A)
  PROVE  /\ IsFiniteSet(P)
         /\ Cardinality(Places(P, o, n, A)) = Cardinality(P)
<1> DEFINE D == (1 .. n) \X (1 .. A)
           R == {x \in D : <<o[x[1]], x[2]>> \in P}
           g == [x \in R |-> <<o[x[1]], x[2]>>]
<1>1. IsFiniteSet(D)
  <2>1. IsFiniteSet(1 .. n) /\ IsFiniteSet(1 .. A)
    BY FS_Interval
  <2> QED BY <2>1, FS_Product
<1>2. IsFiniteSet(R)
  <2>1. R \in SUBSET D
    OBVIOUS
  <2> HIDE DEF R, D
  <2> QED BY <1>1, <2>1, FS_Subset
<1>3. g \in [R -> P]
  OBVIOUS
<1>4. ASSUME NEW x \in R, NEW y \in R, g[x] = g[y] PROVE x = y
  <2>1. x[1] \in 1 .. n /\ y[1] \in 1 .. n /\ x = <<x[1], x[2]>> /\ y = <<y[1], y[2]>>
    OBVIOUS
  <2>2. o[x[1]] = o[y[1]] /\ x[2] = y[2]
    BY <1>4
  <2> QED BY <2>1, <2>2 DEF Distinct
<1>5. ASSUME NEW p \in P PROVE \E x \in R : g[x] = p
  <2>1. PICK i \in 1 .. n, k \in 1 .. A : p = <<o[i], k>>
    BY DEF Taken
  <2>2. <<i, k>> \in R /\ g[<<i, k>>] = p
    BY <2>1
  <2> QED BY <2>2
<1>6. g \in Bijection(R, P)
  BY <1>3, <1>4, <1>5 DEF Bijection, Injection, Surjection, IsInjective
<1>7. ExistsBijection(R, P)
  BY <1>6 DEF ExistsBijection
<1> HIDE DEF R
<1>8. IsFiniteSet(P) /\ Cardinality(P) = Cardinality(R)
  BY <1>2, <1>7, FS_Bijection
<1> QED BY <1>8 DEF R, Places

\* A slot has as many surrogate seats as its team.
LEMMA CountsAreTheTeams ==
  ASSUME NEW ms, Checked(ms), NEW o, o = InOrder(ms),
         NEW s \in DOMAIN SlotMap(o)
  PROVE  SurrogateCount(Abstract(o, SlotMap(o)), Cardinality(AllTeams(ms)))[s]
           = Cardinality(SurrogateSeats(ms, SlotMap(o)[s]))
<1> DEFINE map == SlotMap(o)
           plan == Abstract(o, map)
           A == AllianceSize
           n == Len(ms)
           t == map[s]
           T == ToSet(ms)
           SR == {x \in T \X (1 .. A) : x[1].red[x[2]] = t /\ FlagsOf(x[1].redSur)[x[2]]}
           SB == {x \in T \X (1 .. A) : x[1].blue[x[2]] = t /\ FlagsOf(x[1].blueSur)[x[2]]}
           D == (DOMAIN plan) \X (1 .. A)
           R == {x \in D : plan[x[1]].red[x[2]] = s /\ plan[x[1]].redSur[x[2]]}
           B == {x \in D : plan[x[1]].blue[x[2]] = s /\ plan[x[1]].blueSur[x[2]]}
<1>0. ms \in MatchLists /\ ms # <<>> /\ NumbersRun(ms) /\ \A m \in T : IsGood(m)
  BY DEF Checked
<1>1. /\ o \in [1 .. n -> T] /\ o \in MatchLists /\ Len(o) = n /\ DOMAIN o = 1 .. n
      /\ \A m \in T : \E i \in 1 .. n : o[i] = m
      /\ \A i, j \in 1 .. n : o[i] = o[j] => i = j
  <2> DEFINE l == Least(Nums(ms))
  <2>1. /\ o \in [1 .. n -> T] /\ o \in MatchLists /\ Len(o) = n
        /\ l \in Int /\ \A i \in 1 .. n : o[i].num = l + i - 1
        /\ \A m \in T : m.num - l + 1 \in 1 .. n /\ o[m.num - l + 1] = m
    BY <1>0, OrderIsByNumber
  <2>2. \A i, j \in 1 .. n : l + i - 1 = l + j - 1 => i = j
    BY <2>1
  <2> HIDE DEF l, T, n
  <2>3. \A i, j \in 1 .. n : o[i] = o[j] => i = j
    BY <2>1, <2>2
  <2> QED BY <2>1, <2>3
<1>2. n \in Nat /\ n # 0 /\ o # <<>> /\ \A i \in DOMAIN o : IsGood(o[i])
  <2>1. ms \in Seq(Matches)
    BY <1>0 DEF MatchLists
  <2>2. n \in Nat /\ n # 0
    BY <1>0, <2>1
  <2>3. o # <<>>
    BY <1>1, <2>2
  <2> QED BY <1>0, <1>1, <2>2, <2>3
<1>3. {o[i] : i \in 1 .. n} = T
  BY <1>1
<1>4. \A x, y \in DOMAIN map : map[x] = map[y] => x = y
  BY <1>1, <1>2, SlotMapNumbersTheTeams
<1>5. /\ DOMAIN plan = 1 .. n
      /\ \A i \in 1 .. n :
           /\ plan[i].red \in [1 .. A -> DOMAIN map] /\ plan[i].blue \in [1 .. A -> DOMAIN map]
           /\ \A j \in 1 .. A : /\ map[plan[i].red[j]] = o[i].red[j]
                                /\ map[plan[i].blue[j]] = o[i].blue[j]
           /\ plan[i].redSur = FlagsOf(o[i].redSur) /\ plan[i].blueSur = FlagsOf(o[i].blueSur)
  BY <1>1, <1>2, SlotsNameTheTeams
<1>6. s \in DOMAIN map
  OBVIOUS
<1>7. A \in Nat
  BY ImportsAssumption
<1>a. SurrogateCount(plan, Cardinality(AllTeams(ms)))[s] = Cardinality(R) + Cardinality(B)
  <2>1. AllTeams(ms) = AllTeams(o)
    <3>1. {Teams(ms[i]) : i \in DOMAIN ms} = {Teams(m) : m \in T}
      BY DEF ToSet
    <3>2. {Teams(o[i]) : i \in DOMAIN o} = {Teams(m) : m \in T}
      BY <1>1, <1>3
    <3> QED BY <3>1, <3>2 DEF AllTeams
  <2>2. s \in 1 .. Cardinality(AllTeams(ms))
    BY <1>1, <1>2, <2>1, SlotMapNumbersTheTeams
  <2> QED BY <2>2 DEF SurrogateCount
<1>b. SurrogateSeats(ms, t) = SR \cup SB
  BY DEF SurrogateSeats
<1> HIDE DEF map, plan, n, T
<1>8. ASSUME NEW i \in 1 .. n, NEW k \in 1 .. A
      PROVE  /\ plan[i].red[k] = s <=> o[i].red[k] = t
             /\ plan[i].blue[k] = s <=> o[i].blue[k] = t
  <2>1. plan[i].red[k] \in DOMAIN map /\ plan[i].blue[k] \in DOMAIN map
    BY <1>5
  <2>2. map[plan[i].red[k]] = o[i].red[k] /\ map[plan[i].blue[k]] = o[i].blue[k]
    BY <1>5
  <2> QED BY <1>4, <1>6, <2>1, <2>2
<1>9. R = Places(SR, o, n, A)
  <2>1. \A x \in (1 .. n) \X (1 .. A) :
          (plan[x[1]].red[x[2]] = s /\ plan[x[1]].redSur[x[2]]) <=> <<o[x[1]], x[2]>> \in SR
    <3>1. ASSUME NEW i \in 1 .. n, NEW k \in 1 .. A
          PROVE  (plan[i].red[k] = s /\ plan[i].redSur[k]) <=> <<o[i], k>> \in SR
      BY <1>1, <1>5, <1>8
    <3> HIDE DEF SR
    <3> QED BY <3>1
  <2> HIDE DEF SR
  <2> QED BY <1>5, <2>1 DEF Places
<1>10. B = Places(SB, o, n, A)
  <2>1. \A x \in (1 .. n) \X (1 .. A) :
          (plan[x[1]].blue[x[2]] = s /\ plan[x[1]].blueSur[x[2]]) <=> <<o[x[1]], x[2]>> \in SB
    <3>1. ASSUME NEW i \in 1 .. n, NEW k \in 1 .. A
          PROVE  (plan[i].blue[k] = s /\ plan[i].blueSur[k]) <=> <<o[i], k>> \in SB
      BY <1>1, <1>5, <1>8
    <3> HIDE DEF SB
    <3> QED BY <3>1
  <2> HIDE DEF SB
  <2> QED BY <1>5, <2>1 DEF Places
<1>11. SR \in SUBSET (T \X (1 .. A)) /\ SB \in SUBSET (T \X (1 .. A))
  OBVIOUS
<1>c. Taken(SR, o, n, A) /\ Taken(SB, o, n, A)
  <2>1. ASSUME NEW p \in T \X (1 .. A)
        PROVE  \E i \in 1 .. n, k \in 1 .. A : p = <<o[i], k>>
    <3>1. p[1] \in T /\ p[2] \in 1 .. A /\ p = <<p[1], p[2]>>
      OBVIOUS
    <3> QED BY <1>1, <3>1
  <2> HIDE DEF SR, SB
  <2> QED BY <1>11, <2>1 DEF Taken
<1>12. SR \cap SB = {}
  <2>1. ASSUME NEW m \in T, NEW k \in 1 .. A PROVE m.red[k] # m.blue[k]
    BY <1>0, <2>1, TeamsApart DEF T
  <2> QED BY <2>1
<1> HIDE DEF SR, SB, R, B, D, t
<1>13. /\ IsFiniteSet(SR) /\ Cardinality(R) = Cardinality(SR)
       /\ IsFiniteSet(SB) /\ Cardinality(B) = Cardinality(SB)
  <2>0. n \in Nat /\ A \in Nat /\ Distinct(o, n)
    BY <1>1, <1>2, <1>7 DEF Distinct
  <2> HIDE DEF A
  <2>1. IsFiniteSet(SR) /\ Cardinality(Places(SR, o, n, A)) = Cardinality(SR)
    BY <2>0, <1>c, SeatsByPlace
  <2>2. IsFiniteSet(SB) /\ Cardinality(Places(SB, o, n, A)) = Cardinality(SB)
    BY <2>0, <1>c, SeatsByPlace
  <2> QED BY <1>9, <1>10, <2>1, <2>2
<1>14. Cardinality(SR \cup SB) = Cardinality(SR) + Cardinality(SB)
  <2>1. /\ Cardinality(SR \cup SB) = Cardinality(SR) + Cardinality(SB) - Cardinality(SR \cap SB)
    BY <1>13, FS_Union
  <2>2. Cardinality(SR \cap SB) = 0 /\ Cardinality(SR) \in Nat /\ Cardinality(SB) \in Nat
    BY <1>12, <1>13, FS_EmptySet, FS_CardinalityType
  <2> QED BY <2>1, <2>2
<1> QED BY <1>a, <1>b, <1>13, <1>14 DEF map, plan, t
-----------------------------------------------------------------------------
\* What a commit writes reproduces the list it was given, and is sound.

LEMMA BuiltReproduces ==
  ASSUME NEW read, Checked(read.matches)
  PROVE  Reproduces(Built(read), read.matches)
<1> DEFINE ms == read.matches
           n == Len(ms)
           o == InOrder(ms)
           map == SlotMap(o)
           plan == Abstract(o, map)
           made == Built(read)
           A == AllianceSize
           l == Least(Nums(ms))
           Named(slots) == [j \in DOMAIN slots |-> made.map[slots[j]]]
<1>1. /\ made.map = map /\ made.plan = plan
      /\ made.count = SurrogateCount(plan, Cardinality(AllTeams(o)))
  <2> DEFINE practice == SelectSeq(read.practice, BothSides)
             count == SurrogateCount(plan, Cardinality(AllTeams(o)))
  <2>1. made = [plan |-> plan, map |-> map, count |-> count, practice |-> practice]
    BY DEF Built
  <2> HIDE DEF made, practice, plan, map, count
  <2>2. made.map = map /\ made.plan = plan /\ made.count = count
    BY <2>1
  <2> QED BY <2>2 DEF count
<1>2. ms \in MatchLists /\ ms # <<>> /\ NumbersRun(ms) /\ \A m \in ToSet(ms) : IsGood(m)
  BY DEF Checked
<1>3. /\ o \in [1 .. n -> ToSet(ms)] /\ o \in MatchLists /\ Len(o) = n
      /\ \A m \in ToSet(ms) : m.num - l + 1 \in 1 .. n /\ o[m.num - l + 1] = m
  BY <1>2, OrderIsByNumber
<1>4. n \in Nat /\ n # 0 /\ DOMAIN o = 1 .. n /\ o # <<>>
  <2>1. ms \in Seq(Matches) /\ o \in Seq(Matches)
    BY <1>2, <1>3 DEF MatchLists
  <2>2. n \in Nat /\ n # 0
    BY <1>2, <2>1
  <2> HIDE DEF o, n
  <2>3. o # <<>> /\ DOMAIN o = 1 .. n
    BY <1>3, <2>1, <2>2
  <2> QED BY <2>2, <2>3
<1>5. AllTeams(o) = AllTeams(ms)
  <2>1. {Teams(ms[i]) : i \in DOMAIN ms} = {Teams(m) : m \in ToSet(ms)}
    BY DEF ToSet
  <2>2. {Teams(o[i]) : i \in DOMAIN o} = {Teams(m) : m \in ToSet(ms)}
    <3> HIDE DEF o, n, l
    <3> QED BY <1>3, <1>4
  <2> QED BY <2>1, <2>2 DEF AllTeams
<1>6. /\ DOMAIN map = 1 .. Cardinality(AllTeams(ms))
      /\ \A s, r \in DOMAIN map : map[s] = map[r] => s = r
  BY <1>3, <1>4, <1>5, SlotMapNumbersTheTeams
<1>7. \A i \in DOMAIN o : IsGood(o[i])
  BY <1>2, <1>3, <1>4
<1>8. /\ Len(plan) = n
      /\ \A i \in 1 .. n :
           /\ plan[i].red \in [1 .. A -> DOMAIN map] /\ plan[i].blue \in [1 .. A -> DOMAIN map]
           /\ \A j \in 1 .. A : /\ map[plan[i].red[j]] = o[i].red[j]
                                /\ map[plan[i].blue[j]] = o[i].blue[j]
  BY <1>3, <1>4, <1>7, SlotsNameTheTeams
<1>9. \A s \in DOMAIN map : made.count[s] = Cardinality(SurrogateSeats(ms, map[s]))
  BY <1>1, <1>5, CountsAreTheTeams
<1>10. \A i \in 1 .. n : o[i].red \in [1 .. A -> Int] /\ o[i].blue \in [1 .. A -> Int]
  BY <1>4, <1>7, TeamsApart
<1> HIDE DEF map, plan, o, n, l, A, made
<1>11. ASSUME NEW m \in ToSet(ms)
       PROVE  LET row == made.plan[m.num - l + 1] IN
              Named(row.red) = m.red /\ Named(row.blue) = m.blue
  <2> DEFINE i == m.num - l + 1
  <2>1. i \in 1 .. n /\ o[i] = m
    BY <1>3
  <2> HIDE DEF i
  <2>2. Named(plan[i].red) = m.red /\ Named(plan[i].blue) = m.blue
    BY <1>1, <1>8, <1>10, <2>1
  <2> QED BY <1>1, <2>2 DEF i
<1>12. IsInjective(made.map)
  BY <1>1, <1>6 DEF IsInjective
<1> QED BY <1>1, <1>6, <1>8, <1>9, <1>11, <1>12 DEF Reproduces, l, n, A, made

LEMMA BuiltIsSound ==
  ASSUME NEW read, Checked(read.matches), InRoster(read.matches, read.roster)
  PROVE  LET made == Built(read) IN
         /\ made.plan # <<>>
         /\ \A i \in DOMAIN made.plan :
              /\ Len(made.plan[i].red) = AllianceSize /\ Len(made.plan[i].blue) = AllianceSize
              /\ IsInjective(Playing(made, i))
              /\ read.roster # {} => Range(Playing(made, i)) \subseteq read.roster
<1> DEFINE ms == read.matches
           n == Len(ms)
           o == InOrder(ms)
           map == SlotMap(o)
           plan == Abstract(o, map)
           made == Built(read)
           A == AllianceSize
<1>1. made.map = map /\ made.plan = plan
  BY DEF Built
<1>2. ms \in MatchLists /\ ms # <<>> /\ NumbersRun(ms) /\ \A m \in ToSet(ms) : IsGood(m)
  BY DEF Checked
<1>3. o \in [1 .. n -> ToSet(ms)] /\ o \in MatchLists /\ Len(o) = n
  BY <1>2, OrderIsByNumber
<1>4. n \in Nat /\ n # 0 /\ DOMAIN o = 1 .. n /\ o # <<>>
  <2>1. ms \in Seq(Matches) /\ o \in Seq(Matches)
    BY <1>2, <1>3 DEF MatchLists
  <2>2. n \in Nat /\ n # 0
    BY <1>2, <2>1
  <2> HIDE DEF o, n
  <2>3. o # <<>> /\ DOMAIN o = 1 .. n
    BY <1>3, <2>1, <2>2
  <2> QED BY <2>2, <2>3
<1>5. \A i \in DOMAIN o : IsGood(o[i])
  BY <1>2, <1>3, <1>4
<1>6. /\ DOMAIN plan = 1 .. n
      /\ \A i \in 1 .. n :
           /\ plan[i].red \in [1 .. A -> DOMAIN map] /\ plan[i].blue \in [1 .. A -> DOMAIN map]
           /\ \A j \in 1 .. A : /\ map[plan[i].red[j]] = o[i].red[j]
                                /\ map[plan[i].blue[j]] = o[i].blue[j]
  BY <1>3, <1>4, <1>5, SlotsNameTheTeams
<1>7. A \in Nat /\ A # 0
  BY ImportsAssumption
<1>8. plan # <<>>
  <2>1. 1 \in DOMAIN plan
    BY <1>4, <1>6
  <2> QED BY <2>1
<1> HIDE DEF map, plan, o, n, A, made
<1>9. ASSUME NEW i \in 1 .. n
      PROVE  /\ Len(plan[i].red) = A /\ Len(plan[i].blue) = A
             /\ IsInjective(Playing(made, i))
             /\ read.roster # {} => Range(Playing(made, i)) \subseteq read.roster
  <2> DEFINE p == plan[i].red
             q == plan[i].blue
             m == o[i]
             s == m.red \o m.blue
             play == Playing(made, i)
  <2>1. IsGood(m)
    BY <1>4, <1>5
  <2>2. /\ m.red \in [1 .. A -> Int] /\ m.blue \in [1 .. A -> Int]
        /\ {s[j] : j \in 1 .. 2 * A} = Teams(m)
        /\ \A j, k \in 1 .. 2 * A : s[j] = s[k] => j = k
    BY <2>1, TeamsApart DEF A
  <2>3. /\ p \in Seq(DOMAIN map) /\ q \in Seq(DOMAIN map) /\ Len(p) = A /\ Len(q) = A
    BY <1>6, <1>7
  <2>4. \A j \in 1 .. 2 * A : (p \o q)[j] = IF j <= A THEN p[j] ELSE q[j - A]
    <3> HIDE DEF p, q
    <3>1. \A j \in 1 .. Len(p) + Len(q) :
            (p \o q)[j] = IF j <= Len(p) THEN p[j] ELSE q[j - Len(p)]
      BY <2>3
    <3>2. A + A = 2 * A
      BY <1>7
    <3> QED BY <2>3, <3>1, <3>2
  <2>5. \A j \in 1 .. 2 * A : s[j] = IF j <= A THEN m.red[j] ELSE m.blue[j - A]
    <3>1. m.red \in Seq(Int) /\ m.blue \in Seq(Int) /\ Len(m.red) = A /\ Len(m.blue) = A
      BY <1>7, <2>2
    <3>2. \A j \in 1 .. Len(m.red) + Len(m.blue) :
            s[j] = IF j <= Len(m.red) THEN m.red[j] ELSE m.blue[j - Len(m.red)]
      BY <3>1, JoinedEntries
    <3>3. A + A = 2 * A
      BY <1>7
    <3> HIDE DEF s, m
    <3> QED BY <3>1, <3>2, <3>3
  <2>6. play = [j \in 1 .. 2 * A |-> map[(p \o q)[j]]]
    BY <1>1 DEF Playing, A
  <2> HIDE DEF p, q, m, s, play
  <2>7. ASSUME NEW j \in 1 .. 2 * A PROVE play[j] = s[j]
    <3>1. CASE j <= A
      <4>1. j \in 1 .. A
        BY <1>7, <3>1
      <4>2. map[p[j]] = m.red[j]
        BY <1>6, <4>1 DEF p, m
      <4> QED BY <2>4, <2>5, <2>6, <3>1, <4>2
    <3>2. CASE ~(j <= A)
      <4>1. j - A \in 1 .. A
        BY <1>7, <3>2
      <4>2. map[q[j - A]] = m.blue[j - A]
        BY <1>6, <4>1 DEF q, m
      <4> QED BY <2>4, <2>5, <2>6, <3>2, <4>2
    <3> QED BY <3>1, <3>2
  <2>8. DOMAIN play = 1 .. 2 * A
    BY <2>6
  <2>9. IsInjective(play)
    BY <2>2, <2>7, <2>8 DEF IsInjective
  <2>10. Range(play) = Teams(m)
    BY <2>2, <2>7, <2>8 DEF Range
  <2>11. Teams(m) \subseteq AllTeams(ms)
    <3>1. m \in ToSet(ms)
      BY <1>3 DEF m
    <3>2. PICK k \in DOMAIN ms : m = ms[k]
      BY <3>1 DEF ToSet
    <3>3. Teams(m) \in {Teams(ms[j]) : j \in DOMAIN ms}
      BY <3>2
    <3> QED BY <3>3 DEF AllTeams
  <2>12. read.roster # {} => Teams(m) \subseteq read.roster
    BY <2>11 DEF InRoster
  <2> QED BY <2>3, <2>9, <2>10, <2>12 DEF p, q, play
<1> QED BY <1>1, <1>6, <1>8, <1>9 DEF made, A

LEMMA ConfirmedIsChecked ==
  ASSUME NEW read, Confirmed(read)
  PROVE  Checked(read.matches) /\ InRoster(read.matches, read.roster)
<1> DEFINE ms == read.matches
<1>1. ms \in MatchLists /\ Valid(ms, read.roster) /\ \A i \in DOMAIN ms : EnoughFlags(ms[i])
  BY DEF Confirmed, Refuses
<1>2. ms # <<>> /\ NumbersRun(ms) /\ InRoster(ms, read.roster)
  BY <1>1 DEF Valid
<1>3. \A i \in DOMAIN ms : FullAlliances(ms[i]) /\ NoTeamTwice(ms[i])
  BY <1>1 DEF Valid
<1>4. \A i \in DOMAIN ms : ms[i] \in Matches
  <2>1. ms \in Seq(Matches)
    BY <1>1 DEF MatchLists
  <2> QED BY <2>1
<1>5. \A m \in ToSet(ms) : IsGood(m)
  BY <1>1, <1>3, <1>4 DEF ToSet, IsGood
<1> QED BY <1>1, <1>2, <1>5 DEF Checked

\* Whatever was parsed, cached, overwritten and edited: what a commit writes is
\* the list it read, match by match in the order of the numbers, with one slot
\* per team and the surrogates counted, and full alliances of different teams
\* of the roster it read.
THEOREM WritesTheConfirmedList == Spec => []CommitsTheConfirmedList
<1>1. ASSUME Inv PROVE CommitsTheConfirmedList
  <2>1. ASSUME NEW c \in Clients, At(c, "written")
        PROVE  /\ Confirmed(reqs[c].read) /\ reqs[c].made = Built(reqs[c].read)
               /\ Checked(reqs[c].read.matches)
               /\ InRoster(reqs[c].read.matches, reqs[c].read.roster)
    <3>1. Confirmed(reqs[c].read) /\ reqs[c].made = Built(reqs[c].read)
      BY <1>1, <2>1 DEF Inv, RequestOK, At
    <3> QED BY <3>1, ConfirmedIsChecked
  <2>2. SlotsReproduceTheMatches
    BY <2>1, BuiltReproduces DEF SlotsReproduceTheMatches
  <2>3. CommittedIsSound
    BY <2>1, BuiltIsSound DEF CommittedIsSound
  <2> QED BY <2>2, <2>3 DEF CommitsTheConfirmedList
<1> QED BY <1>1, InvAlways, PTL
=============================================================================
