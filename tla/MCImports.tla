------------------------------ MODULE MCImports ------------------------------
EXTENDS Imports

CONSTANTS a, b, matchPdf, planPdf, longPdf, book

TwoClients == {a, b}
ThePdfs    == {matchPdf, planPdf, longPdf}
TheSheets  == {book}

M(num, red, blue, redSur, blueSur) ==
  [num |-> num, red |-> red, blue |-> blue, redSur |-> redSur, blueSur |-> blueSur]
No == <<FALSE, FALSE>>

\* Names in a reply: q1 to q3 are right; q2x misreads a team, q2s has a short
\* list of flags.
TheMatches ==
  [q1  |-> M(1, <<11, 12>>, <<13, 14>>, <<>>, <<>>),
   q2  |-> M(2, <<13, 15>>, <<12, 11>>, <<FALSE, TRUE>>, No),
   q2x |-> M(2, <<13, 15>>, <<12, 12>>, <<>>, <<>>),
   q2s |-> M(2, <<13, 15>>, <<12, 11>>, <<TRUE>>, <<>>),
   q3  |-> M(3, <<14, 11>>, <<15, 13>>, <<>>, <<>>)]

Item(name)          == [name |-> name, label |-> "x"]
Labelled(name, tok) == [name |-> name, label |-> tok]
MatchDoc(names) ==
  <<Text("format_detected", "x"), List("matches", [i \in DOMAIN names |-> Item(names[i])]),
    Text("notes", "x")>>
PlanDoc(tok) ==
  <<Text("format_detected", "x"), Object("event_dates"),
    List("blocks", <<Labelled("b1", tok), Item("b2"), Labelled("b3", tok)>>),
    List("raw_phases", <<Item("p1")>>), Text("notes", tok)>>

ThePdf ==
  (matchPdf :> [text |-> TRUE, program |-> FALSE, long |-> FALSE, planReplies |-> {},
                matchReplies |-> {MatchDoc(<<"q1", "q3", "q2">>), MatchDoc(<<"q2x", "q1">>), MatchDoc(<<"q1", "q2s">>)}])
  @@
  (longPdf :> [text |-> TRUE, program |-> FALSE, long |-> TRUE, planReplies |-> {},
               matchReplies |-> {}])
  @@
  (planPdf :> [text |-> FALSE, program |-> TRUE, long |-> FALSE,
               planReplies |-> {PlanDoc(tok) : tok \in {"x", "}"}}, matchReplies |-> {MatchDoc(<<"q2s">>)}])

Row(type, num, red, blue, sur) ==
  [type |-> type, num |-> num, red |-> red, blue |-> blue, surrogates |-> sur]
TheRows ==
  book :> << Row("practice", 1, <<11, Blank>>, <<12, 13>>, {}),
             Row("practice", 2, <<Blank, Blank>>, <<14, 15>>, {}),
             Row("qual", 5, <<15, 11>>, <<12, 13>>, {11}),
             Row("qual", Blank, <<15, 11>>, <<12, 13>>, {}),
             Row("qual", 4, <<14, 13>>, <<11, 12>>, {}),
             Row("qual", 6, <<Blank, Blank>>, <<Blank, Blank>>, {}) >>

OldRow == book :> Parsed("matches", RowsOf(book, "qual"), Absent)

Truth == (matchPdf :> <<TheMatches["q1"], TheMatches["q2"], TheMatches["q3"]>>)
         @@ (planPdf :> <<TheMatches["q1"]>>) @@ (longPdf :> <<>>)
         @@ (book :> <<M(4, <<14, 13>>, <<11, 12>>, <<>>, <<>>), M(7, <<11, 12>>, <<13, 0>>, No, No)>>)

TheRosters == {{}, {11, 12, 13, 14}}
=============================================================================
