------------------------------ MODULE LlmReply ------------------------------
(***************************************************************************)
(* What the server makes of a model's reply (app/llm_client.py).  The model *)
(* writes a JSON document from left to right and may stop anywhere: at      *)
(* max_tokens, or stuck in a loop.  A text is a sequence of tokens; a       *)
(* document is a sequence of fields in the order of the schema; json.loads  *)
(* accepts a text exactly when it spells a document.  Markdown fences,      *)
(* trailing commas and typographic quotes are left out.                     *)
(***************************************************************************)
EXTENDS Integers, Sequences, SequencesExt

CONSTANT Malformed          \* ValueError: no repair of the text parses

Quote == "quote"
NoText == <<>>

\* A field is a text, an object or a list; an item carries its team arrays and
\* one string, whose content may itself be a bracket.
Text(key, content) == [key |-> key, form |-> "text", items |-> <<>>, content |-> content]
Object(key)        == [key |-> key, form |-> "object", items |-> <<>>, content |-> "x"]
List(key, items)   == [key |-> key, form |-> "list", items |-> items, content |-> "x"]

Commas(parts) ==
  FlattenSeq([i \in DOMAIN parts |-> IF i = 1 THEN parts[i] ELSE <<",">> \o parts[i]])

SpellItem(item) == <<"{", "[", item.name, "]", ",", Quote, item.label, Quote, "}">>
SpellField(f) ==
  <<f.key>> \o (CASE f.form = "text"   -> <<Quote, f.content, Quote>>
                  [] f.form = "object" -> <<"{", "}">>
                  [] OTHER             -> <<"[">> \o Commas([i \in DOMAIN f.items |-> SpellItem(f.items[i])])
                                            \o <<"]">>)
Spell(doc) == <<"{">> \o Commas([i \in DOMAIN doc |-> SpellField(doc[i])]) \o <<"}">>

\* The documents a prefix of doc can be closed to.
Shortened(doc) ==
  {doc} \cup UNION { {SubSeq(doc, 1, k - 1) \o <<[doc[k] EXCEPT !.items = SubSeq(@, 1, j)]>> :
                        j \in 0..Len(doc[k].items)} : k \in DOMAIN doc }

\* json.loads on what a repair made of a prefix of doc.
Loads(doc, text) ==
  IF \E d \in Shortened(doc) : Spell(d) = text
  THEN CHOOSE d \in Shortened(doc) : Spell(d) = text
  ELSE Malformed

-----------------------------------------------------------------------------
Positions(text, token) == {i \in DOMAIN text : text[i] = token}
Least(S)    == CHOOSE i \in S : \A j \in S : i <= j
Greatest(S) == CHOOSE i \in S : \A j \in S : i >= j

\* The part from the first opening to the last closing brace.
Candidate(text) ==
  LET opens == Positions(text, "{")  closes == Positions(text, "}") IN
  IF opens = {} \/ closes = {} THEN NoText
  ELSE SubSeq(text, Least(opens), Greatest(closes))

\* One step of _truncate_to_last_complete_block: strings are skipped, "end" is
\* the last position that closed an element of the array.
\* Faulty: brackets in strings count.
Scan_NoStrings(s, token, i) ==
  IF s.closed THEN s
  ELSE CASE token = "{" -> [s EXCEPT !.depth = @ + 1]
         [] token = "}" -> [s EXCEPT !.depth = @ - 1, !.end = IF s.depth = 1 THEN i ELSE @]
         [] token = "]" /\ s.depth = 0 -> [s EXCEPT !.closed = TRUE]
         [] OTHER       -> s
Scan(s, token, i) ==
  IF s.closed THEN s
  ELSE IF s.quoted THEN [s EXCEPT !.quoted = token # Quote]
  ELSE CASE token = Quote -> [s EXCEPT !.quoted = TRUE]
         [] token = "{"   -> [s EXCEPT !.depth = @ + 1]
         [] token = "}"   -> [s EXCEPT !.depth = @ - 1, !.end = IF s.depth = 1 THEN i ELSE @]
         [] token = "]" /\ s.depth = 0 -> [s EXCEPT !.closed = TRUE]
         [] OTHER         -> s

LastCompleteBlock(text) ==
  LET marks == Positions(text, "blocks")
      opens == {i \in Positions(text, "[") : \A m \in marks : i > m}
      from  == Least(opens)
      walk  == FoldLeftDomain(LAMBDA s, i : IF i <= from THEN s ELSE Scan(s, text[i], i),
                              [depth |-> 0, quoted |-> FALSE, end |-> from, closed |-> FALSE], text)
  IN  IF marks = {} \/ opens = {} THEN NoText
      ELSE IF walk.closed THEN NoText
      ELSE SubSeq(text, 1, walk.end) \o <<"]", "}">>

\* _try_truncation_recovery counts the brackets, those in strings included, and
\* closes the arrays before the objects.  A candidate ends with a brace, so the
\* roll back to the last brace has nothing to do.
Count(text, token) == Len(SelectSeq(text, LAMBDA t : t = token))
CloseByCount(text) ==
  LET curly  == Count(text, "{") - Count(text, "}")
      square == Count(text, "[") - Count(text, "]")
  IN  IF text = NoText \/ curly < 0 \/ square < 0 \/ (curly = 0 /\ square = 0) THEN NoText
      ELSE text \o [i \in 1..square |-> "]"] \o [i \in 1..curly |-> "}"]

\* _parse_json_response: as it stands, then the two repairs.
ParseReply(doc, text) ==
  LET candidate == Candidate(text)
      tries == SelectSeq(<<Loads(doc, candidate), Loads(doc, LastCompleteBlock(candidate)),
                           Loads(doc, CloseByCount(candidate))>>, LAMBDA d : d # Malformed)
  IN  IF candidate = NoText \/ tries = <<>> THEN Malformed ELSE Head(tries)

\* parsed.get(key) or []
Items(doc, key) ==
  LET has == {i \in DOMAIN doc : doc[i].key = key} IN
  IF has = {} THEN <<>> ELSE doc[Least(has)].items

-----------------------------------------------------------------------------
\* The first n tokens of a reply, and the items written out before them.
Cut(doc, n) == SubSeq(Spell(doc), 1, n)
Written(doc, key, n) ==
  LET whole == {k \in 0..Len(Items(doc, key)) :
                  \E d \in Shortened(doc) :
                    /\ Len(Items(d, key)) = k
                    /\ d = <<>> \/ d[Len(d)].key = key
                    /\ Len(Spell(d)) - 2 <= n}
  IN  IF whole = {} THEN 0 ELSE Greatest(whole)

\* Whether the reply stops inside the list "key".
StopsInside(doc, key, n) ==
  LET open == {i \in Positions(Spell(doc), key) : i < n}
      d    == CHOOSE d \in Shortened(doc) : d[Len(d)].key = key /\ Items(d, key) = Items(doc, key)
  IN  open # {} /\ n < Len(Spell(d)) - 1

Brackets(doc) == \E i \in DOMAIN doc :
                   \/ doc[i].content \in {"{", "}", "[", "]"}
                   \/ \E j \in DOMAIN doc[i].items : doc[i].items[j].label \in {"{", "}", "[", "]"}

(* A cut reply is never misread: what parses holds exactly the items that    *)
(* were complete, in their order; and a reply cut inside its list is always  *)
(* repaired once one item is complete, whatever brackets the strings of a    *)
(* day plan hold (matches have none).                                        *)
Salvaged(doc, key, n) ==
  LET reply == ParseReply(doc, Cut(doc, n))
      k     == Written(doc, key, n)
  IN  /\ reply # Malformed => Items(reply, key) = SubSeq(Items(doc, key), 1, k)
      /\ StopsInside(doc, key, n) /\ k > 0 /\ (key = "blocks" \/ ~Brackets(doc)) => reply # Malformed
=============================================================================
