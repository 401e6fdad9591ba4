----------------------------- MODULE MCPlanStore -----------------------------
EXTENDS PlanStore

Brk(name, start, end) == [name |-> name, start |-> start, end |-> end]
Day(start, end, ct, changes, breaks, early) ==
  [start |-> start, end |-> end, ct |-> ct, changes |-> changes, breaks |-> breaks,
   earlyEnd |-> early]
Change(after, time) == [isStart |-> FALSE, after |-> after, time |-> time]
V1(practice, days, playoffs) ==
  [v |-> 1, ct |-> 3, buffer |-> 2, practice |-> practice, days |-> days, playoffs |-> playoffs]
V2(days) == [v |-> 2, ct |-> 3, buffer |-> 2, days |-> days]
W(start, end) == [start |-> start, end |-> end]

ThePractice == [start |-> 2, end |-> 12, ct |-> 0, changes |-> <<StartAt(4), Change(1, 3)>>,
                breaks |-> <<Brk("lunch", 6, 7), Brk("", 0, 0)>>]
TwoDays ==
  V1(ThePractice,
     << Day(1, 20, 0, <<Change(2, 4)>>,
            <<Brk("opening", 1, 2), Brk("lunch", 9, 11), Brk("awards ceremony", 20, 22)>>, 0),
        Day(2, 15, 4, <<StartAt(2), Change(5, 3)>>,
            <<Brk("setup", 5, 6), Brk("alliance selection", 15, 16), Brk("ceremony", 22, 23)>>, 2) >>,
     << [day |-> 1, start |-> 16, end |-> 22, ct |-> 5] >>)
OneDay ==
  [V1(NoPractice, << Day(1, 18, 0, <<>>, <<Brk("break", 6, 8), Brk("lunch", 12, 0), Brk("lunch", 9, 11)>>, 0) >>,
      << [day |-> 0, start |-> 18, end |-> 24, ct |-> 0] >>) EXCEPT !.buffer = 0]

LeafAt(type, name, start, end) == Leaf(type, Brk(name, start, end), "")
Mixed ==
  V2(<< << MatchBlock("practice", W(1, 5), 2, <<>>, <<>>) >>,
        << LeafAt("ceremony", "opening", 1, 2),
           MatchBlock("practice", W(2, 6), 0, <<[after |-> 1, time |-> 2]>>,
                      <<LeafAt("break", "break", 3, 4)>>),
           MatchBlock("qualification", W(8, 12), 3, <<>>, <<>>),
           MatchBlock("qualification", W(15, 20), 2, <<>>, <<>>),
           LeafAt("break", "lunch", 12, 15),
           MatchBlock("playoff", W(20, 24), 0, <<>>, <<>>) >> >>)
Malformed ==
  V2(<< << MatchBlock("qualification", W(2, 9), 3, <<>>,
             <<MatchBlock("practice", W(3, 4), 2, <<>>, <<>>)>>) >> >>)
Shuffled == V2(<< << MatchBlock("qualification", W(9, 9), 3, <<>>, <<>>) >>, <<>> >>)

MCOldPlans == {TwoDays, OneDay}
MCTyped == {OneDay, TwoDays, Mixed, Malformed, Shuffled}

B(kind, day, start, end) == [kind |-> kind, day |-> day, start |-> start, end |-> end, name |-> ""]
MCDayPlanFiles ==
  {<<B("qual", 1, 2, 8), B("qual", 1, 2, 8)>> \o x :
     x \in {<<>>, <<B("qual", 1, 10, 16)>>, <<B("practice", 0, 3, 6)>>}
   } \cup
  {<<p, B("lunch", 1, 8, 9), B("qual", 1, 2, 8), q, B("playoff", d, 12, 20),
     B("ceremony", 1, IF d = 1 THEN 0 ELSE 11, 14)>> :
     p \in {B("practice", 0, 3, 6), B("qual", 0, 1, 9)}, d \in 0 .. 2,
     q \in {B("qual", 1, 9, 15), B("qual", 2, 5, 12), B("qual", 1, 0, 15)}}

TimesFrom(d) == [k \in 1 .. Len(d) |-> FoldLeft(LAMBDA t, x : t + x, 1, SubSeq(d, 1, k))]
MCMatchFiles ==
  {[times |-> TimesFrom(<<a, b, c, d>>), practice |-> <<>>] :
     a \in {1}, b \in {1, 5}, c \in {2, 5, 0 - 1}, d \in {2, 6}}
  \cup {[times |-> <<3, 0, 5, 7>>, practice |-> p] : p \in {<<>>, <<1, 3>>, <<4>>, <<0, 0>>}}
  \cup {[times |-> t, practice |-> <<>>] : t \in {<<3, 36, 39>>, <<3, 38, 47>>}}
=============================================================================
