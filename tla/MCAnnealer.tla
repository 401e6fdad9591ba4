----------------------------- MODULE MCAnnealer -----------------------------
(* Instances of Annealer and Quality for TLC: alliances of two, six teams  *)
(* with a quota of three, hence five matches and two surrogates.           *)
EXTENDS Quality, TLC

CONSTANTS t1, t2, t3, t4, t5, t6

SixTeams == {t1, t2, t3, t4, t5, t6}

Match(s, sur) == [seats |-> s, sur |-> sur]

(* As Construction builds it: t1 and t2 play a fourth match, and their    *)
(* third is the surrogate one.  They are partners twice and several play   *)
(* back to back, so there is something to improve.                         *)
Repeats == <<Match(<<t1, t2, t3, t4>>, {}),  Match(<<t1, t2, t5, t6>>, {}),
             Match(<<t5, t3, t1, t4>>, {t1}), Match(<<t6, t3, t2, t5>>, {t2}),
             Match(<<t1, t4, t6, t2>>, {})>>

TwoEach == [x \in {"sa", "rb", "station"} |-> IF x = "sa" THEN 2 ELSE 1]
OddWeights ==
    [k \in {"cooldown", "partner", "opponent", "surrogate", "color", "station"} |->
        CASE k = "cooldown" -> 0 [] k = "partner" -> 70 [] k = "color" -> -200 [] OTHER -> 10]

(* The library's entry has more repeated partners than the floor allows and *)
(* is below the floor of stations, as one of another version may be.        *)
SomeBestKnown == [c \in {"partner", "station"} |-> IF c = "partner" THEN 14 ELSE 0]

StartWithRepeats == {Repeats}
=============================================================================
