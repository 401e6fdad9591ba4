--------------------------- MODULE MCConstruction ---------------------------
(* Instances of Construction for TLC: rosters of five and of six, with     *)
(* quotas on both sides of the switch to the FIRST model (3), with and     *)
(* without a surplus.  t1..t5 are interchangeable in every shape.          *)
EXTENDS Construction, TLC

CONSTANTS t1, t2, t3, t4, t5, t6, t7

Five == {t1, t2, t3, t4, t5}
Six  == Five \cup {t6}

Seven == Six \cup {t7}

MixedShapes == ({Five} \X (1 .. 5)) \cup ({Six} \X (1 .. 3)) \cup {<<Seven, 2>>}
Interchangeable == Permutations(Five)
=============================================================================
