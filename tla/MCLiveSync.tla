----------------------------- MODULE MCLiveSync -----------------------------
(***************************************************************************)
(* Instances of LiveSync for TLC: which requests are made, how many at a    *)
(* time.                                                                    *)
(***************************************************************************)
EXTENDS LiveSync

CONSTANTS r1, r2, m1

TwoRequests == {r1, r2}
OneMatch    == {m1}

AllOps  == {"view", "start", "stop", "nexus"}
=============================================================================
