------------------------- MODULE MCRefreshRatchet -------------------------
(* Small instances of RefreshRatchet for TLC.                              *)
EXTENDS RefreshRatchet, TLC

CONSTANTS q1, q2, q3, q4, q5, r1, r2

OneRP        == {r1}
TwoRPs       == {r1, r2}
TwoRequests  == {q1, q2}
ThreeRequests == {q1, q2, q3}
FiveRequests == {q1, q2, q3, q4, q5}

NoFaults     == {}
LinkFaults   == {"expiry", "dropRequest", "loseAnswer"}

\* Requests are used once each and no operator tells one from another, nor RPs.
Symmetric    == Permutations(Requests) \cup Permutations(RPs)
===========================================================================
