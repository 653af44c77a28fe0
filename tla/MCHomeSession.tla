--------------------------- MODULE MCHomeSession ---------------------------
(* Small instances of HomeSession for TLC.                                *)
EXTENDS HomeSession, TLC

CONSTANTS l1, l2, r1, u1, u2

TwoLogins  == {l1, l2}
OneRefresh == {r1}
TwoUsers   == {u1, u2}

\* No operator tells accounts, or logins, apart.
Symmetric == Permutations(Users) \cup Permutations(Logins)
=============================================================================
