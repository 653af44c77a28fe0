---------------------------- MODULE MCAakaLogin ----------------------------
(* Small instances of AakaLogin for TLC.                                  *)
EXTENDS AakaLogin, TLC

CONSTANTS t1, t2, p1, p2, alice, bob

OneTab     == {t1}
TwoTabs    == {t1, t2}
OnePost    == {p1}
TwoPosts   == {p1, p2}
OneUser    == {alice}
TwoUsers   == {alice, bob}

NoFaults   == {}
Reuse      == {"stateReused"}

\* Tabs, posts and users are named but never told apart.
Symmetric  == Permutations(Tabs) \cup Permutations(Posts) \cup Permutations(Users)
===========================================================================
