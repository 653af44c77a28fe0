------------------------- MODULE MCRegistration -------------------------
(* Small instances of Registration for TLC.                               *)
EXTENDS Registration, TLC

CONSTANTS w1, w2, a1, l1

OnePage  == {w1}
TwoPages == {w1, w2}
OneTry   == {a1}
OneLogin == {l1}
Nobody   == {}
=============================================================================
