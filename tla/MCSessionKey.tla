--------------------------- MODULE MCSessionKey ---------------------------
(* Small instances of SessionKey for TLC.                                 *)
EXTENDS SessionKey, TLC

CONSTANTS s1, s2, s3

ThreeSessions == {s1, s2, s3}

\* No operator tells one session from another.
Symmetric == Permutations(Sessions)
=============================================================================
