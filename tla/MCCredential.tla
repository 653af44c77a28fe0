--------------------------- MODULE MCCredential ---------------------------
(* Credential over a small prime field.                                   *)
EXTENDS Credential

CONSTANT P       \* the prime

MCScalar == 0..(P - 1)

MCPlus(a, b)  == (a + b) % P
MCTimes(a, b) == (a * b) % P
MCNeg(a)      == (P - a) % P
MCInv(a)      == IF a = 0 THEN 0 ELSE CHOOSE b \in MCScalar : (a * b) % P = 1

\* Two issuers, one of them with a zero in its key.
MCKeyPairs ==
  {[key1 |-> [x |-> 3, y |-> <<2>>], key2 |-> [x |-> 1, y |-> <<4, 2>>]],
   [key1 |-> [x |-> 1, y |-> <<4>>], key2 |-> [x |-> 2, y |-> <<0, 3>>]]}

MCDomains == {2}
MCDraws   == {0, 2, 4}
MCUsers   == {1, 4}
MCChallenges == {1, 3}

MCNonces ==
  {[q |-> 0, d |-> 0, qsk |-> 0, r1 |-> 0, r2 |-> 0, r3 |-> 0],
   [q |-> 2, d |-> 1, qsk |-> 3, r1 |-> 4, r2 |-> 2, r3 |-> 1]}
=============================================================================
