---------------------------- MODULE PSSignature ----------------------------
(***************************************************************************)
(* Pointcheval-Sanders signatures, the anonymous credentials over them and *)
(* the Schnorr proofs of the library (lib/PSSig.go, anonyCred.go, NIZK.go). *)
(*                                                                         *)
(* A group element is its discrete logarithm: adding points is (+),        *)
(* multiplying a point by a scalar is (.), and so is pairing, which        *)
(* multiplies the logarithms.  The scalars are any field.  What the code   *)
(* draws at random is a parameter; so is a Fiat-Shamir challenge, a hash   *)
(* that prover and verifier compute of the same points.  Keys sign one     *)
(* attribute or two, the only sizes the servers make.                      *)
(***************************************************************************)
EXTENDS Naturals, Sequences

CONSTANTS Scalar, Zero, One,
          Plus(_, _), Times(_, _), Neg(_), Inv(_)

a (+) b == Plus(a, b)
a (.) b == Times(a, b)

\* BLS12-381's scalars are a prime field.
ASSUME ClosureAssumption ==
  /\ Zero \in Scalar /\ One \in Scalar /\ Zero # One
  /\ \A a, b \in Scalar : a (+) b \in Scalar /\ a (.) b \in Scalar
  /\ \A a \in Scalar : Neg(a) \in Scalar /\ Inv(a) \in Scalar
ASSUME SumAssumption ==
  /\ \A a, b \in Scalar : a (+) b = b (+) a
  /\ \A a, b, c \in Scalar : (a (+) b) (+) c = a (+) (b (+) c)
  /\ \A a \in Scalar : a (+) Zero = a /\ a (+) Neg(a) = Zero
ASSUME ProductAssumption ==
  /\ \A a, b \in Scalar : a (.) b = b (.) a
  /\ \A a, b, c \in Scalar : (a (.) b) (.) c = a (.) (b (.) c)
  /\ \A a \in Scalar : a (.) One = a /\ (a # Zero => a (.) Inv(a) = One)
ASSUME DistributiveAssumption ==
  \A a, b, c \in Scalar : a (.) (b (+) c) = (a (.) b) (+) (a (.) c)

Signatures == [s1 : Scalar, s2 : Scalar]

\* A key for n attributes: the secret scalars, which are also the logarithms of X, of
\* Xhat, Yn and Yhatn.
Keys(n) == [x : Scalar, y : [1..n -> Scalar]]

Pair(a, b) == a (.) b

\* The attributes, each times its part of the key.
Combine(A, y) ==
  IF Len(A) = 1 THEN A[1] (.) y[1] ELSE (A[1] (.) y[1]) (+) (A[2] (.) y[2])

-----------------------------------------------------------------------------
(* lib/PSSig.go.                                                           *)

PSSign(A, sk, r) == [s1 |-> r, s2 |-> (sk.x (.) r) (+) (Combine(A, sk.y) (.) r)]

PSVerify(sigma, A, vk) == Pair(sigma.s2, One) = Pair(sigma.s1, vk.x (+) Combine(A, vk.y))

RandomizeLeft(sigma, k, t) ==    \* mutant of RandomizeSig: t does not go into s2
  [s1 |-> k (.) sigma.s1, s2 |-> k (.) sigma.s2]

RandomizeSig(sigma, k, t) ==
  [s1 |-> k (.) sigma.s1, s2 |-> k (.) (sigma.s2 (+) (t (.) sigma.s1))]

VerifyRandomizedSig(sigma, t, A, vk) ==
  Pair(sigma.s1, (vk.x (+) Combine(A, vk.y)) (+) t) = Pair(sigma.s2, One)

-----------------------------------------------------------------------------
(* lib/NIZK.go: knowledge of one exponent, and of the two of g^a * Y^b.    *)

ProveUnmasked(x, r, c) == [p |-> x, r |-> r, z |-> c (.) x]    \* mutant of Prove: r forgotten

Prove(x, r, c) == [p |-> x, r |-> r, z |-> (c (.) x) (+) r]

Verify(proof, c) == proof.z = proof.r (+) (c (.) proof.p)

ProveOneMask(alpha, beta, C, Y, r0, r1, c) ==    \* mutant of ProveMultiExp: r0 for r1 in z1
  [C1 |-> C, R1 |-> r0 (+) (r1 (.) Y), z0 |-> (c (.) alpha) (+) r0, z1 |-> (c (.) beta) (+) r0]

ProveMultiExp(alpha, beta, C, Y, r0, r1, c) ==
  [C1 |-> C, R1 |-> r0 (+) (r1 (.) Y), z0 |-> (c (.) alpha) (+) r0, z1 |-> (c (.) beta) (+) r1]

VerifyMultiExp(Y, proof, c) ==
  proof.z0 (+) (proof.z1 (.) Y) = proof.R1 (+) (c (.) proof.C1)

-----------------------------------------------------------------------------
(* lib/anonyCred.go: the second attribute is hidden, the first is public.  *)

PrepareBlindSign(h, Y, d, r0, r1, c) == ProveMultiExp(d, h, d (+) (h (.) Y), Y, r0, r1, c)

BlindSign(sk, request, a, r) ==
  [s1 |-> r, s2 |-> r (.) ((sk.x (+) request.C1) (+) (a (.) sk.y[1]))]

Unblinded(hatSigma, d) ==        \* mutant of Unblind: the negation is forgotten
  [s1 |-> hatSigma.s1, s2 |-> hatSigma.s2 (+) (d (.) hatSigma.s1)]

Unblind(hatSigma, d) ==
  [s1 |-> hatSigma.s1, s2 |-> hatSigma.s2 (+) Neg(d (.) hatSigma.s1)]

\* A showing of a credential on one hidden attribute.
AnoyCredPresent(sigma, t, a, vk, r0, r1, c) ==
  [sigma |-> sigma, C |-> t (+) (a (.) vk.y[1]), R |-> r0 (+) (r1 (.) vk.y[1]),
   z0 |-> (c (.) t) (+) r0, z1 |-> (c (.) a) (+) r1]

VerifyAnoyCredPresent(ap, vk, c) ==
  /\ ap.z0 (+) (ap.z1 (.) vk.y[1]) = (c (.) ap.C) (+) ap.R
  /\ Pair(ap.sigma.s2, One) = Pair(ap.sigma.s1, vk.x (+) ap.C)

=============================================================================
