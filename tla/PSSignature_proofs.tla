------------------------ MODULE PSSignature_proofs ------------------------
(***************************************************************************)
(* Theorems about PSSignature over any field: what each prover of the      *)
(* library makes, its verifier accepts, and a blind signature verifies     *)
(* when its own factor is taken off and, unless trivial, only then.        *)
(***************************************************************************)
EXTENDS PSSignature, TLAPS

(***************************************************************************)
(* A field.                                                                *)
(***************************************************************************)

LEMMA Closed ==
  /\ Zero \in Scalar /\ One \in Scalar
  /\ \A a, b \in Scalar : a (+) b \in Scalar /\ a (.) b \in Scalar
  /\ \A a \in Scalar : Neg(a) \in Scalar /\ Inv(a) \in Scalar
  BY ClosureAssumption

\* The scalars that a fact about many of them speaks of.
Scalars(q) == q \in Seq(Scalar)

LEMMA SumCancels ==
  ASSUME NEW a \in Scalar, NEW b \in Scalar, NEW c \in Scalar, a (+) c = b (+) c
  PROVE  a = b
<1>1. (a (+) c) (+) Neg(c) = a (+) (c (+) Neg(c)) /\ (b (+) c) (+) Neg(c) = b (+) (c (+) Neg(c))
  BY Closed, SumAssumption
<1>2. a (+) (c (+) Neg(c)) = a /\ b (+) (c (+) Neg(c)) = b
  BY SumAssumption
<1> QED
  BY <1>1, <1>2

\* (a + b) + (c + d) in another order.
LEMMA SumSwaps ==
  ASSUME NEW a \in Scalar, NEW b \in Scalar, NEW c \in Scalar, NEW d \in Scalar
  PROVE  (a (+) b) (+) (c (+) d) = (a (+) c) (+) (b (+) d)
<1>1. (a (+) b) (+) (c (+) d) = a (+) (b (+) (c (+) d))
  BY Closed, SumAssumption
<1>2. b (+) (c (+) d) = (b (+) c) (+) d /\ (b (+) c) (+) d = (c (+) b) (+) d
  BY Closed, SumAssumption
<1>3. (c (+) b) (+) d = c (+) (b (+) d)
  BY Closed, SumAssumption
<1>4. a (+) (c (+) (b (+) d)) = (a (+) c) (+) (b (+) d)
  BY Closed, SumAssumption
<1> QED
  BY <1>1, <1>2, <1>3, <1>4

\* The last of three summands comes second.
LEMMA LastSecond ==
  ASSUME NEW a \in Scalar, NEW b \in Scalar, NEW c \in Scalar
  PROVE  (a (+) b) (+) c = (a (+) c) (+) b
  BY Closed, SumAssumption

LEMMA RightDistributes ==
  ASSUME NEW a \in Scalar, NEW b \in Scalar, NEW c \in Scalar
  PROVE  (a (+) b) (.) c = (a (.) c) (+) (b (.) c)
  BY Closed, ProductAssumption, DistributiveAssumption

LEMMA TimesZero == ASSUME NEW a \in Scalar PROVE a (.) Zero = Zero /\ Zero (.) a = Zero
<1>1. Zero (+) Zero = Zero
  BY Closed, SumAssumption
<1>2. a (.) Zero = (a (.) Zero) (+) (a (.) Zero)
  BY <1>1, Closed, DistributiveAssumption
<1>3. Zero (+) (a (.) Zero) = a (.) Zero
  BY Closed, SumAssumption
<1>4. Zero = a (.) Zero
  BY <1>2, <1>3, Closed, SumCancels
<1> QED
  BY <1>4, Closed, ProductAssumption

LEMMA TimesCancels ==
  ASSUME NEW a \in Scalar, NEW b \in Scalar, NEW c \in Scalar \ {Zero}, c (.) a = c (.) b
  PROVE  a = b
<1>1. ASSUME NEW x \in Scalar PROVE Inv(c) (.) (c (.) x) = x
  <2>1. Inv(c) (.) (c (.) x) = (Inv(c) (.) c) (.) x
    BY Closed, ProductAssumption
  <2>2. Inv(c) (.) c = One
    BY Closed, ProductAssumption
  <2>3. One (.) x = x
    BY Closed, ProductAssumption
  <2> QED
    BY <2>1, <2>2, <2>3
<1> QED
  BY <1>1

\* c * (a * b) with the factors in another order.
LEMMA TimesSwaps ==
  ASSUME NEW a \in Scalar, NEW b \in Scalar, NEW c \in Scalar
  PROVE  c (.) (a (.) b) = a (.) (c (.) b) /\ c (.) (a (.) b) = (c (.) a) (.) b
  BY Closed, ProductAssumption

(***************************************************************************)
(* Signatures.                                                             *)
(***************************************************************************)

\* PSVerify without its pairings.
LEMMA VerifyIff ==
  ASSUME NEW sigma \in Signatures, NEW A, NEW vk, vk.x (+) Combine(A, vk.y) \in Scalar
  PROVE  PSVerify(sigma, A, vk) <=> sigma.s2 = sigma.s1 (.) (vk.x (+) Combine(A, vk.y))
  BY Closed, ProductAssumption DEF PSVerify, Pair, Signatures

\* PSSign and PSVerify.
THEOREM SignedVerifies ==
  ASSUME NEW A, NEW sk, NEW r \in Scalar, sk.x \in Scalar, Combine(A, sk.y) \in Scalar
  PROVE  PSSign(A, sk, r) \in Signatures /\ PSVerify(PSSign(A, sk, r), A, sk)
<1>1. PSSign(A, sk, r) \in Signatures
  BY Closed DEF PSSign, Signatures
<1>2. ASSUME NEW x \in Scalar, NEW y \in Scalar
      PROVE  (x (.) r) (+) (y (.) r) = r (.) (x (+) y)
  <2>1. x (.) r = r (.) x /\ y (.) r = r (.) y
    BY ProductAssumption
  <2> QED
    BY <2>1, DistributiveAssumption
<1>3. PSSign(A, sk, r).s2 = PSSign(A, sk, r).s1 (.) (sk.x (+) Combine(A, sk.y))
  BY <1>2 DEF PSSign
<1> QED
  BY <1>1, <1>3, VerifyIff, Closed

\* RandomizeSig and what VerifyRandomizedSig compares: k times both sides, once t times
\* sigma.s1 is added to both.
THEOREM RandomizedIff ==
  ASSUME NEW sigma \in Signatures, NEW m, NEW k, NEW t, Scalars(<<m, k, t>>)
  PROVE  /\ RandomizeSig(sigma, k, t) \in Signatures
         /\ (RandomizeSig(sigma, k, t).s2 = RandomizeSig(sigma, k, t).s1 (.) (m (+) t))
              <=> sigma.s2 = sigma.s1 (.) m \/ k = Zero
<1>0. m \in Scalar /\ k \in Scalar /\ t \in Scalar
  BY DEF Scalars
<1> DEFINE s1 == sigma.s1
           s2 == sigma.s2
           u  == t (.) s1
<1>1. s1 \in Scalar /\ s2 \in Scalar /\ u \in Scalar /\ s1 (.) m \in Scalar
  BY <1>0, Closed DEF Signatures
<1>2. RandomizeSig(sigma, k, t) = [s1 |-> k (.) s1, s2 |-> k (.) (s2 (+) u)]
  BY DEF RandomizeSig
<1>3. (k (.) s1) (.) (m (+) t) = k (.) ((s1 (.) m) (+) u)
  <2>1. ASSUME NEW x \in Scalar
        PROVE  (k (.) x) (.) (m (+) t) = k (.) ((x (.) m) (+) (t (.) x))
    <3>1. (k (.) x) (.) (m (+) t) = k (.) (x (.) (m (+) t))
      BY <1>0, Closed, ProductAssumption
    <3>2. x (.) (m (+) t) = (x (.) m) (+) (x (.) t)
      BY <1>0, DistributiveAssumption
    <3>3. x (.) t = t (.) x
      BY <1>0, ProductAssumption
    <3> QED
      BY <3>1, <3>2, <3>3
  <2> QED
    BY <1>0, <1>1, <2>1
<1> HIDE DEF s1, s2, u
<1>4. k = Zero => k (.) (s2 (+) u) = k (.) ((s1 (.) m) (+) u)
  BY <1>0, <1>1, Closed, TimesZero
<1>5. k # Zero /\ k (.) (s2 (+) u) = k (.) ((s1 (.) m) (+) u) => s2 = s1 (.) m
  <2>1. k # Zero /\ k (.) (s2 (+) u) = k (.) ((s1 (.) m) (+) u) => s2 (+) u = (s1 (.) m) (+) u
    BY <1>0, <1>1, Closed, TimesCancels
  <2> QED
    BY <1>0, <1>1, <2>1, Closed, SumCancels
<1>6. RandomizeSig(sigma, k, t) \in Signatures
  BY <1>0, <1>1, <1>2, Closed DEF Signatures
<1>7. (k (.) (s2 (+) u) = (k (.) s1) (.) (m (+) t)) <=> s2 = s1 (.) m \/ k = Zero
  BY <1>3, <1>4, <1>5
<1> QED
  BY <1>2, <1>6, <1>7 DEF s1, s2

\* BlindSign and Unblind: with the factor of the request, and with no other one unless
\* the signature is trivial (getCredential relies on both).
THEOREM UnblindedIff ==
  ASSUME NEW sk, NEW m, NEW a, NEW d, NEW e, NEW r, NEW request,
         Scalars(<<sk.x, sk.y[1], m, a, d, e, r>>),
         request.C1 = d (+) m,
         NEW sigma, sigma = Unblind(BlindSign(sk, request, a, r), e)
  PROVE  /\ sigma \in Signatures /\ sigma.s1 = r
         /\ sigma.s2 = r (.) (sk.x (+) ((a (.) sk.y[1]) (+) m)) <=> d = e \/ r = Zero
<1>0. /\ sk.x \in Scalar /\ sk.y[1] \in Scalar /\ m \in Scalar /\ a \in Scalar
      /\ d \in Scalar /\ e \in Scalar /\ r \in Scalar
  BY DEF Scalars
<1> DEFINE n == sk.x (+) ((a (.) sk.y[1]) (+) m)
<1>1. a (.) sk.y[1] \in Scalar /\ n \in Scalar /\ r (.) n \in Scalar /\ r (.) d \in Scalar
  BY <1>0, Closed
<1>2. (sk.x (+) (d (+) m)) (+) (a (.) sk.y[1]) = n (+) d
  <2>1. ASSUME NEW x \in Scalar, NEW b \in Scalar
        PROVE  (x (+) (d (+) m)) (+) b = (x (+) (b (+) m)) (+) d
    <3>1. (x (+) (d (+) m)) (+) b = x (+) ((d (+) m) (+) b)
      BY <1>0, Closed, SumAssumption
    <3>2. (d (+) m) (+) b = (b (+) m) (+) d
      BY <1>0, Closed, SumAssumption
    <3>3. x (+) ((b (+) m) (+) d) = (x (+) (b (+) m)) (+) d
      BY <1>0, Closed, SumAssumption
    <3> QED
      BY <3>1, <3>2, <3>3
  <2> QED
    BY <1>0, <1>1, <2>1
<1>3. r (.) (n (+) d) = (r (.) n) (+) (r (.) d)
  BY <1>0, <1>1, DistributiveAssumption
<1>4. sigma = [s1 |-> r, s2 |-> ((r (.) n) (+) (r (.) d)) (+) Neg(e (.) r)]
  BY <1>2, <1>3 DEF Unblind, BlindSign
<1>5. sigma \in Signatures /\ sigma.s1 = r
  BY <1>0, <1>1, <1>4, Closed DEF Signatures
<1>6. ASSUME NEW u \in Scalar, NEW v \in Scalar, NEW w \in Scalar
      PROVE  ((u (+) v) (+) Neg(w) = u) <=> v = w
  <2>1. CASE v = w
    BY <2>1, Closed, SumAssumption
  <2>2. CASE (u (+) v) (+) Neg(w) = u
    <3>1. (v (+) Neg(w)) (+) u = Zero (+) u
      BY <2>2, Closed, SumAssumption
    <3>2. Neg(w) \in Scalar /\ v (+) Neg(w) \in Scalar /\ Zero \in Scalar
      BY Closed
    <3>3. v (+) Neg(w) = Zero
      BY <3>1, <3>2, SumCancels
    <3>4. w (+) Neg(w) = Zero
      BY SumAssumption
    <3>5. v = w
      BY <3>2, <3>3, <3>4, SumCancels
    <3> QED
      BY <2>2, <3>5
  <2> QED
    BY <2>1, <2>2
<1>7. (sigma.s2 = r (.) n) <=> r (.) d = e (.) r
  <2>1. e (.) r \in Scalar
    BY <1>0, Closed
  <2>2. (((r (.) n) (+) (r (.) d)) (+) Neg(e (.) r) = r (.) n) <=> r (.) d = e (.) r
    BY <1>0, <1>1, <1>6, <2>1
  <2> QED
    BY <1>4, <2>2
<1>8. e (.) r = r (.) e
  BY <1>0, ProductAssumption
<1>9. (r (.) d = r (.) e) <=> d = e \/ r = Zero
  BY <1>0, TimesCancels, TimesZero
<1> QED
  BY <1>5, <1>7, <1>8, <1>9

(***************************************************************************)
(* Proofs of knowledge.                                                    *)
(***************************************************************************)

\* The response c * x + r, checked against announcement and statement times Y.
LEMMA ResponseTimes ==
  ASSUME NEW x \in Scalar, NEW r \in Scalar, NEW c \in Scalar, NEW Y \in Scalar
  PROVE  ((c (.) x) (+) r) (.) Y = (c (.) (x (.) Y)) (+) (r (.) Y)
<1>1. c (.) x \in Scalar
  BY Closed
<1>2. ((c (.) x) (+) r) (.) Y = ((c (.) x) (.) Y) (+) (r (.) Y)
  BY <1>1, RightDistributes
<1>3. (c (.) x) (.) Y = c (.) (x (.) Y)
  BY ProductAssumption
<1> QED
  BY <1>2, <1>3

\* Two responses to c: the equation of ProveMultiExp and of each line of verifyPoK.
LEMMA TwoResponses ==
  ASSUME NEW x, NEW y, NEW r, NEW s, NEW c, NEW Y, Scalars(<<x, y, r, s, c, Y>>)
  PROVE  ((c (.) x) (+) r) (+) (((c (.) y) (+) s) (.) Y)
           = (r (+) (s (.) Y)) (+) (c (.) (x (+) (y (.) Y)))
<1>0. x \in Scalar /\ y \in Scalar /\ r \in Scalar /\ s \in Scalar /\ c \in Scalar /\ Y \in Scalar
  BY DEF Scalars
<1>1. ((c (.) y) (+) s) (.) Y = (c (.) (y (.) Y)) (+) (s (.) Y)
  BY <1>0, ResponseTimes
<1>2. ((c (.) x) (+) r) (+) ((c (.) (y (.) Y)) (+) (s (.) Y))
        = ((c (.) x) (+) (c (.) (y (.) Y))) (+) (r (+) (s (.) Y))
  <2>1. c (.) x \in Scalar /\ c (.) (y (.) Y) \in Scalar /\ s (.) Y \in Scalar
    BY <1>0, Closed
  <2> QED
    BY <1>0, <2>1, SumSwaps
<1>3. (c (.) x) (+) (c (.) (y (.) Y)) = c (.) (x (+) (y (.) Y))
  BY <1>0, Closed, DistributiveAssumption
<1>4. (c (.) (x (+) (y (.) Y))) (+) (r (+) (s (.) Y)) = (r (+) (s (.) Y)) (+) (c (.) (x (+) (y (.) Y)))
  BY <1>0, Closed, SumAssumption
<1> QED
  BY <1>1, <1>2, <1>3, <1>4

\* Prove and Verify.
THEOREM ProofsVerify ==
  ASSUME NEW x \in Scalar, NEW r \in Scalar, NEW c \in Scalar
  PROVE  Verify(Prove(x, r, c), c)
  BY Closed, SumAssumption DEF Verify, Prove

\* PrepareBlindSign and VerifyMultiExp: BlindSign goes through for every honest request.
THEOREM RequestsVerify ==
  ASSUME NEW h \in Scalar, NEW Y \in Scalar, NEW d \in Scalar, NEW r0 \in Scalar,
         NEW r1 \in Scalar, NEW c \in Scalar
  PROVE  VerifyMultiExp(Y, PrepareBlindSign(h, Y, d, r0, r1, c), c)
<1>1. Scalars(<<d, h, r0, r1, c, Y>>)
  BY DEF Scalars
<1> QED
  BY <1>1, TwoResponses DEF VerifyMultiExp, PrepareBlindSign, ProveMultiExp

\* AnoyCredPresent and VerifyAnoyCredPresent, for a signature randomized with the same t.
THEOREM PresentationsVerify ==
  ASSUME NEW sigma \in Signatures, NEW vk, vk.x \in Scalar, vk.y[1] \in Scalar,
         NEW t \in Scalar, NEW a \in Scalar, NEW r0 \in Scalar, NEW r1 \in Scalar, NEW c \in Scalar,
         sigma.s2 = sigma.s1 (.) (vk.x (+) (t (+) (a (.) vk.y[1])))
  PROVE  VerifyAnoyCredPresent(AnoyCredPresent(sigma, t, a, vk, r0, r1, c), vk, c)
<1>1. ASSUME NEW Y \in Scalar
      PROVE  ((c (.) t) (+) r0) (+) (((c (.) a) (+) r1) (.) Y)
               = (c (.) (t (+) (a (.) Y))) (+) (r0 (+) (r1 (.) Y))
  <2>1. ((c (.) t) (+) r0) (+) (((c (.) a) (+) r1) (.) Y)
          = (r0 (+) (r1 (.) Y)) (+) (c (.) (t (+) (a (.) Y)))
    <3>1. Scalars(<<t, a, r0, r1, c, Y>>)
      BY DEF Scalars
    <3> QED
      BY <3>1, TwoResponses
  <2>2. r0 (+) (r1 (.) Y) \in Scalar /\ c (.) (t (+) (a (.) Y)) \in Scalar
    BY Closed
  <2> QED
    BY <2>1, <2>2, SumAssumption
<1>2. sigma.s2 (.) One = sigma.s2
  BY ProductAssumption DEF Signatures
<1> QED
  BY <1>1, <1>2 DEF VerifyAnoyCredPresent, AnoyCredPresent, Pair

=============================================================================
