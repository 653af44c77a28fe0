------------------------- MODULE Credential_proofs -------------------------
(***************************************************************************)
(* Theorems about Credential over any field and for any draws: the seven   *)
(* invariants of its run.  Their shared induction says how each signature  *)
(* came about; what that makes of it is in PSSignature_proofs.             *)
(***************************************************************************)
EXTENDS Credential, PSSignature_proofs

\* What PSVerify multiplies s1 by.
M1 == key.key1.x (+) (domain (.) key.key1.y[1])
M2 == key.key2.x (+) ((domain (.) key.key2.y[1]) (+) (isk (.) key.key2.y[2]))

SigmaValid    == sigma.s2 = sigma.s1 (.) M1
SigmaBarValid == sigmaBar.s2 = sigmaBar.s1 (.) M2

\* How the state came about.
Asked  == stage \in {"asked", "issued"} =>
            request.proof.C1 = request.d (+) (isk (.) key.key2.y[2])
Issued == stage = "issued" =>
            \E u \in Draws : sigmaBar = BlindSign(key.key2, request.proof, domain, u)
Taken  == stage # "issued" => (SigmaBarValid <=> own \/ sigmaBar.s1 = Zero)
Acids  == stage \in {"acid", "proven"} => acid.sig = RandomizeSig(sigma, acid.k, acid.t)
Seen   == \A p \in seen : p.uid_rp = IF p.lost THEN Zero ELSE p.uid (.) sigma.s1

CInv ==
  /\ TypeOK
  /\ SigmaValid /\ Asked /\ Issued /\ Taken /\ Acids /\ Seen
  /\ RequestsGranted /\ AcceptedIffValid /\ ShowingsVerify

LEMMA Drawn ==
  /\ \A d \in Draws \cup Domains \cup Challenges \cup Users : d \in Scalar
  /\ \A n \in Nonces : /\ n.q \in Scalar /\ n.d \in Scalar /\ n.qsk \in Scalar
                       /\ n.r1 \in Scalar /\ n.r2 \in Scalar /\ n.r3 \in Scalar
  BY DrawAssumption

LEMMA Typed ==
  ASSUME key \in KeyPairs, domain \in Domains, isk \in Draws
  PROVE  /\ key.key1.x \in Scalar /\ key.key1.y[1] \in Scalar
         /\ key.key2.x \in Scalar /\ key.key2.y[1] \in Scalar /\ key.key2.y[2] \in Scalar
         /\ domain \in Scalar /\ isk \in Scalar
         /\ domain (.) key.key1.y[1] \in Scalar
         /\ domain (.) key.key2.y[1] \in Scalar /\ isk (.) key.key2.y[2] \in Scalar
         /\ M1 \in Scalar /\ M2 \in Scalar
<1>1. /\ key.key1.x \in Scalar /\ key.key1.y \in [1..1 -> Scalar]
      /\ key.key2.x \in Scalar /\ key.key2.y \in [1..2 -> Scalar]
  BY DrawAssumption DEF Keys
<1>2. key.key1.y[1] \in Scalar /\ key.key2.y[1] \in Scalar /\ key.key2.y[2] \in Scalar
  BY <1>1
<1>3. domain \in Scalar /\ isk \in Scalar
  BY DrawAssumption
<1>4. /\ domain (.) key.key1.y[1] \in Scalar
      /\ domain (.) key.key2.y[1] \in Scalar /\ isk (.) key.key2.y[2] \in Scalar
  BY <1>2, <1>3, Closed
<1> QED
  BY <1>1, <1>2, <1>3, <1>4, Closed DEF M1, M2

\* PSVerify without pairings.
LEMMA Verdicts ==
  ASSUME TypeOK
  PROVE  (DomainCredVerifies <=> SigmaValid) /\ (SecretCredVerifies <=> SigmaBarValid)
<1>1. M1 \in Scalar /\ M2 \in Scalar
  BY Typed DEF TypeOK
<1>2. key.key1.x (+) Combine(<<domain>>, key.key1.y) = M1
  BY DEF Combine, M1
<1>3. key.key2.x (+) Combine(<<domain, isk>>, key.key2.y) = M2
  BY DEF Combine, M2
<1>4. sigma \in Signatures /\ sigmaBar \in Signatures
  BY DEF TypeOK
<1>5. DomainCredVerifies <=> SigmaValid
  BY <1>1, <1>2, <1>4, VerifyIff DEF DomainCredVerifies, SigmaValid
<1>6. SecretCredVerifies <=> SigmaBarValid
  BY <1>1, <1>3, <1>4, VerifyIff DEF SecretCredVerifies, SigmaBarValid
<1> QED
  BY <1>5, <1>6

LEMMA NoSigTyped == NoSig \in Signatures /\ NoSig.s1 = Zero /\ NoSig.s2 = Zero
  BY Closed DEF NoSig, Signatures

LEMMA InitCInv == Init => CInv
<1> SUFFICES ASSUME Init PROVE CInv
  OBVIOUS
<1>1. M1 \in Scalar /\ M2 \in Scalar
  BY Typed DEF Init
<1>2. TypeOK
  BY NoSigTyped, Closed DEF Init, TypeOK, NoRequest, NoAcid, NoProof
<1>3. Zero = Zero (.) M1 /\ Zero = Zero (.) M2
  BY <1>1, TimesZero
<1>4. SigmaValid /\ SigmaBarValid
  BY <1>3, NoSigTyped DEF Init, SigmaValid, SigmaBarValid
<1> QED
  BY <1>2, <1>4, NoSigTyped
  DEF Init, CInv, Asked, Issued, Taken, Acids, Seen, RequestsGranted, AcceptedIffValid, ShowingsVerify

(***************************************************************************)
(* Registration.                                                           *)
(***************************************************************************)

LEMMA AskCInv == CInv /\ Ask => CInv'
<1> SUFFICES ASSUME CInv, Ask PROVE CInv'
  OBVIOUS
<1> DEFINE Y == key.key2.y[2]
<1>1. PICK d \in Draws, n \in Nonces, c \in Challenges :
        request' = [proof |-> PrepareBlindSign(isk, Y, d, n.r1, n.r2, c), d |-> d, c |-> c]
  BY DEF Ask
<1>2. /\ d \in Scalar /\ n.r1 \in Scalar /\ n.r2 \in Scalar /\ c \in Scalar
      /\ Y \in Scalar /\ isk \in Scalar
  BY Drawn, Typed DEF CInv, TypeOK
<1>3. /\ request'.proof = [C1 |-> d (+) (isk (.) Y), R1 |-> n.r1 (+) (n.r2 (.) Y),
                           z0 |-> (c (.) d) (+) n.r1, z1 |-> (c (.) isk) (+) n.r2]
      /\ request'.d = d /\ request'.c = c
  BY <1>1 DEF PrepareBlindSign, ProveMultiExp
<1>4. request' \in [proof : [C1 : Scalar, R1 : Scalar, z0 : Scalar, z1 : Scalar],
                    d : Scalar, c : Scalar]
  <2>1. /\ d (+) (isk (.) Y) \in Scalar /\ n.r1 (+) (n.r2 (.) Y) \in Scalar
        /\ (c (.) d) (+) n.r1 \in Scalar /\ (c (.) isk) (+) n.r2 \in Scalar
    BY <1>2, Closed
  <2> QED
    BY <1>1, <1>2, <2>1 DEF PrepareBlindSign, ProveMultiExp
<1>5. VerifyMultiExp(Y, request'.proof, request'.c)
  BY <1>1, <1>2, RequestsVerify
<1>6. /\ UNCHANGED <<key, domain, isk, sigma, sigmaBar, own, acid, proof, seen>>
      /\ stage' = "asked" /\ shown' = {} /\ stage # "issued"
  BY DEF Ask, credVars
<1>7. TypeOK'
  BY <1>4, <1>6 DEF CInv, TypeOK
<1>8. SigmaValid' /\ Taken'
  BY <1>6 DEF CInv, SigmaValid, Taken, SigmaBarValid, M1, M2
<1> QED
  BY <1>3, <1>5, <1>6, <1>7, <1>8
  DEF CInv, Asked, Issued, Acids, Seen, RequestsGranted, AcceptedIffValid, ShowingsVerify

LEMMA IssueCInv == CInv /\ Issue => CInv'
<1> SUFFICES ASSUME CInv, Issue PROVE CInv'
  OBVIOUS
<1>1. PICK u1 \in Draws, u2 \in Draws :
        /\ sigma' = PSSign(<<domain>>, key.key1, u1)
        /\ sigmaBar' = BlindSign(key.key2, request.proof, domain, u2)
  BY DEF Issue
<1>2. /\ UNCHANGED <<key, domain, isk, own, request, acid, proof, shown>>
      /\ stage = "asked" /\ stage' = "issued" /\ seen' = {}
  BY DEF Issue
<1>3. /\ u1 \in Scalar /\ u2 \in Scalar /\ request.proof.C1 \in Scalar
  BY Drawn DEF CInv, TypeOK
<1>4. /\ key.key1.x \in Scalar /\ Combine(<<domain>>, key.key1.y) \in Scalar
      /\ key.key2.x \in Scalar /\ domain (.) key.key2.y[1] \in Scalar
      /\ M1 \in Scalar /\ M1 = key.key1.x (+) Combine(<<domain>>, key.key1.y)
  BY Typed DEF CInv, TypeOK, Combine, M1
<1>5. sigma' \in Signatures /\ sigma'.s2 = sigma'.s1 (.) M1
  BY <1>1, <1>3, <1>4, SignedVerifies, VerifyIff
<1>6. sigmaBar' \in Signatures
  BY <1>1, <1>3, <1>4, Closed DEF BlindSign, Signatures
<1>7. TypeOK'
  BY <1>2, <1>5, <1>6 DEF CInv, TypeOK
<1>8. SigmaValid' /\ Asked' /\ Issued'
  BY <1>1, <1>2, <1>5 DEF CInv, SigmaValid, M1, Asked, Issued
<1> QED
  BY <1>2, <1>7, <1>8
  DEF CInv, Taken, Acids, Seen, RequestsGranted, AcceptedIffValid, ShowingsVerify

LEMMA TakeCInv == CInv /\ TakeCredentials => CInv'
<1> SUFFICES ASSUME CInv, TakeCredentials PROVE CInv'
  OBVIOUS
<1>1. PICK d \in Draws : sigmaBar' = Unblind(sigmaBar, d) /\ own' = (d = request.d)
  BY DEF TakeCredentials
<1>2. /\ UNCHANGED <<key, domain, isk, sigma, acid, proof, shown, seen>>
      /\ stage = "issued" /\ stage' = "idle" /\ request' = NoRequest
  BY DEF TakeCredentials
<1>3. PICK u \in Draws : sigmaBar = BlindSign(key.key2, request.proof, domain, u)
  BY <1>2 DEF CInv, Issued
<1>4. /\ d \in Scalar /\ u \in Scalar /\ request.d \in Scalar
      /\ key.key2.x \in Scalar /\ key.key2.y[1] \in Scalar /\ domain \in Scalar
      /\ isk (.) key.key2.y[2] \in Scalar
  BY Drawn, Typed DEF CInv, TypeOK
<1>5. request.proof.C1 = request.d (+) (isk (.) key.key2.y[2])
  BY <1>2 DEF CInv, Asked
<1>6. /\ sigmaBar' \in Signatures /\ sigmaBar'.s1 = u
      /\ (sigmaBar'.s2 = u (.) M2) <=> request.d = d \/ u = Zero
  <2>1. PICK m \in Scalar : m = isk (.) key.key2.y[2]
    BY <1>4
  <2>2. sigmaBar' = Unblind(BlindSign(key.key2, request.proof, domain, u), d)
    BY <1>1, <1>3
  <2>3. Scalars(<<key.key2.x, key.key2.y[1], m, domain, request.d, d, u>>)
    BY <1>4, <2>1 DEF Scalars
  <2> QED
    BY <1>5, <2>1, <2>2, <2>3, UnblindedIff DEF M2
<1>7. SigmaValid' /\ Taken'
  BY <1>1, <1>2, <1>6 DEF CInv, SigmaValid, Taken, SigmaBarValid, M1, M2
<1>8. TypeOK'
  BY <1>1, <1>2, <1>6, Closed DEF CInv, TypeOK, NoRequest
<1> QED
  BY <1>2, <1>7, <1>8
  DEF CInv, Asked, Issued, Acids, Seen, RequestsGranted, AcceptedIffValid, ShowingsVerify

(***************************************************************************)
(* Logins.                                                                 *)
(***************************************************************************)

LEMMA RandomizeCInv == CInv /\ Randomize => CInv'
<1> SUFFICES ASSUME CInv, Randomize PROVE CInv'
  OBVIOUS
<1>1. PICK k \in Draws, t \in Draws : acid' = [sig |-> RandomizeSig(sigma, k, t), k |-> k, t |-> t]
  BY DEF Randomize
<1>2. /\ UNCHANGED <<key, domain, isk, sigma, sigmaBar, own, request, proof, seen>>
      /\ stage = "idle" /\ stage' = "acid" /\ shown' = {}
  BY DEF Randomize, credVars
<1>3. k \in Scalar /\ t \in Scalar /\ sigma \in Signatures
  BY Drawn DEF CInv, TypeOK
<1>4. RandomizeSig(sigma, k, t) \in Signatures
  <2>1. Scalars(<<Zero, k, t>>)
    BY <1>3, Closed DEF Scalars
  <2> QED
    BY <1>3, <2>1, RandomizedIff
<1>5. TypeOK'
  BY <1>1, <1>2, <1>3, <1>4 DEF CInv, TypeOK
<1>6. SigmaValid' /\ Taken' /\ Acids'
  BY <1>1, <1>2 DEF CInv, SigmaValid, Taken, SigmaBarValid, M1, M2, Acids
<1> QED
  BY <1>2, <1>5, <1>6
  DEF CInv, Asked, Issued, Seen, RequestsGranted, AcceptedIffValid, ShowingsVerify

\* The three summands of C2 and R2: verifyPoK's second equation.
LEMMA ThreeResponses ==
  ASSUME NEW x, NEW y, NEW z, NEW r, NEW s, NEW q, NEW c, NEW Y, NEW Z,
         Scalars(<<x, y, z, r, s, q, c, Y, Z>>)
  PROVE  (((c (.) x) (+) r) (+) (((c (.) y) (+) s) (.) Y)) (+) (((c (.) z) (+) q) (.) Z)
           = ((r (+) (s (.) Y)) (+) (q (.) Z)) (+) (c (.) ((x (+) (y (.) Y)) (+) (z (.) Z)))
<1>0. /\ x \in Scalar /\ y \in Scalar /\ z \in Scalar /\ r \in Scalar /\ s \in Scalar
      /\ q \in Scalar /\ c \in Scalar /\ Y \in Scalar /\ Z \in Scalar
  BY DEF Scalars
<1> DEFINE A == r (+) (s (.) Y)
           B == x (+) (y (.) Y)
           C == c (.) (z (.) Z)
           D == q (.) Z
<1>1. A \in Scalar /\ B \in Scalar /\ C \in Scalar /\ D \in Scalar /\ c (.) B \in Scalar
      /\ z (.) Z \in Scalar
  BY <1>0, Closed
<1>2. ((c (.) x) (+) r) (+) (((c (.) y) (+) s) (.) Y) = A (+) (c (.) B)
  <2>1. Scalars(<<x, y, r, s, c, Y>>)
    BY <1>0 DEF Scalars
  <2> QED
    BY <2>1, TwoResponses
<1>3. ((c (.) z) (+) q) (.) Z = D (+) C
  <2>1. ((c (.) z) (+) q) (.) Z = C (+) D
    BY <1>0, ResponseTimes
  <2> QED
    BY <1>0, <1>1, <2>1, SumAssumption
<1>4. c (.) (B (+) (z (.) Z)) = (c (.) B) (+) C
  BY <1>0, <1>1, DistributiveAssumption
<1> HIDE DEF A, B, C, D
<1>5. (A (+) (c (.) B)) (+) (D (+) C) = (A (+) D) (+) ((c (.) B) (+) C)
  BY <1>0, <1>1, SumSwaps
<1> QED
  BY <1>2, <1>3, <1>4, <1>5 DEF A, B, C, D

\* The last of four summands comes first, the first one last.
LEMMA LastToFirst ==
  ASSUME NEW t, NEW a, NEW b, NEW x, Scalars(<<t, a, b, x>>)
  PROVE  ((t (+) a) (+) b) (+) x = (x (+) (a (+) b)) (+) t
<1>1. t \in Scalar /\ a \in Scalar /\ b \in Scalar /\ x \in Scalar
  BY DEF Scalars
<1>2. (t (+) a) (+) b = t (+) (a (+) b) /\ a (+) b \in Scalar
  BY <1>1, Closed, SumAssumption
<1> QED
  BY <1>1, <1>2, Closed, SumAssumption

\* geneatePoK and verifyPoK: the equations hold, the pairing of Sign1 does, that of
\* Sign2 holds for a valid SigmaBar.
LEMMA PoKVerdict ==
  ASSUME TypeOK, SigmaValid, Acids, stage = "acid",
         NEW k2 \in Draws, NEW t2 \in Draws, NEW n \in Nonces, NEW c \in Challenges
  PROVE  LET pok == PoK(RandomizeSig(sigmaBar, k2, t2), t2, n, c)
         IN  pok \in Points /\ (VerifyPoK(pok, c) <=> SigmaBarValid \/ k2 = Zero)
<1> DEFINE y1 == key.key1.y[1]
           y2 == key.key2.y[1]
           z2 == key.key2.y[2]
           sig2 == RandomizeSig(sigmaBar, k2, t2)
           pok == PoK(sig2, t2, n, c)
<1>1. /\ k2 \in Scalar /\ t2 \in Scalar /\ c \in Scalar /\ acid.t \in Scalar /\ acid.k \in Scalar
      /\ n.q \in Scalar /\ n.d \in Scalar /\ n.qsk \in Scalar
      /\ n.r1 \in Scalar /\ n.r2 \in Scalar /\ n.r3 \in Scalar
      /\ sigma \in Signatures /\ sigmaBar \in Signatures /\ acid.sig \in Signatures
  BY Drawn DEF TypeOK
<1>2. /\ domain \in Scalar /\ isk \in Scalar /\ y1 \in Scalar /\ y2 \in Scalar /\ z2 \in Scalar
      /\ domain (.) y1 \in Scalar /\ domain (.) y2 \in Scalar /\ isk (.) z2 \in Scalar
      /\ key.key1.x \in Scalar /\ key.key2.x \in Scalar /\ M1 \in Scalar /\ M2 \in Scalar
  BY Typed DEF TypeOK
<1>3. /\ pok.Sign1 = acid.sig /\ pok.Sign2 = sig2
      /\ pok.C1 = acid.t (+) (domain (.) y1)
      /\ pok.C2 = (t2 (+) (domain (.) y2)) (+) (isk (.) z2)
      /\ pok.C3 = isk (.) n.q
      /\ pok.R1 = n.r1 (+) (n.d (.) y1)
      /\ pok.R2 = (n.r2 (+) (n.d (.) y2)) (+) (n.qsk (.) z2)
      /\ pok.R3 = isk (.) n.r3
      /\ pok.zD = (c (.) domain) (+) n.d /\ pok.zQsk = (c (.) isk) (+) n.qsk
      /\ pok.z1 = (c (.) acid.t) (+) n.r1 /\ pok.z2 = (c (.) t2) (+) n.r2
      /\ pok.z3 = ((c (.) n.q) (+) n.r3) (.) isk
  BY DEF PoK
<1>4. sig2 \in Signatures
  <2>1. Scalars(<<M2, k2, t2>>)
    BY <1>1, <1>2 DEF Scalars
  <2> QED
    BY <1>1, <2>1, RandomizedIff
<1>5. pok \in Points
  <2>1. /\ pok.C1 \in Scalar /\ pok.C2 \in Scalar /\ pok.C3 \in Scalar
        /\ pok.zD \in Scalar /\ pok.zQsk \in Scalar
        /\ pok.z1 \in Scalar /\ pok.z2 \in Scalar /\ pok.z3 \in Scalar
    BY <1>1, <1>2, <1>3, Closed
  <2>2. pok.R1 \in Scalar /\ pok.R2 \in Scalar /\ pok.R3 \in Scalar
    <3>1. n.d (.) y1 \in Scalar /\ n.d (.) y2 \in Scalar /\ n.qsk (.) z2 \in Scalar
      BY <1>1, <1>2, Closed
    <3> QED
      BY <1>1, <1>2, <1>3, <3>1, Closed
  <2>3. pok = [Sign1 |-> pok.Sign1, Sign2 |-> pok.Sign2, C1 |-> pok.C1, C2 |-> pok.C2, C3 |-> pok.C3,
               R1 |-> pok.R1, R2 |-> pok.R2, R3 |-> pok.R3, zD |-> pok.zD, zQsk |-> pok.zQsk,
               z1 |-> pok.z1, z2 |-> pok.z2, z3 |-> pok.z3]
    BY DEF PoK
  <2> HIDE DEF pok
  <2> QED
    BY <1>1, <1>3, <1>4, <2>1, <2>2, <2>3 DEF Points
<1> HIDE DEF pok
<1>6. pok.z1 (+) (pok.zD (.) y1) = pok.R1 (+) (c (.) pok.C1)
  <2>1. Scalars(<<acid.t, domain, n.r1, n.d, c, y1>>)
    BY <1>1, <1>2 DEF Scalars
  <2> QED
    BY <1>3, <2>1, TwoResponses
<1>7. (pok.z2 (+) (pok.zD (.) y2)) (+) (pok.zQsk (.) z2) = pok.R2 (+) (c (.) pok.C2)
  <2>1. Scalars(<<t2, domain, isk, n.r2, n.d, n.qsk, c, y2, z2>>)
    BY <1>1, <1>2 DEF Scalars
  <2> QED
    BY <1>3, <2>1, ThreeResponses
<1>8. pok.z3 = pok.R3 (+) (c (.) pok.C3)
  <2>1. ASSUME NEW q \in Scalar, NEW r \in Scalar, NEW i \in Scalar
        PROVE  ((c (.) q) (+) r) (.) i = (i (.) r) (+) (c (.) (i (.) q))
    <3>1. ((c (.) q) (+) r) (.) i = (c (.) (q (.) i)) (+) (r (.) i)
      BY <1>1, <2>1, ResponseTimes
    <3>2. q (.) i = i (.) q /\ r (.) i = i (.) r
      BY ProductAssumption
    <3>3. c (.) (i (.) q) \in Scalar /\ i (.) r \in Scalar
      BY <1>1, Closed
    <3> QED
      BY <3>1, <3>2, <3>3, SumAssumption
  <2>2. n.q \in Scalar /\ n.r3 \in Scalar /\ isk \in Scalar
    BY <1>1, <1>2
  <2>3. ((c (.) n.q) (+) n.r3) (.) isk = (isk (.) n.r3) (+) (c (.) (isk (.) n.q))
    BY <2>1, <2>2
  <2> QED
    BY <1>3, <2>3
<1>9. Pair(pok.Sign1.s1, pok.C1 (+) key.key1.x) = Pair(pok.Sign1.s2, One)
  <2>1. acid.sig.s2 = acid.sig.s1 (.) (M1 (+) acid.t)
    <3>1. Scalars(<<M1, acid.k, acid.t>>)
      BY <1>1, <1>2 DEF Scalars
    <3> QED
      BY <1>1, <3>1, RandomizedIff DEF Acids, SigmaValid
  <2>2. ASSUME NEW t \in Scalar, NEW a \in Scalar, NEW x \in Scalar
        PROVE  (t (+) a) (+) x = (x (+) a) (+) t
    BY Closed, SumAssumption
  <2>3. pok.C1 (+) key.key1.x = M1 (+) acid.t
    <3>1. acid.t \in Scalar /\ domain (.) y1 \in Scalar /\ key.key1.x \in Scalar
      BY <1>1, <1>2
    <3>2. (acid.t (+) (domain (.) y1)) (+) key.key1.x = (key.key1.x (+) (domain (.) y1)) (+) acid.t
      BY <2>2, <3>1
    <3> QED
      BY <1>3, <3>2 DEF M1
  <2>4. acid.sig.s2 (.) One = acid.sig.s2
    BY <1>1, ProductAssumption DEF Signatures
  <2> QED
    BY <1>3, <2>1, <2>3, <2>4 DEF Pair
<1>10. (Pair(pok.Sign2.s1, pok.C2 (+) key.key2.x) = Pair(pok.Sign2.s2, One))
         <=> SigmaBarValid \/ k2 = Zero
  <2>1. (sig2.s2 = sig2.s1 (.) (M2 (+) t2)) <=> SigmaBarValid \/ k2 = Zero
    <3>1. Scalars(<<M2, k2, t2>>)
      BY <1>1, <1>2 DEF Scalars
    <3> QED
      BY <1>1, <3>1, RandomizedIff DEF SigmaBarValid
  <2>2. pok.C2 (+) key.key2.x = M2 (+) t2
    <3>1. PICK a \in Scalar, b \in Scalar : a = domain (.) y2 /\ b = isk (.) z2
      BY <1>2
    <3>2. ((t2 (+) a) (+) b) (+) key.key2.x = (key.key2.x (+) (a (+) b)) (+) t2
      <4>1. Scalars(<<t2, a, b, key.key2.x>>)
        BY <1>1, <1>2 DEF Scalars
      <4> QED
        BY <4>1, LastToFirst
    <3> QED
      BY <1>3, <3>1, <3>2 DEF M2
  <2>3. sig2.s2 (.) One = sig2.s2
    BY <1>4, ProductAssumption DEF Signatures
  <2> QED
    BY <1>3, <2>1, <2>2, <2>3 DEF Pair
<1>11. VerifyPoK(pok, c) <=> SigmaBarValid \/ k2 = Zero
  BY <1>6, <1>7, <1>8, <1>9, <1>10 DEF VerifyPoK
<1> QED
  BY <1>5, <1>11 DEF pok

LEMMA GenerateCInv == CInv /\ GeneratePoK => CInv'
<1> SUFFICES ASSUME CInv, GeneratePoK PROVE CInv'
  OBVIOUS
<1>1. PICK k2 \in Draws, t2 \in Draws, n \in Nonces, c \in Challenges :
        proof' = {[pok |-> PoK(RandomizeSig(sigmaBar, k2, t2), t2, n, c), k2 |-> k2, c |-> c]}
  BY DEF GeneratePoK
<1>2. /\ UNCHANGED <<key, domain, isk, sigma, sigmaBar, own, request, acid, shown, seen>>
      /\ stage = "acid" /\ stage' = "proven"
  BY DEF GeneratePoK, credVars
<1>3. PICK pok : pok = PoK(RandomizeSig(sigmaBar, k2, t2), t2, n, c)
  OBVIOUS
<1>4. pok \in Points /\ (VerifyPoK(pok, c) <=> SecretCredVerifies \/ k2 = Zero)
  BY <1>2, <1>3, PoKVerdict, Verdicts DEF CInv
<1>5. proof' = {[pok |-> pok, k2 |-> k2, c |-> c]} /\ k2 \in Scalar /\ c \in Scalar
  BY <1>1, <1>3, Drawn
<1>6. TypeOK'
  BY <1>2, <1>4, <1>5 DEF CInv, TypeOK
<1>7. AcceptedIffValid'
  <2>1. VerifyPoK(pok, c)' <=> VerifyPoK(pok, c)
    BY <1>2 DEF VerifyPoK
  <2>2. SecretCredVerifies' <=> SecretCredVerifies
    BY <1>2 DEF SecretCredVerifies
  <2>3. \A p \in proof' : p.pok = pok /\ p.c = c /\ p.k2 = k2
    BY <1>5
  <2> QED
    BY <1>4, <2>1, <2>2, <2>3 DEF AcceptedIffValid, VerifyPoK
<1>8. SigmaValid' /\ Taken' /\ Acids'
  BY <1>2 DEF CInv, SigmaValid, Taken, SigmaBarValid, M1, M2, Acids
<1> QED
  BY <1>2, <1>6, <1>7, <1>8
  DEF CInv, Asked, Issued, Seen, RequestsGranted, ShowingsVerify

\* Inv(k) * (uid * (k * s)) = uid * s: the pseudonym has lost the k of the login.
LEMMA PseudonymIs ==
  ASSUME NEW k \in Scalar \ {Zero}, NEW uid \in Scalar, NEW s \in Scalar
  PROVE  UnblindAuid(GenerateAuid(k (.) s, uid), k) = uid (.) s
<1>1. uid (.) (k (.) s) = k (.) (uid (.) s) /\ uid (.) s \in Scalar
  BY Closed, TimesSwaps
<1>2. ASSUME NEW x \in Scalar PROVE Inv(k) (.) (k (.) x) = x
  <2>1. Inv(k) \in Scalar /\ Inv(k) (.) (k (.) x) = (Inv(k) (.) k) (.) x
    BY Closed, ProductAssumption
  <2>2. Inv(k) (.) k = One
    BY <2>1, Closed, ProductAssumption
  <2>3. One (.) x = x
    BY Closed, ProductAssumption
  <2> QED
    BY <2>1, <2>2, <2>3
<1> QED
  BY <1>1, <1>2 DEF UnblindAuid, GenerateAuid

\* With k = 0 the auid is the identity, and so is what unblindAuid makes of it.
LEMMA PseudonymLost ==
  ASSUME NEW uid \in Scalar, NEW s \in Scalar
  PROVE  UnblindAuid(GenerateAuid(Zero (.) s, uid), Zero) = Zero
<1>1. Inv(Zero) \in Scalar
  BY Closed
<1> QED
  BY <1>1, TimesZero DEF UnblindAuid, GenerateAuid

LEMMA LogInCInv == CInv /\ LogIn => CInv'
<1> SUFFICES ASSUME CInv, LogIn PROVE CInv'
  OBVIOUS
<1>1. PICK uid \in Users : seen' = seen \cup {Admits(uid)}
  BY DEF LogIn
<1>2. /\ UNCHANGED <<key, domain, isk, sigma, sigmaBar, own, request, shown>>
      /\ stage = "proven" /\ stage' = "idle" /\ acid' = NoAcid /\ proof' = NoProof
  BY DEF LogIn, credVars
<1>3. uid \in Scalar /\ acid.k \in Scalar /\ sigma.s1 \in Scalar
  BY <1>2, Drawn DEF CInv, TypeOK, Signatures
<1>4. acid.sig.s1 = acid.k (.) sigma.s1
  BY <1>2 DEF CInv, Acids, RandomizeSig
<1>5. Pseudonym(uid) = IF acid.k = Zero THEN Zero ELSE uid (.) sigma.s1
  BY <1>3, <1>4, PseudonymIs, PseudonymLost DEF Pseudonym
<1>6. uid (.) sigma.s1 \in Scalar /\ Zero \in Scalar
  BY <1>3, Closed
<1>7. Seen' /\ seen' \subseteq [uid : Users, uid_rp : Scalar, lost : BOOLEAN]
  <2>1. PICK b \in BOOLEAN : b = (acid.k = Zero)
    OBVIOUS
  <2>2. PICK e : e = [uid |-> uid, uid_rp |-> IF b THEN Zero ELSE uid (.) sigma.s1, lost |-> b]
    OBVIOUS
  <2>3. seen' = seen \cup {e}
    BY <1>1, <1>5, <2>1, <2>2 DEF Admits
  <2>4. e \in [uid : Users, uid_rp : Scalar, lost : BOOLEAN]
    BY <1>6, <2>2
  <2>5. Seen'
    BY <1>2, <2>2, <2>3 DEF CInv, Seen
  <2> QED
    BY <2>3, <2>4, <2>5 DEF CInv, TypeOK
<1>8. NoAcid \in [sig : Signatures, k : Scalar, t : Scalar]
  BY NoSigTyped, Closed DEF NoAcid
<1>9. TypeOK'
  BY <1>2, <1>7, <1>8 DEF CInv, TypeOK, NoProof
<1>10. SigmaValid' /\ Taken'
  BY <1>2 DEF CInv, SigmaValid, Taken, SigmaBarValid, M1, M2
<1> QED
  BY <1>2, <1>7, <1>9, <1>10
  DEF CInv, Asked, Issued, Acids, RequestsGranted, AcceptedIffValid, ShowingsVerify

LEMMA RefuseCInv == CInv /\ RefuseLogin => CInv'
<1> SUFFICES ASSUME CInv, RefuseLogin PROVE CInv'
  OBVIOUS
<1>1. /\ UNCHANGED <<key, domain, isk, sigma, sigmaBar, own, request, shown, seen>>
      /\ stage = "proven" /\ stage' = "idle" /\ acid' = NoAcid /\ proof' = NoProof
  BY DEF RefuseLogin, credVars
<1>2. NoAcid \in [sig : Signatures, k : Scalar, t : Scalar]
  BY NoSigTyped, Closed DEF NoAcid
<1>3. TypeOK'
  BY <1>1, <1>2 DEF CInv, TypeOK, NoProof
<1>4. SigmaValid' /\ Taken' /\ Seen'
  BY <1>1 DEF CInv, SigmaValid, Taken, SigmaBarValid, M1, M2, Seen
<1> QED
  BY <1>1, <1>3, <1>4
  DEF CInv, Asked, Issued, Acids, RequestsGranted, AcceptedIffValid, ShowingsVerify

\* A showing randomizes Sigma with the t it then proves; k need not be invertible.
LEMMA ShowCInv == CInv /\ Show => CInv'
<1> SUFFICES ASSUME CInv, Show PROVE CInv'
  OBVIOUS
<1>1. PICK k \in Draws, t \in Draws, n \in Nonces, c \in Challenges :
        shown' = {[ap |-> AnoyCredPresent(RandomizeSig(sigma, k, t), t, domain, key.key1,
                                          n.r1, n.r2, c),
                   zk |-> Prove(isk, n.r3, c), c |-> c]}
  BY DEF Show
<1>2. UNCHANGED <<stage, key, domain, isk, sigma, sigmaBar, own, request, acid, proof, seen>>
  BY DEF Show, credVars
<1>3. /\ k \in Scalar /\ t \in Scalar /\ c \in Scalar
      /\ n.r1 \in Scalar /\ n.r2 \in Scalar /\ n.r3 \in Scalar
      /\ domain \in Scalar /\ isk \in Scalar /\ sigma \in Signatures
      /\ key.key1.x \in Scalar /\ key.key1.y[1] \in Scalar /\ domain (.) key.key1.y[1] \in Scalar
      /\ M1 \in Scalar
  BY Drawn, Typed DEF CInv, TypeOK
<1>4. PICK sig : sig = RandomizeSig(sigma, k, t)
  OBVIOUS
<1>5. sig \in Signatures /\ sig.s2 = sig.s1 (.) (M1 (+) t)
  <2>1. Scalars(<<M1, k, t>>)
    BY <1>3 DEF Scalars
  <2> QED
    BY <1>3, <1>4, <2>1, RandomizedIff DEF CInv, SigmaValid
<1>6. M1 (+) t = key.key1.x (+) (t (+) (domain (.) key.key1.y[1]))
  <2>1. ASSUME NEW a \in Scalar, NEW x \in Scalar PROVE (x (+) a) (+) t = x (+) (t (+) a)
    BY <1>3, SumAssumption
  <2> QED
    BY <1>3, <2>1 DEF M1
<1>7. VerifyAnoyCredPresent(AnoyCredPresent(sig, t, domain, key.key1, n.r1, n.r2, c), key.key1, c)
  BY <1>3, <1>5, <1>6, PresentationsVerify
<1>8. Verify(Prove(isk, n.r3, c), c)
  BY <1>3, ProofsVerify
<1>9. ShowingsVerify'
  BY <1>1, <1>2, <1>4, <1>7, <1>8 DEF ShowingsVerify
<1>10. TypeOK' /\ SigmaValid' /\ Taken' /\ Acids' /\ Seen'
  BY <1>2 DEF CInv, TypeOK, SigmaValid, Taken, SigmaBarValid, M1, M2, Acids, Seen
<1>11. Asked' /\ Issued' /\ RequestsGranted'
  BY <1>2 DEF CInv, Asked, Issued, RequestsGranted
<1>12. AcceptedIffValid'
  BY <1>2 DEF CInv, AcceptedIffValid, VerifyPoK, SecretCredVerifies
<1> QED
  BY <1>9, <1>10, <1>11, <1>12 DEF CInv

LEMMA StutterCInv == CInv /\ UNCHANGED vars => CInv'
<1> SUFFICES ASSUME CInv, UNCHANGED vars PROVE CInv'
  OBVIOUS
<1>1. /\ UNCHANGED <<stage, key, domain, isk, sigma, sigmaBar, own>>
      /\ UNCHANGED <<request, acid, proof, shown, seen>>
  BY DEF vars, credVars
<1>2. TypeOK' /\ SigmaValid' /\ Taken' /\ Acids' /\ Seen'
  BY <1>1 DEF CInv, TypeOK, SigmaValid, Taken, SigmaBarValid, M1, M2, Acids, Seen
<1>3. Asked' /\ Issued' /\ RequestsGranted' /\ ShowingsVerify'
  BY <1>1 DEF CInv, Asked, Issued, RequestsGranted, ShowingsVerify
<1>4. AcceptedIffValid'
  BY <1>1 DEF CInv, AcceptedIffValid, VerifyPoK, SecretCredVerifies
<1> QED
  BY <1>2, <1>3, <1>4 DEF CInv

LEMMA CInvInvariant == Spec => []CInv
<1>1. CInv /\ [Next]_vars => CInv'
  BY AskCInv, IssueCInv, TakeCInv, RandomizeCInv, GenerateCInv, LogInCInv, RefuseCInv, ShowCInv,
     StutterCInv
  DEF Next
<1> QED
  BY <1>1, InitCInv, PTL DEF Spec

(***************************************************************************)
(* The theorems.                                                           *)
(***************************************************************************)

\* Every reachable state is well typed, over any field and for any draws (TypeOK).
THEOREM TypeCorrect == Spec => []TypeOK
  BY CInvInvariant, PTL DEF CInv

\* BlindSign verifies every commitment PrepareBlindSign makes (RequestsGranted).
THEOREM EveryRequestGranted == Spec => []RequestsGranted
  BY CInvInvariant, PTL DEF CInv

\* The verdicts of getCredential's two PSVerify are right: a factor that is not its own
\* shows, unless the signature is trivial (OnlyOwnFactorVerifies).
THEOREM MixedFactorsShow == Spec => []OnlyOwnFactorVerifies
<1>1. CInv => OnlyOwnFactorVerifies
  BY Verdicts DEF CInv, Taken, OnlyOwnFactorVerifies
<1> QED
  BY <1>1, CInvInvariant, PTL

\* verifyPoK is complete and, for what geneatePoK makes, exact (AcceptedIffValid).
THEOREM VerdictsExact == Spec => []AcceptedIffValid
  BY CInvInvariant, PTL DEF CInv

\* Every acid the broker makes of Sigma opens to the domain it was issued for
\* (AcidVerifies; generateSessionData, VerifyRandomizedSig).
THEOREM AcidsVerify == Spec => []AcidVerifies
<1>1. ASSUME CInv, stage \in {"acid", "proven"}
      PROVE  VerifyRandomizedSig(acid.sig, acid.t, <<domain>>, key.key1)
  <2>1. /\ M1 \in Scalar /\ sigma \in Signatures /\ acid.sig \in Signatures
        /\ acid.k \in Scalar /\ acid.t \in Scalar
    BY <1>1, Typed DEF CInv, TypeOK
  <2>2. acid.sig.s2 = acid.sig.s1 (.) (M1 (+) acid.t)
    <3>1. Scalars(<<M1, acid.k, acid.t>>)
      BY <2>1 DEF Scalars
    <3> QED
      BY <1>1, <2>1, <3>1, RandomizedIff DEF CInv, Acids, SigmaValid
  <2>3. (key.key1.x (+) Combine(<<domain>>, key.key1.y)) (+) acid.t = M1 (+) acid.t
    BY DEF Combine, M1
  <2>4. acid.sig.s2 (.) One = acid.sig.s2
    BY <2>1, ProductAssumption DEF Signatures
  <2> QED
    BY <2>2, <2>3, <2>4 DEF VerifyRandomizedSig, Pair
<1>2. CInv => AcidVerifies
  BY <1>1 DEF AcidVerifies
<1> QED
  BY <1>2, CInvInvariant, PTL

\* The pseudonym of a user at an RP does not depend on the login, and is his alone,
\* except in a login whose k is zero, which gets a point that is nobody's pseudonym
\* (PseudonymStable; generateSessionData, GenerateAuid, unblindAuid).
THEOREM PseudonymsStable == Spec => []PseudonymStable
<1>1. ASSUME CInv, sigma.s1 # Zero, NEW p \in seen, NEW q \in seen, ~q.lost
      PROVE  /\ ~p.lost => (p.uid = q.uid <=> p.uid_rp = q.uid_rp)
             /\ p.lost /\ q.uid # Zero => p.uid_rp # q.uid_rp
  <2>1. p.uid \in Scalar /\ q.uid \in Scalar /\ sigma.s1 \in Scalar
    BY <1>1, Drawn DEF CInv, TypeOK, Signatures
  <2>2. /\ q.uid_rp = q.uid (.) sigma.s1
        /\ p.uid_rp = IF p.lost THEN Zero ELSE p.uid (.) sigma.s1
    BY <1>1 DEF CInv, Seen
  <2>3. \A u \in Scalar : u (.) sigma.s1 = q.uid (.) sigma.s1 => u = q.uid
    BY <1>1, <2>1, ProductAssumption, TimesCancels
  <2>4. Zero (.) sigma.s1 = Zero /\ Zero \in Scalar
    BY <2>1, TimesZero, Closed
  <2> QED
    BY <2>1, <2>2, <2>3, <2>4
<1>2. CInv => PseudonymStable
  BY <1>1 DEF PseudonymStable
<1> QED
  BY <1>2, CInvInvariant, PTL

\* The library's showings and proofs of a secret verify (ShowingsVerify).
THEOREM EveryShowingVerifies == Spec => []ShowingsVerify
  BY CInvInvariant, PTL DEF CInv

=============================================================================
