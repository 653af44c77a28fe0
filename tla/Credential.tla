---------------------------- MODULE Credential ----------------------------
(***************************************************************************)
(* The credentials of an RP and what the servers compute from them: their  *)
(* issuance by the IdP, the acid the broker makes of Sigma for one login,  *)
(* the RP's proof about it, and the user's pseudonym at the RP.            *)
(*                                                                         *)
(* The RP takes a blinding factor off a signature that an overlapping       *)
(* registration may have put in its place (getCredential works on the      *)
(* server's fields), and logs users in with what it then holds: unblinding *)
(* is with any factor, and a login may start before or after a failed one. *)
(***************************************************************************)
EXTENDS PSSignature

CONSTANTS KeyPairs,   \* the IdP's PSKey1 and PSKey2
          Domains,    \* domainScalar
          Draws,      \* what credentials and their randomization draw from
          Nonces,     \* what the announcements of a proof draw from
          Challenges, \* Fiat-Shamir challenges
          Users       \* uid scalars

ASSUME DrawAssumption ==
  /\ KeyPairs \subseteq [key1 : Keys(1), key2 : Keys(2)]
  /\ Domains \subseteq Scalar /\ Draws \subseteq Scalar
  /\ Challenges \subseteq Scalar /\ Users \subseteq Scalar
  /\ Nonces \subseteq [q : Scalar, d : Scalar, qsk : Scalar, r1 : Scalar, r2 : Scalar, r3 : Scalar]

VARIABLES
  stage,     \* how far the registration or the login is: "idle" between two
  key,       \* ServerCredKey
  domain,    \* the RP's domain as a scalar
  isk,       \* the RP's IdentitySk
  request,   \* the commitment and proof sent to the IdP, with its factor d and challenge
  sigma,     \* DomainCred.Sigma
  sigmaBar,  \* SecretCred.SigmaBar
  own,       \* the factor taken off SigmaBar was its own
  acid,      \* the broker's randomized Sigma, with its k and t
  proof,     \* the RP's proof, with its k2 and challenge
  shown,     \* a showing of Sigma and a proof of isk, with their challenges
  seen       \* history: uid, uid_rp and whether k was zero, of the logins under this registration

credVars == <<key, domain, isk, sigma, sigmaBar, own>>
vars == <<stage, credVars, request, acid, proof, shown, seen>>

NoSig     == [s1 |-> Zero, s2 |-> Zero]
NoRequest == [proof |-> [C1 |-> Zero, R1 |-> Zero, z0 |-> Zero, z1 |-> Zero],
              d |-> Zero, c |-> Zero]
NoAcid    == [sig |-> NoSig, k |-> Zero, t |-> Zero]
NoProof   == {}

Init ==
  /\ \E kp \in KeyPairs : key = kp
  /\ domain \in Domains
  /\ isk \in Draws
  /\ stage    = "new"
  /\ request  = NoRequest
  /\ sigma    = NoSig
  /\ sigmaBar = NoSig
  /\ own      = TRUE
  /\ acid     = NoAcid
  /\ proof    = NoProof
  /\ shown    = {}
  /\ seen     = {}

-----------------------------------------------------------------------------
(* Registration: RP/register.go and IdP/register.go.                       *)

\* getRegisterRequestToIdP: commit to isk under Yn[1] of PSKey2; a second time too.
Ask ==
  /\ stage \in {"new", "idle"}
  /\ \E d \in Draws, n \in Nonces, c \in Challenges :
       request' = [proof |-> PrepareBlindSign(isk, key.key2.y[2], d, n.r1, n.r2, c),
                   d |-> d, c |-> c]
  /\ stage' = "asked"
  /\ shown' = {}
  /\ UNCHANGED <<credVars, acid, proof, seen>>

\* getRegisterRespToRP, once BlindSign has verified the request, and the two
\* assignments of getCredential.
Issue ==
  /\ stage = "asked"
  /\ VerifyMultiExp(key.key2.y[2], request.proof, request.c)
  /\ \E u1, u2 \in Draws :
       /\ sigma'    = PSSign(<<domain>>, key.key1, u1)
       /\ sigmaBar' = BlindSign(key.key2, request.proof, domain, u2)
  /\ stage' = "issued"
  /\ seen'  = {}
  /\ UNCHANGED <<key, domain, isk, own, request, acid, proof, shown>>

DomainCredVerifies == PSVerify(sigma, <<domain>>, key.key1)
SecretCredVerifies == PSVerify(sigmaBar, <<domain, isk>>, key.key2)

\* The rest of getCredential, d being its own factor or another registration's.  When
\* PSVerify then fails the fields stay as they are.
TakeCredentials ==
  /\ stage = "issued"
  /\ \E d \in Draws :
       /\ sigmaBar' = Unblind(sigmaBar, d)
       /\ own' = (d = request.d)
  /\ stage' = "idle"
  /\ request' = NoRequest
  /\ UNCHANGED <<key, domain, isk, sigma, acid, proof, shown, seen>>

-----------------------------------------------------------------------------
(* A login.                                                                *)

\* generateSessionData: the RP loads its file at each login, whatever it then holds.
\* Nothing keeps the k that is drawn from being zero.
Randomize ==
  /\ stage = "idle"
  /\ \E k, t \in Draws : acid' = [sig |-> RandomizeSig(sigma, k, t), k |-> k, t |-> t]
  /\ stage' = "acid"
  /\ shown' = {}
  /\ UNCHANGED <<credVars, request, proof, seen>>

\* geneatePoK: (t2, isk, domain, t) in zero knowledge, with SigmaBar randomized by k2, t2.
PoK(sig2, t2, n, c) ==
  LET y1 == key.key1.y
      y2 == key.key2.y
  IN [Sign1 |-> acid.sig, Sign2 |-> sig2,
      C1 |-> acid.t (+) (domain (.) y1[1]),
      C2 |-> (t2 (+) (domain (.) y2[1])) (+) (isk (.) y2[2]),
      C3 |-> isk (.) n.q,
      R1 |-> n.r1 (+) (n.d (.) y1[1]),
      R2 |-> (n.r2 (+) (n.d (.) y2[1])) (+) (n.qsk (.) y2[2]),
      R3 |-> isk (.) n.r3,
      zD |-> (c (.) domain) (+) n.d, zQsk |-> (c (.) isk) (+) n.qsk,
      z1 |-> (c (.) acid.t) (+) n.r1, z2 |-> (c (.) t2) (+) n.r2,
      z3 |-> ((c (.) n.q) (+) n.r3) (.) isk]

GeneratePoK ==
  /\ stage = "acid"
  /\ \E k2, t2 \in Draws, n \in Nonces, c \in Challenges :
       proof' = {[pok |-> PoK(RandomizeSig(sigmaBar, k2, t2), t2, n, c), k2 |-> k2, c |-> c]}
  /\ stage' = "proven"
  /\ UNCHANGED <<credVars, request, acid, shown, seen>>

VerifyResponses(p, c) ==         \* mutant of VerifyPoK: Sign2 is not paired
  LET y1 == key.key1.y
      y2 == key.key2.y
  IN /\ p.z1 (+) (p.zD (.) y1[1]) = p.R1 (+) (c (.) p.C1)
     /\ (p.z2 (+) (p.zD (.) y2[1])) (+) (p.zQsk (.) y2[2]) = p.R2 (+) (c (.) p.C2)
     /\ p.z3 = p.R3 (+) (c (.) p.C3)
     /\ Pair(p.Sign1.s1, p.C1 (+) key.key1.x) = Pair(p.Sign1.s2, One)

\* verifyPoK: three response equations and two pairings.
VerifyPoK(p, c) ==
  LET y1 == key.key1.y
      y2 == key.key2.y
  IN /\ p.z1 (+) (p.zD (.) y1[1]) = p.R1 (+) (c (.) p.C1)
     /\ (p.z2 (+) (p.zD (.) y2[1])) (+) (p.zQsk (.) y2[2]) = p.R2 (+) (c (.) p.C2)
     /\ p.z3 = p.R3 (+) (c (.) p.C3)
     /\ Pair(p.Sign1.s1, p.C1 (+) key.key1.x) = Pair(p.Sign1.s2, One)
     /\ Pair(p.Sign2.s1, p.C2 (+) key.key2.x) = Pair(p.Sign2.s2, One)

GenerateAuid(a, uid) == uid (.) a

UnblindAuidByK(auid, k) == k (.) auid    \* mutant of UnblindAuid: k is not inverted

UnblindAuid(auid, k) == Inv(k) (.) auid

Pseudonym(uid) == UnblindAuid(GenerateAuid(acid.sig.s1, uid), acid.k)

AdmitsSwapped(uid) ==            \* mutant of Admits: the two ids are exchanged
  [uid |-> Pseudonym(uid), uid_rp |-> uid, lost |-> acid.k = Zero]

\* A k of zero has no inverse and makes nobody's pseudonym of every uid.
Admits(uid) == [uid |-> uid, uid_rp |-> Pseudonym(uid), lost |-> acid.k = Zero]

\* handleToken's verdict on the proof, and at the RP the pseudonym (handleUnblindAuid).
LogIn ==
  /\ stage = "proven"
  /\ \A p \in proof : VerifyPoK(p.pok, p.c)
  /\ \E uid \in Users : seen' = seen \cup {Admits(uid)}
  /\ stage' = "idle"
  /\ acid'  = NoAcid
  /\ proof' = NoProof
  /\ UNCHANGED <<credVars, request, shown>>

RefuseLogin ==
  /\ stage = "proven"
  /\ \E p \in proof : ~VerifyPoK(p.pok, p.c)
  /\ stage' = "idle"
  /\ acid'  = NoAcid
  /\ proof' = NoProof
  /\ UNCHANGED <<credVars, request, shown, seen>>

\* The library's own showing of a credential and proof of a secret (its tests).
Show ==
  /\ stage = "idle" /\ shown = {}
  /\ \E k, t \in Draws, n \in Nonces, c \in Challenges :
       shown' = {[ap |-> AnoyCredPresent(RandomizeSig(sigma, k, t), t, domain, key.key1,
                                         n.r1, n.r2, c),
                  zk |-> Prove(isk, n.r3, c), c |-> c]}
  /\ UNCHANGED <<stage, credVars, request, acid, proof, seen>>

Next ==
  \/ Ask \/ Issue \/ TakeCredentials
  \/ Randomize \/ GeneratePoK \/ LogIn \/ RefuseLogin
  \/ Show

Spec == Init /\ [][Next]_vars

-----------------------------------------------------------------------------
(* Properties.                                                             *)

Points == [Sign1 : Signatures, Sign2 : Signatures, C1 : Scalar, C2 : Scalar, C3 : Scalar,
           R1 : Scalar, R2 : Scalar, R3 : Scalar,
           zD : Scalar, zQsk : Scalar, z1 : Scalar, z2 : Scalar, z3 : Scalar]

\* Every variable has its type (PSSignMsg, MultiExpProof, proofPoK); who logs in is a
\* user, and the pseudonym a point.
TypeOK ==
  /\ stage \in {"new", "asked", "issued", "idle", "acid", "proven"}
  /\ key \in KeyPairs /\ domain \in Domains /\ isk \in Draws
  /\ request \in [proof : [C1 : Scalar, R1 : Scalar, z0 : Scalar, z1 : Scalar],
                  d : Scalar, c : Scalar]
  /\ sigma \in Signatures /\ sigmaBar \in Signatures
  /\ own \in BOOLEAN
  /\ acid \in [sig : Signatures, k : Scalar, t : Scalar]
  /\ \A p \in proof : p.pok \in Points /\ p.k2 \in Scalar /\ p.c \in Scalar
  /\ seen \subseteq [uid : Users, uid_rp : Scalar, lost : BOOLEAN]

\* The IdP never refuses a request an RP makes (PrepareBlindSign against BlindSign's
\* VerifyMultiExp), whatever the RP draws.
RequestsGranted == stage = "asked" => VerifyMultiExp(key.key2.y[2], request.proof, request.c)

\* getCredential's two PSVerify pass when the factor it takes off is its own, and tell
\* when it is another registration's (unless the signature is trivial or they are equal).
OnlyOwnFactorVerifies ==
  stage \notin {"new", "issued"} /\ ~(stage = "asked" /\ sigma = NoSig) =>
    /\ DomainCredVerifies
    /\ SecretCredVerifies <=> own \/ sigmaBar.s1 = Zero

\* verifyPoK accepts exactly the logins of an RP whose SigmaBar is valid (or has been
\* randomized to nothing): no draw of the broker or the RP makes it refuse a good
\* credential or accept a mixed-up one.
AcceptedIffValid ==
  stage = "proven" =>
    \A p \in proof : VerifyPoK(p.pok, p.c) <=> SecretCredVerifies \/ p.k2 = Zero

\* The acid opens as the RP's domain with the t of the cookie, as the TCA frame and
\* the benchmark check (VerifyRandomizedSig).
AcidVerifies ==
  stage \in {"acid", "proven"} =>
    VerifyRandomizedSig(acid.sig, acid.t, <<domain>>, key.key1)

\* uid_rp is a pseudonym: under one registration a user always gets the same one,
\* whatever the broker's k and t, and two users never share one, unless k was zero
\* (GenerateAuid and unblindAuid; the broker's UserStore is keyed by it).  A login with
\* a zero k gets the identity, which is no other user's pseudonym.
PseudonymStable ==
  sigma.s1 # Zero => \A p, q \in seen :
    /\ ~p.lost /\ ~q.lost => (p.uid = q.uid <=> p.uid_rp = q.uid_rp)
    /\ p.lost /\ ~q.lost /\ q.uid # Zero => p.uid_rp # q.uid_rp

\* The library's showings and Schnorr proofs verify (AnoyCredPresent, Prove).
ShowingsVerify ==
  \A s \in shown : VerifyAnoyCredPresent(s.ap, key.key1, s.c) /\ Verify(s.zk, s.c)

=============================================================================
