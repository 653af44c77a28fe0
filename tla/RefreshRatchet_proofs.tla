------------------------ MODULE RefreshRatchet_proofs ------------------------
(***************************************************************************)
(* Theorems about RefreshRatchet, for any set of RPs and requests, any     *)
(* number of prekeys and any faults: type correctness, that the IdP never  *)
(* uses a message key twice, and that the refresh path implements          *)
(* RefreshService.                                                         *)
(***************************************************************************)
EXTENDS RefreshRatchet, TLAPS

(***************************************************************************)
(* Key derivation.                                                         *)
(***************************************************************************)

\* The IdP key pair of the last DH step that went into a root key.
LastKey(root) == root.steps[Len(root.steps)].isk

\* A DH step (kdfRK) yields a root key whose last IdP key pair is its own.
LEMMA KdfRKLast ==
  ASSUME NEW root \in RootKeys, NEW dh \in DHSteps
  PROVE  /\ KdfRK(root, dh) \in RootKeys
         /\ KdfRK(root, dh).seed = root.seed
         /\ KdfRK(root, dh).steps # <<>>
         /\ LastKey(KdfRK(root, dh)) = dh.isk
<1> DEFINE s == root.steps
<1>1. s \in Seq(DHSteps) /\ root.seed \in Nat \cup {NoKS}
  BY DEF RootKeys
<1>2. /\ Append(s, dh) \in Seq(DHSteps)
      /\ Len(Append(s, dh)) = Len(s) + 1
      /\ Append(s, dh)[Len(s) + 1] = dh
  BY <1>1
<1>3. KdfRK(root, dh) = [seed |-> root.seed, steps |-> Append(s, dh)]
  <2>1. root = [seed |-> root.seed, steps |-> s]
    BY DEF RootKeys
  <2>2. \A t : [[seed |-> root.seed, steps |-> s] EXCEPT !.steps = t] =
                 [seed |-> root.seed, steps |-> t]
    OBVIOUS
  <2> QED
    BY <2>1, <2>2, Zenon DEF KdfRK
<1>4. Append(s, dh) # <<>>
  BY <1>1, <1>2
<1> QED
  BY <1>1, <1>2, <1>3, <1>4 DEF RootKeys, LastKey

\* Seeding gives a root key that is seeded, and keeps one that already was.
LEMMA SeedRootType ==
  ASSUME NEW root \in RootKeys, NEW ks \in Nat
  PROVE  /\ SeedRoot(root, ks) \in RootKeys
         /\ SeedRoot(root, ks).seed # NoKS
         /\ root.seed # NoKS => SeedRoot(root, ks) = root
  BY DEF SeedRoot, RootKeys, NoKS

\* A ratchet position is a message key, whether or not it takes a DH step.
LEMMA PositionType ==
  ASSUME NEW root \in RootKeys, NEW n \in Nat, NEW dh \in DHSteps, NEW isNew \in BOOLEAN
  PROVE  Position(isNew, root, n, dh) \in MessageKeys
<1>1. KdfRK(root, dh) \in RootKeys
  BY KdfRKLast
<1> QED
  BY <1>1 DEF Position, MessageKeys

(***************************************************************************)
(* The inductive invariant behind type correctness: what a request has     *)
(* been through is recorded in it.                                         *)
(***************************************************************************)
RequestOK(x) ==
  /\ x.pc # "idle" => x.rp \in RPs
  /\ x.pc \in {"hdr", "sent", "answered", "relayed", "opened"} => x.hdr \in Prekeys
  /\ x.pc \in {"answered", "relayed", "opened"} => x.ans \in Answers

RequestsOK == \A q \in Requests : RequestOK(req[q])

TInv == TypeOK /\ RequestsOK

\* What the IdP computes for a request that has reached it is well typed.
LEMMA IdPStepType ==
  ASSUME TInv, NEW q \in Requests, req[q].pc = "sent"
  PROVE  /\ IdPKey(q) \in Nat
         /\ IdPPosition(q) \in MessageKeys
         /\ IdPCommit(q, IdPPosition(q)) =>
              idp' \in [root : RootKeys, n : Nat, dhA : Prekeys \cup {Nil}, ipk : Nat]
<1>1. /\ req[q].hdr \in Prekeys
      /\ idp \in [root : RootKeys, n : Nat, dhA : Prekeys \cup {Nil}, ipk : Nat]
      /\ idpKS \in Nat
  BY DEF TInv, TypeOK, RequestsOK, RequestOK
<1>2. IdPKey(q) \in Nat
  BY <1>1 DEF IdPKey
<1>3. SeedRoot(idp.root, idpKS) \in RootKeys
  BY <1>1, SeedRootType
<1>4. DH(IdPKey(q), req[q].hdr) \in DHSteps
  BY <1>1, <1>2 DEF DH, DHSteps
<1>5. IsNewHdr(q) \in BOOLEAN
  BY DEF IsNewHdr
<1>6. IdPPosition(q) \in MessageKeys
  BY <1>1, <1>3, <1>4, <1>5, PositionType DEF IdPPosition
<1> QED
  BY <1>1, <1>2, <1>6 DEF IdPCommit, KdfCK, MessageKeys

\* So is what the RP computes for an answer whose seq is in range.
LEMMA RPStepType ==
  ASSUME TInv, NEW q \in Requests, req[q].pc = "relayed", SeqInRange(req[q].seq)
  PROVE  RPCommit(q, RPPosition(q)) =>
           rp' \in [RPs -> [root : RootKeys, n : Nat, dhB : Nat \cup {Nil}]]
<1> DEFINE r == req[q].rp
           a == req[q].ans
<1>1. /\ r \in RPs /\ a \in Answers
      /\ rp \in [RPs -> [root : RootKeys, n : Nat, dhB : Nat \cup {Nil}]]
      /\ rpKS[r] \in Nat
      /\ req[q].seq \in Nat
  BY DEF TInv, TypeOK, RequestsOK, RequestOK, RequestStates
<1>2. /\ SeedRoot(rp[r].root, rpKS[r]) \in RootKeys
      /\ rp[r].n \in Nat
  BY <1>1, SeedRootType
<1>3. <<r, req[q].seq>> \in Prekeys
  BY <1>1, BoundsAssumption DEF SeqInRange, Prekeys
<1>4. a.hdr \in Nat /\ DH(a.hdr, <<r, req[q].seq>>) \in DHSteps
  BY <1>1, <1>3 DEF DH, DHSteps, Answers
<1>5. (rp[r].dhB # a.hdr) \in BOOLEAN
  OBVIOUS
<1>6. RPPosition(q) \in MessageKeys
  BY <1>2, <1>4, <1>5, PositionType DEF RPPosition
<1> QED
  BY <1>1, <1>4, <1>6 DEF RPCommit, KdfCK, MessageKeys

LEMMA InitTInv == Init => TInv
<1> SUFFICES ASSUME Init PROVE TInv
  OBVIOUS
<1>1. Unseeded \in RootKeys
  BY DEF Unseeded, RootKeys
<1>2. Idle \in RequestStates
  BY DEF Idle, RequestStates
<1>3. NoLogin \in [at : {"none", "proved", "issued", "redeemed"}, ks : Nat]
  BY DEF NoLogin
<1>4. TypeOK
  BY <1>1, <1>2, <1>3 DEF Init, TypeOK
<1>5. RequestsOK
  BY DEF Init, RequestsOK, RequestOK, Idle
<1> QED
  BY <1>4, <1>5 DEF TInv

\* A step that changes one request leaves all of them well formed when the
\* one it changes is.
LEMMA OneRequest ==
  ASSUME TInv, NEW q \in Requests, NEW x \in RequestStates, RequestOK(x),
         req' = [req EXCEPT ![q] = x]
  PROVE  req' \in [Requests -> RequestStates] /\ RequestsOK'
  BY DEF TInv, TypeOK, RequestsOK, RequestOK

LEMMA FailType ==
  ASSUME TInv, NEW q \in Requests, req[q].pc # "idle", Fail(q)
  PROVE  req' \in [Requests -> RequestStates] /\ RequestsOK'
<1> DEFINE x == [req[q] EXCEPT !.pc = "failed"]
<1>1. req[q] \in RequestStates /\ req[q].rp \in RPs
  BY DEF TInv, TypeOK, RequestsOK, RequestOK
<1>2. x \in RequestStates /\ RequestOK(x)
  BY <1>1 DEF RequestStates, RequestOK
<1>3. req' = [req EXCEPT ![q] = x]
  BY DEF Fail
<1> QED
  BY <1>2, <1>3, OneRequest

(***************************************************************************)
(* Every step of the specification keeps it.                               *)
(***************************************************************************)
LEMMA LoginTInv ==
  ASSUME TInv, NEW r \in RPs, Login(r)
  PROVE  TInv'
<1> USE DEF TInv, TypeOK, RequestsOK, rpVars, brokerVars, idpVars, histVars
<1>1. CASE RPSaveSessionKS(r)
  BY <1>1 DEF RPSaveSessionKS
<1>2. CASE IdPSaveSessionKS(r)
  BY <1>2 DEF IdPSaveSessionKS
<1>3. CASE BrokerStoresTokens(r)
  BY <1>3 DEF BrokerStoresTokens
<1>4. CASE LoginCompletes(r)
  BY <1>4 DEF LoginCompletes, NoLogin
<1> QED
  BY <1>1, <1>2, <1>3, <1>4 DEF Login

LEMMA ClickTInv ==
  ASSUME TInv, NEW q \in Requests, NEW r \in RPs, Click(q, r)
  PROVE  TInv'
<1> DEFINE x == [req[q] EXCEPT !.pc = "posted", !.rp = r]
<1>1. req[q] \in RequestStates
  BY DEF TInv, TypeOK
<1>2. x \in RequestStates /\ RequestOK(x) /\ req' = [req EXCEPT ![q] = x]
  BY <1>1 DEF Click, RequestStates, RequestOK
<1>3. req' \in [Requests -> RequestStates] /\ RequestsOK'
  BY <1>2, OneRequest
<1> QED
  BY <1>3 DEF Click, TInv, TypeOK, rpVars, brokerVars, idpVars, histVars

LEMMA BrokerTInv ==
  ASSUME TInv, NEW q \in Requests,
         BrokerCheck(q) \/ BrokerRefuse(q) \/ BrokerReadHdr(q) \/ BrokerSend(q) \/ BrokerRelay(q)
  PROVE  TInv'
<1>1. req[q] \in RequestStates /\ RequestOK(req[q]) /\ seq \in [RPs -> Nat] /\ tok \in [RPs -> Nat]
  BY DEF TInv, TypeOK, RequestsOK
<1> DEFINE r == req[q].rp
<1>2. CASE BrokerCheck(q)
  <2> DEFINE x == [req[q] EXCEPT !.pc = "checked", !.tok = tok[r]]
  <2>1. x \in RequestStates /\ RequestOK(x) /\ req' = [req EXCEPT ![q] = x]
    BY <1>1, <1>2 DEF BrokerCheck, RequestStates, RequestOK
  <2>2. req' \in [Requests -> RequestStates] /\ RequestsOK'
    BY <2>1, OneRequest
  <2> QED
    BY <1>2, <2>2 DEF BrokerCheck, TInv, TypeOK, rpVars, brokerVars, idpVars, histVars
<1>3. CASE BrokerRefuse(q)
  <2>1. req' \in [Requests -> RequestStates] /\ RequestsOK'
    BY <1>3, FailType DEF BrokerRefuse
  <2> QED
    BY <1>3, <2>1 DEF BrokerRefuse, TInv, TypeOK, rpVars, brokerVars, idpVars, histVars
<1>4. CASE BrokerReadHdr(q)
  <2> DEFINE x == [req[q] EXCEPT !.pc = "hdr", !.hdr = <<r, seq[r]>>]
  <2>1. r \in RPs /\ seq[r] \in Nat /\ seq[r] < N
    BY <1>1, <1>4 DEF BrokerReadHdr, RequestOK, HasPrekey
  <2>2. <<r, seq[r]>> \in Prekeys
    BY <2>1, BoundsAssumption DEF Prekeys
  <2>3. x \in RequestStates /\ RequestOK(x) /\ req' = [req EXCEPT ![q] = x]
    BY <1>1, <1>4, <2>1, <2>2 DEF BrokerReadHdr, RequestStates, RequestOK
  <2>4. req' \in [Requests -> RequestStates] /\ RequestsOK'
    BY <2>3, OneRequest
  <2> QED
    BY <1>4, <2>4 DEF BrokerReadHdr, TInv, TypeOK, rpVars, brokerVars, idpVars, histVars
<1>5. CASE BrokerSend(q)
  <2> DEFINE x == [req[q] EXCEPT !.pc = "sent", !.seq = seq[r]]
  <2>1. x \in RequestStates /\ RequestOK(x) /\ req' = [req EXCEPT ![q] = x]
    BY <1>1, <1>5 DEF BrokerSend, RequestStates, RequestOK
  <2>2. req' \in [Requests -> RequestStates] /\ RequestsOK'
    BY <2>1, OneRequest
  <2> QED
    BY <1>5, <2>2 DEF BrokerSend, TInv, TypeOK, rpVars, brokerVars, idpVars, histVars
<1>6. CASE BrokerRelay(q)
  <2> DEFINE x == [req[q] EXCEPT !.pc = IF req[q].caller = "rp" THEN "relayed" ELSE "failed"]
  <2>1. x \in RequestStates /\ RequestOK(x) /\ req' = [req EXCEPT ![q] = x]
    BY <1>1, <1>6 DEF BrokerRelay, RequestStates, RequestOK
  <2>2. req' \in [Requests -> RequestStates] /\ RequestsOK'
    BY <2>1, OneRequest
  <2>3. seq' \in [RPs -> Nat]
    BY <1>1, <1>6 DEF BrokerRelay, RequestOK, NextSeq
  <2> QED
    BY <1>6, <2>2, <2>3 DEF BrokerRelay, TInv, TypeOK, rpVars, brokerVars, idpVars, histVars
<1> QED
  BY <1>2, <1>3, <1>4, <1>5, <1>6

LEMMA IdPTInv ==
  ASSUME TInv, NEW q \in Requests, IdPAnswer(q) \/ IdPReject(q)
  PROVE  TInv'
<1>1. /\ req[q] \in RequestStates /\ RequestOK(req[q]) /\ req[q].pc = "sent"
      /\ minted \in Nat
  BY DEF TInv, TypeOK, RequestsOK, IdPAnswer, IdPReject
<1>2. idp' \in [root : RootKeys, n : Nat, dhA : Prekeys \cup {Nil}, ipk : Nat]
  BY <1>1, IdPStepType DEF IdPAnswer, IdPReject
<1>3. CASE IdPAnswer(q)
  <2> DEFINE x == [req[q] EXCEPT
                     !.pc = IF req[q].caller = "none" THEN "failed" ELSE "answered",
                     !.ans = Answer(q, minted + 1)]
  <2>1. minted' = minted + 1 /\ minted' \in Nat
    BY <1>1, <1>3 DEF IdPAnswer
  <2>2. Answer(q, minted + 1) \in Answers
    BY <1>1, <2>1, IdPStepType DEF Answer, Answers, RequestOK, RequestStates
  <2>3. x \in RequestStates /\ RequestOK(x)
    BY <1>1, <2>2 DEF RequestStates, RequestOK
  <2>4. req' = [req EXCEPT ![q] = x]
    BY <1>3, <2>1 DEF IdPAnswer
  <2>5. req' \in [Requests -> RequestStates] /\ RequestsOK'
    BY <2>3, <2>4, OneRequest
  <2> QED
    BY <1>2, <1>3, <2>1, <2>5 DEF IdPAnswer, TInv, TypeOK, rpVars, brokerVars, histVars
<1>4. CASE IdPReject(q)
  <2>1. req' \in [Requests -> RequestStates] /\ RequestsOK'
    BY <1>1, <1>4, FailType DEF IdPReject
  <2> QED
    BY <1>2, <1>4, <2>1 DEF IdPReject, TInv, TypeOK, rpVars, brokerVars, histVars
<1> QED
  BY <1>3, <1>4

LEMMA RPTInv ==
  ASSUME TInv, NEW q \in Requests,
         RPOpen(q) \/ RPCannotOpen(q) \/ RPSeqOutOfRange(q) \/ SaveSession(q)
  PROVE  TInv'
<1>1. /\ req[q] \in RequestStates /\ RequestOK(req[q]) /\ req[q].pc \in {"relayed", "opened"}
      /\ req[q].rp \in RPs /\ req[q].ans \in Answers
  BY DEF TInv, TypeOK, RequestsOK, RequestOK, RPOpen, RPCannotOpen, RPSeqOutOfRange, SaveSession
<1>2. req[q].ans.token \in Nat
  BY <1>1 DEF Answers
<1>3. CASE RPOpen(q)
  <2> DEFINE x == [req[q] EXCEPT !.pc = "opened"]
  <2>1. x \in RequestStates /\ RequestOK(x) /\ req' = [req EXCEPT ![q] = x]
    BY <1>1, <1>3 DEF RPOpen, RequestStates, RequestOK
  <2>2. req' \in [Requests -> RequestStates] /\ RequestsOK'
    BY <2>1, OneRequest
  <2>3. rp' \in [RPs -> [root : RootKeys, n : Nat, dhB : Nat \cup {Nil}]]
    BY <1>3, RPStepType DEF RPOpen
  <2>4. taken' \in [RPs -> Nat]
    BY <1>1, <1>2, <1>3 DEF RPOpen, TInv, TypeOK
  <2> QED
    BY <1>3, <2>2, <2>3, <2>4 DEF RPOpen, TInv, TypeOK, brokerVars, idpVars
<1>4. CASE RPCannotOpen(q)
  <2>1. req' \in [Requests -> RequestStates] /\ RequestsOK'
    BY <1>1, <1>4, FailType DEF RPCannotOpen
  <2>2. rp' \in [RPs -> [root : RootKeys, n : Nat, dhB : Nat \cup {Nil}]]
    BY <1>4, RPStepType DEF RPCannotOpen
  <2> QED
    BY <1>4, <2>1, <2>2 DEF RPCannotOpen, TInv, TypeOK, brokerVars, idpVars
<1>5. CASE RPSeqOutOfRange(q)
  <2> DEFINE r == req[q].rp
  <2>1. req' \in [Requests -> RequestStates] /\ RequestsOK'
    BY <1>1, <1>5, FailType DEF RPSeqOutOfRange
  <2>2. SeedRoot(rp[r].root, rpKS[r]) \in RootKeys
    BY <1>1, SeedRootType DEF TInv, TypeOK
  <2>3. rp' \in [RPs -> [root : RootKeys, n : Nat, dhB : Nat \cup {Nil}]]
    BY <1>1, <1>5, <2>2 DEF RPSeqOutOfRange, TInv, TypeOK
  <2> QED
    BY <1>5, <2>1, <2>3 DEF RPSeqOutOfRange, TInv, TypeOK, brokerVars, idpVars, histVars
<1>6. CASE SaveSession(q)
  <2> DEFINE x == [req[q] EXCEPT !.pc = "done"]
  <2>1. x \in RequestStates /\ RequestOK(x) /\ req' = [req EXCEPT ![q] = x]
    BY <1>1, <1>6 DEF SaveSession, RequestStates, RequestOK
  <2>2. req' \in [Requests -> RequestStates] /\ RequestsOK'
    BY <2>1, OneRequest
  <2>3. session' \in [RPs -> Nat \cup {NoSession}]
    BY <1>1, <1>2, <1>6 DEF SaveSession, TInv, TypeOK
  <2> QED
    BY <1>6, <2>2, <2>3 DEF SaveSession, TInv, TypeOK, brokerVars, idpVars, histVars
<1> QED
  BY <1>3, <1>4, <1>5, <1>6

\* A crash ends requests or takes their callers away; both keep them typed.
LEMMA BrokerStopsTInv ==
  ASSUME TInv, NEW r \in RPs, BrokerStops(r), faults' \in Nat
  PROVE  TInv'
<1>1. ASSUME NEW q \in Requests
      PROVE  req'[q] \in RequestStates /\ RequestOK(req'[q])
  <2>1. req[q] \in RequestStates /\ RequestOK(req[q])
    BY DEF TInv, TypeOK, RequestsOK
  <2>2. \/ req'[q] = req[q]
        \/ /\ req[q].pc # "idle"
           /\ \/ req'[q] = [req[q] EXCEPT !.pc = "failed"]
              \/ req'[q] = [req[q] EXCEPT !.caller = "none"]
    BY DEF BrokerStops
  <2> QED
    BY <2>1, <2>2 DEF RequestStates, RequestOK
<1>2. req' = [q \in Requests |-> req'[q]]
  BY DEF BrokerStops
<1>3. req' \in [Requests -> RequestStates] /\ RequestsOK'
  BY <1>1, <1>2 DEF RequestsOK
<1> QED
  BY <1>3 DEF BrokerStops, TInv, TypeOK, rpVars, idpVars, histVars

LEMMA RPRestartTInv ==
  ASSUME TInv, NEW r \in RPs, RPRestart(r)
  PROVE  TInv'
<1>1. ASSUME NEW q \in Requests
      PROVE  req'[q] \in RequestStates /\ RequestOK(req'[q])
  <2>1. req[q] \in RequestStates /\ RequestOK(req[q])
    BY DEF TInv, TypeOK, RequestsOK
  <2>2. \/ req'[q] = req[q]
        \/ /\ req[q].pc # "idle"
           /\ \/ req'[q] = [req[q] EXCEPT !.pc = "failed"]
              \/ req'[q] = [req[q] EXCEPT !.caller = "broker"]
    BY DEF RPRestart, Ended
  <2> QED
    BY <2>1, <2>2 DEF RequestStates, RequestOK
<1>2. req' = [q \in Requests |-> req'[q]]
  BY DEF RPRestart
<1>3. req' \in [Requests -> RequestStates] /\ RequestsOK'
  BY <1>1, <1>2 DEF RequestsOK
<1>4. rp' \in [RPs -> [root : RootKeys, n : Nat, dhB : Nat \cup {Nil}]]
  BY DEF RPRestart, Unseeded, RootKeys, TInv, TypeOK
<1> QED
  BY <1>3, <1>4 DEF RPRestart, Fault, NoLogin, TInv, TypeOK, brokerVars, idpVars, histVars

LEMMA IdPRestartTInv ==
  ASSUME TInv, IdPRestart
  PROVE  TInv'
<1>1. ASSUME NEW q \in Requests
      PROVE  req'[q] \in RequestStates /\ RequestOK(req'[q])
  <2>1. req[q] \in RequestStates /\ RequestOK(req[q])
    BY DEF TInv, TypeOK, RequestsOK
  <2> QED
    BY <2>1 DEF IdPRestart, RequestStates, RequestOK
<1>2. req' = [q \in Requests |-> req'[q]]
  BY DEF IdPRestart
<1>3. req' \in [Requests -> RequestStates] /\ RequestsOK'
  BY <1>1, <1>2 DEF RequestsOK
<1>4. idp' \in [root : RootKeys, n : Nat, dhA : Prekeys \cup {Nil}, ipk : Nat]
  BY DEF IdPRestart, Unseeded, RootKeys, TInv, TypeOK
<1> QED
  BY <1>3, <1>4 DEF IdPRestart, Fault, TInv, TypeOK, rpVars, brokerVars, histVars

LEMMA CallsTInv ==
  ASSUME TInv, NEW q \in Requests, RPTimeout(q) \/ IdPCallFails(q)
  PROVE  TInv'
<1>1. req[q] \in RequestStates /\ RequestOK(req[q]) /\ req[q].pc # "idle"
  BY DEF TInv, TypeOK, RequestsOK, RPTimeout, IdPCallFails
<1> DEFINE alone   == [req[q] EXCEPT !.caller = "broker"]
           orphan  == [req[q] EXCEPT !.caller = "none"]
<1>2. /\ alone \in RequestStates /\ RequestOK(alone)
      /\ orphan \in RequestStates /\ RequestOK(orphan)
  BY <1>1 DEF RequestStates, RequestOK
<1>3. \/ Fail(q)
      \/ req' = [req EXCEPT ![q] = alone]
      \/ req' = [req EXCEPT ![q] = orphan]
  BY DEF RPTimeout, IdPCallFails
<1>4. req' \in [Requests -> RequestStates] /\ RequestsOK'
  BY <1>1, <1>2, <1>3, FailType, OneRequest
<1> QED
  BY <1>4 DEF RPTimeout, IdPCallFails, Fault, TInv, TypeOK, rpVars, brokerVars, idpVars, histVars

LEMMA NextTInv == TInv /\ [Next]_vars => TInv'
<1> SUFFICES ASSUME TInv, [Next]_vars PROVE TInv'
  OBVIOUS
<1>1. CASE \E q \in Requests : Handle(q)
  <2> PICK q \in Requests : Handle(q)
    BY <1>1
  <2>1. CASE BrokerPanic(q)
    <3>1. req[q].rp \in RPs
      BY <2>1 DEF BrokerPanic, TInv, RequestsOK, RequestOK
    <3> QED
      BY <2>1, <3>1, BrokerStopsTInv DEF BrokerPanic, TInv, TypeOK
  <2> QED
    BY <2>1, BrokerTInv, IdPTInv, RPTInv DEF Handle
<1>2. CASE \E q \in Requests : \E r \in RPs : Click(q, r)
  BY <1>2, ClickTInv
<1>3. CASE \E r \in RPs : Login(r)
  BY <1>3, LoginTInv
<1>4. CASE Environment
  <2>1. CASE \E t \in valid : TokenExpires(t)
    BY <2>1 DEF TokenExpires, Fault, TInv, TypeOK, RequestsOK,
                rpVars, brokerVars, idpVars, histVars
  <2>2. CASE \E r \in RPs : BrokerRestart(r)
    BY <2>2, BrokerStopsTInv DEF BrokerRestart, Fault, TInv, TypeOK
  <2> QED
    BY <1>4, <2>1, <2>2, CallsTInv, RPRestartTInv, IdPRestartTInv DEF Environment
<1>5. CASE UNCHANGED vars
  BY <1>5 DEF TInv, TypeOK, RequestsOK, vars
<1> QED
  BY <1>1, <1>2, <1>3, <1>4, <1>5 DEF Next

\* Every state of the refresh path is well typed: no index, header or answer
\* is ever used before the code has set it.
THEOREM TypeCorrect == Spec => []TypeOK
<1>1. TInv => TypeOK
  BY DEF TInv
<1> QED
  BY <1>1, InitTInv, NextTInv, PTL DEF Spec

(***************************************************************************)
(* Message keys.  A root key that took a DH step ends in the IdP key pair  *)
(* of that step, and IdP key pairs are never made twice: so a root key the *)
(* IdP has left behind, by a DH step or by a restart, never comes back,    *)
(* and along the current one the chain position only grows.                *)
(***************************************************************************)
Answered == {q \in Requests : req[q].ans # Nil}

\* Of the ratchet: a header has been seen only if a DH step was made.
RatchetOK(st) ==
  /\ st.dhA # Nil => st.root.steps # <<>> /\ st.root.seed # NoKS
  /\ st.root.steps # <<>> => LastKey(st.root) \in Nat /\ LastKey(st.root) <= st.ipk

\* Of a message key mk: the ratchet st has moved past it.
Past(mk, st) ==
  /\ mk.root.steps # <<>>
  /\ LastKey(mk.root) \in Nat /\ LastKey(mk.root) <= st.ipk
  /\ mk.root = st.root => mk.n < st.n

AnswersPast == \A q \in Answered : Past(req[q].ans.mk, idp)

KeysOK == RatchetOK(idp) /\ AnswersPast /\ MessageKeysDistinct

LEMMA InitKeysOK == Init => KeysOK
  BY DEF Init, KeysOK, RatchetOK, AnswersPast, Answered, MessageKeysDistinct, Idle, Unseeded

\* A step that leaves the IdP's ratchet and the answers alone keeps it.
LEMMA KeysOKFrame ==
  ASSUME KeysOK, idp' = idp, \A q \in Requests : req'[q].ans = req[q].ans
  PROVE  KeysOK'
  BY DEF KeysOK, RatchetOK, AnswersPast, Answered, Past, MessageKeysDistinct

\* The message key the IdP is about to use is new, and the IdP's ratchet moves
\* past it and stays past the older ones.
LEMMA FreshKey ==
  ASSUME TInv, KeysOK, NEW q \in Requests, req[q].pc = "sent",
         IdPCommit(q, IdPPosition(q))
  PROVE  /\ RatchetOK(idp')
         /\ Past(IdPPosition(q), idp')
         /\ \A p \in Answered : /\ Past(req[p].ans.mk, idp')
                                /\ req[p].ans.mk # IdPPosition(q)
<1> DEFINE at == IdPPosition(q)
           dh == DH(IdPKey(q), req[q].hdr)
           seeded == SeedRoot(idp.root, idpKS)
<1>1. /\ req[q].hdr \in Prekeys /\ req[q].hdr # Nil
      /\ idp \in [root : RootKeys, n : Nat, dhA : Prekeys \cup {Nil}, ipk : Nat]
      /\ idpKS \in Nat /\ IdPKey(q) \in Nat
  BY IdPStepType, NilAssumption DEF TInv, TypeOK, RequestsOK, RequestOK
<1>2. at = Position(IsNewHdr(q), seeded, idp.n, dh)
  BY DEF IdPPosition
<1>3. idp' = [root |-> at.root, n |-> at.n + 1, dhA |-> req[q].hdr, ipk |-> IdPKey(q)]
  BY DEF IdPCommit, KdfCK
<1>4. /\ seeded \in RootKeys /\ seeded.seed # NoKS
      /\ idp.root.seed # NoKS => seeded = idp.root
  BY <1>1, SeedRootType
<1>5. RatchetOK(idp) /\ \A p \in Answered : Past(req[p].ans.mk, idp)
  BY DEF KeysOK, AnswersPast
<1>6. CASE IsNewHdr(q)
  <2>1. IdPKey(q) = idp.ipk + 1 /\ at = [root |-> KdfRK(seeded, dh), n |-> 0]
    BY <1>2, <1>6 DEF IdPKey, Position
  <2>2. dh \in DHSteps /\ dh.isk = idp.ipk + 1
    BY <1>1, <2>1 DEF DH, DHSteps
  <2>3. /\ at.root.seed # NoKS /\ at.root.steps # <<>>
        /\ LastKey(at.root) = idp.ipk + 1 /\ at.n = 0
    BY <1>4, <2>1, <2>2, KdfRKLast
  <2>4. RatchetOK(idp') /\ Past(at, idp')
    BY <1>1, <1>3, <2>1, <2>3 DEF RatchetOK, Past
  <2>5. ASSUME NEW p \in Answered
        PROVE  Past(req[p].ans.mk, idp') /\ req[p].ans.mk # at
    <3>1. req[p].ans.mk.root # at.root
      BY <1>1, <1>5, <2>3 DEF Past
    <3> QED
      BY <1>1, <1>3, <1>5, <2>1, <3>1 DEF Past
  <2> QED
    BY <2>4, <2>5
<1>7. CASE ~IsNewHdr(q)
  <2>1. idp.dhA = req[q].hdr /\ IdPKey(q) = idp.ipk
    BY <1>7 DEF IsNewHdr, IdPKey
  <2>2. /\ idp.root.seed # NoKS /\ idp.root.steps # <<>>
        /\ LastKey(idp.root) \in Nat /\ LastKey(idp.root) <= idp.ipk
    BY <1>1, <1>5, <2>1 DEF RatchetOK
  <2>3. at = [root |-> idp.root, n |-> idp.n]
    BY <1>2, <1>4, <1>7, <2>2 DEF Position
  <2>4. RatchetOK(idp') /\ Past(at, idp')
    BY <1>1, <1>3, <2>1, <2>2, <2>3 DEF RatchetOK, Past
  <2>5. ASSUME NEW p \in Answered
        PROVE  Past(req[p].ans.mk, idp') /\ req[p].ans.mk # at
    <3>1. /\ req[p].ans \in Answers
          /\ req[p].ans.mk.n \in Nat
      BY DEF Answered, TInv, TypeOK, RequestStates, Answers, MessageKeys
    <3>2. req[p].ans.mk.root = idp.root => req[p].ans.mk.n < idp.n
      BY <1>5 DEF Past
    <3> QED
      BY <1>1, <1>3, <1>5, <2>1, <2>3, <3>1, <3>2 DEF Past
  <2> QED
    BY <2>4, <2>5
<1> QED
  BY <1>6, <1>7

LEMMA IdPKeysOK ==
  ASSUME TInv, KeysOK, NEW q \in Requests, IdPAnswer(q) \/ IdPReject(q)
  PROVE  KeysOK'
<1>1. req[q].pc = "sent" /\ IdPCommit(q, IdPPosition(q))
  BY DEF IdPAnswer, IdPReject
<1>2. /\ RatchetOK(idp') /\ Past(IdPPosition(q), idp')
      /\ \A p \in Answered : /\ Past(req[p].ans.mk, idp')
                             /\ req[p].ans.mk # IdPPosition(q)
  BY <1>1, FreshKey
<1>3. req \in [Requests -> RequestStates]
  BY DEF TInv, TypeOK
<1>4. CASE IdPAnswer(q)
  <2>1. /\ req'[q].ans = Answer(q, minted')
        /\ \A p \in Requests : p # q => req'[p] = req[p]
    BY <1>3, <1>4 DEF IdPAnswer, RequestStates
  <2>2. Answer(q, minted').mk = IdPPosition(q)
    BY DEF Answer
  <2>3. AnswersPast'
    BY <1>2, <2>1, <2>2 DEF AnswersPast, Answered
  <2>4. MessageKeysDistinct'
    BY <1>2, <2>1, <2>2 DEF KeysOK, MessageKeysDistinct, Answered
  <2> QED
    BY <1>2, <2>3, <2>4 DEF KeysOK
<1>5. CASE IdPReject(q)
  <2>1. \A p \in Requests : req'[p].ans = req[p].ans
    BY <1>3, <1>5 DEF IdPReject, Fail, RequestStates
  <2>2. AnswersPast' /\ MessageKeysDistinct'
    BY <1>2, <2>1 DEF AnswersPast, Answered, KeysOK, MessageKeysDistinct
  <2> QED
    BY <1>2, <2>2 DEF KeysOK
<1> QED
  BY <1>4, <1>5

\* A restarted IdP has no chain, and its next key pair is new.
LEMMA IdPRestartKeysOK ==
  ASSUME TInv, KeysOK, IdPRestart
  PROVE  KeysOK'
<1>1. idp' = [root |-> Unseeded, n |-> 0, dhA |-> Nil, ipk |-> idp.ipk + 1] /\ idp.ipk \in Nat
  BY DEF IdPRestart, TInv, TypeOK
<1>2. \A p \in Requests : req'[p].ans = req[p].ans
  BY DEF IdPRestart, TInv, TypeOK, RequestStates
<1>3. RatchetOK(idp')
  BY <1>1 DEF RatchetOK, Unseeded
<1>4. ASSUME NEW p \in Answered
      PROVE  Past(req[p].ans.mk, idp')
  <2>1. Past(req[p].ans.mk, idp)
    BY DEF KeysOK, AnswersPast
  <2>2. req[p].ans.mk.root # Unseeded
    BY <2>1 DEF Past, Unseeded
  <2> QED
    BY <1>1, <2>1, <2>2 DEF Past
<1>5. AnswersPast' /\ MessageKeysDistinct'
  BY <1>2, <1>4 DEF AnswersPast, Answered, KeysOK, MessageKeysDistinct
<1> QED
  BY <1>3, <1>5 DEF KeysOK

LEMMA NextKeysOK == TInv /\ KeysOK /\ [Next]_vars => KeysOK'
<1> SUFFICES ASSUME TInv, KeysOK, [Next]_vars PROVE KeysOK'
  OBVIOUS
<1> DEFINE frame == idp' = idp /\ \A p \in Requests : req'[p].ans = req[p].ans
<1>1. req \in [Requests -> RequestStates]
  BY DEF TInv, TypeOK
<1>2. ASSUME NEW r, BrokerStops(r) PROVE frame
  BY <1>1, <1>2 DEF BrokerStops, RequestStates, idpVars
<1>3. CASE \E q \in Requests : Handle(q)
  <2> PICK q \in Requests : Handle(q)
    BY <1>3
  <2>1. CASE IdPAnswer(q) \/ IdPReject(q)
    BY <2>1, IdPKeysOK
  <2>2. CASE BrokerPanic(q)
    BY <2>2, <1>2, KeysOKFrame DEF BrokerPanic
  <2>3. CASE BrokerCheck(q) \/ BrokerRefuse(q) \/ BrokerReadHdr(q) \/ BrokerSend(q)
             \/ BrokerRelay(q)
    <3>1. frame
      BY <1>1, <2>3 DEF BrokerCheck, BrokerRefuse, BrokerReadHdr, BrokerSend, BrokerRelay,
                        Fail, RequestStates, idpVars
    <3> QED
      BY <3>1, KeysOKFrame
  <2>4. CASE RPOpen(q) \/ RPCannotOpen(q) \/ RPSeqOutOfRange(q) \/ SaveSession(q)
    <3>1. frame
      BY <1>1, <2>4 DEF RPOpen, RPCannotOpen, RPSeqOutOfRange, SaveSession,
                        Fail, RequestStates, idpVars
    <3> QED
      BY <3>1, KeysOKFrame
  <2> QED
    BY <2>1, <2>2, <2>3, <2>4 DEF Handle
<1>4. CASE \E q \in Requests : \E r \in RPs : Click(q, r)
  <2>1. frame
    BY <1>1, <1>4 DEF Click, RequestStates, idpVars
  <2> QED
    BY <2>1, KeysOKFrame
<1>5. CASE \E r \in RPs : Login(r)
  <2>1. frame
    BY <1>5 DEF Login, RPSaveSessionKS, IdPSaveSessionKS, BrokerStoresTokens, LoginCompletes, idpVars
  <2> QED
    BY <2>1, KeysOKFrame
<1>6. CASE Environment
  <2>1. CASE IdPRestart
    BY <2>1, IdPRestartKeysOK
  <2>2. CASE \E r \in RPs : BrokerRestart(r)
    BY <2>2, <1>2, KeysOKFrame DEF BrokerRestart
  <2>3. CASE \E q \in Requests : RPTimeout(q) \/ IdPCallFails(q)
    <3>1. frame
      BY <1>1, <2>3 DEF RPTimeout, IdPCallFails, Fail, RequestStates, idpVars
    <3> QED
      BY <3>1, KeysOKFrame
  <2>4. CASE \E t \in valid : TokenExpires(t)
    <3>1. frame
      BY <2>4 DEF TokenExpires
    <3> QED
      BY <3>1, KeysOKFrame
  <2>5. CASE \E r \in RPs : RPRestart(r)
    <3>1. frame
      BY <1>1, <2>5 DEF RPRestart, RequestStates, idpVars
    <3> QED
      BY <3>1, KeysOKFrame
  <2> QED
    BY <1>6, <2>1, <2>2, <2>3, <2>4, <2>5 DEF Environment
<1>7. CASE UNCHANGED vars
  BY <1>7, KeysOKFrame DEF vars
<1> QED
  BY <1>3, <1>4, <1>5, <1>6, <1>7 DEF Next

\* The IdP never encrypts two access tokens under one message key, however
\* many RPs share its ratchet and whatever is lost, resent or restarted.
THEOREM MessageKeysNeverReused == Spec => []MessageKeysDistinct
<1>1. KeysOK => MessageKeysDistinct
  BY DEF KeysOK
<1>2. Init => TInv /\ KeysOK
  BY InitTInv, InitKeysOK
<1>3. TInv /\ KeysOK /\ [Next]_vars => (TInv /\ KeysOK)'
  BY NextTInv, NextKeysOK
<1> QED
  BY <1>1, <1>2, <1>3, PTL DEF Spec

(***************************************************************************)
(* The order of answers.  Answers are ordered by the IdP key pair of their *)
(* root key and then by their chain position, and so are their tokens.  An *)
(* RP that took a token has a root key and a chain position beyond every   *)
(* older answer, and no answer, stale or not, brings it back.              *)
(***************************************************************************)
Unanswered == {"idle", "posted", "checked", "hdr", "sent"}

\* A request gets its RP, its answer and its caller where the code sets them.
RequestsFresh == \A q \in Requests :
  /\ req[q].pc = "idle" => req[q].rp = Nil
  /\ req[q].pc \in Unanswered => req[q].ans = Nil
  /\ req[q].pc = "relayed" => req[q].caller = "rp"

StepsBelow(root, k) == \A i \in 1 .. Len(root.steps) : root.steps[i].isk <= k

\* The IdP's key pairs only grow along a root key and from answer to answer.
IdPOrder ==
  /\ StepsBelow(idp.root, idp.ipk)
  /\ idp.dhA # Nil => LastKey(idp.root) = idp.ipk
  /\ \A p \in Answered :
       /\ StepsBelow(req[p].ans.mk.root, LastKey(req[p].ans.mk.root))
       /\ idp.dhA # Nil =>
            LastKey(req[p].ans.mk.root) < idp.ipk \/ req[p].ans.mk.root = idp.root

Before(a, b) == \/ LastKey(a.root) < LastKey(b.root)
                \/ a.root = b.root /\ a.n < b.n

\* Tokens are numbered in the order of their message keys.
TokensOK ==
  /\ \A p \in Answered : req[p].ans.token \in 1 .. minted
  /\ \A p, q \in Answered : p # q =>
       /\ req[p].ans.token # req[q].ans.token
       /\ req[p].ans.token < req[q].ans.token => Before(req[p].ans.mk, req[q].ans.mk)

\* Of an RP's ratchet st: it will not come to the message key mk any more.
Beyond(mk, st) ==
  \/ \E i \in 1 .. Len(st.root.steps) : st.root.steps[i].isk > LastKey(mk.root)
  \/ Len(st.root.steps) > Len(mk.root.steps)
  \/ Len(st.root.steps) = Len(mk.root.steps) /\ mk.n < st.n

\* The answers that their RP may still open.
Deliverable(q) == \/ req[q].pc = "relayed"
                  \/ req[q].pc = "answered" /\ req[q].caller = "rp"

StaleOK ==
  /\ \A r \in RPs : /\ taken[r] <= minted
                    /\ rp[r].root.seed = NoKS => rp[r].root.steps = <<>>
  /\ \A q \in Requests :
       Deliverable(q) /\ req[q].ans.token <= taken[req[q].rp] =>
         Beyond(req[q].ans.mk, rp[req[q].rp])

OInv == RequestsFresh /\ IdPOrder /\ TokensOK /\ StaleOK

RPStates == [root : RootKeys, n : Nat, dhB : Nat \cup {Nil}]

\* A DH step (kdfRK) keeps the earlier ones.
LEMMA KdfRKSteps ==
  ASSUME NEW root \in RootKeys, NEW dh \in DHSteps
  PROVE  /\ Len(KdfRK(root, dh).steps) = Len(root.steps) + 1
         /\ Len(root.steps) \in Nat
         /\ \A i \in 1 .. Len(root.steps) : KdfRK(root, dh).steps[i] = root.steps[i]
         /\ KdfRK(root, dh).steps[Len(root.steps) + 1] = dh
<1> DEFINE s == root.steps
<1>1. s \in Seq(DHSteps)
  BY DEF RootKeys
<1>2. KdfRK(root, dh).steps = Append(s, dh)
  BY DEF KdfRK, RootKeys
<1> QED
  BY <1>1, <1>2

\* Every answer is a typed one, and its key ends in an IdP key pair.
LEMMA AnswerType ==
  ASSUME TInv, KeysOK, NEW q \in Answered
  PROVE  /\ q \in Requests /\ req[q].ans \in Answers
         /\ req[q].ans.mk \in MessageKeys /\ req[q].ans.mk.root \in RootKeys
         /\ req[q].ans.mk.n \in Nat /\ req[q].ans.token \in Nat /\ req[q].ans.hdr \in Nat
         /\ req[q].ans.mk.root.steps # <<>>
         /\ LastKey(req[q].ans.mk.root) \in Nat /\ LastKey(req[q].ans.mk.root) <= idp.ipk
<1>1. q \in Requests /\ req[q].ans \in Answers
  BY DEF Answered, TInv, TypeOK, RequestStates
<1>2. Past(req[q].ans.mk, idp)
  BY DEF KeysOK, AnswersPast
<1> QED
  BY <1>1, <1>2 DEF Answers, MessageKeys, Past

(***************************************************************************)
(* The RP's side.                                                          *)
(***************************************************************************)

\* Where the RP goes for an answer: a DH step on, or along the same chain.
LEMMA RPPositionIs ==
  ASSUME TInv, StaleOK, NEW q \in Requests, req[q].pc = "relayed", SeqInRange(req[q].seq)
  PROVE  /\ rp[req[q].rp] \in RPStates
         /\ RPPosition(q) \in MessageKeys
         /\ \/ /\ Len(RPPosition(q).root.steps) = Len(rp[req[q].rp].root.steps) + 1
               /\ \A i \in 1 .. Len(rp[req[q].rp].root.steps) :
                    RPPosition(q).root.steps[i] = rp[req[q].rp].root.steps[i]
               /\ RPPosition(q).n = 0
            \/ /\ RPPosition(q).root.steps = rp[req[q].rp].root.steps
               /\ RPPosition(q).n = rp[req[q].rp].n
         /\ RPPosition(q).root.seed # NoKS
<1> DEFINE r == req[q].rp
           seeded == SeedRoot(rp[r].root, rpKS[r])
           dh == DH(req[q].ans.hdr, <<r, req[q].seq>>)
<1>1. /\ r \in RPs /\ req[q].ans \in Answers /\ rp[r] \in RPStates
      /\ rpKS[r] \in Nat /\ req[q].seq \in Nat
  BY DEF TInv, TypeOK, RequestsOK, RequestOK, RequestStates, RPStates
<1>2. dh \in DHSteps
  BY <1>1, BoundsAssumption DEF SeqInRange, Prekeys, DH, DHSteps, Answers
<1>3. seeded \in RootKeys /\ seeded.seed # NoKS /\ seeded.steps = rp[r].root.steps
  <2>1. seeded \in RootKeys /\ seeded.seed # NoKS
    BY <1>1, SeedRootType DEF RPStates
  <2>2. rp[r].root.seed = NoKS => rp[r].root.steps = <<>>
    BY <1>1 DEF StaleOK
  <2> QED
    BY <2>1, <2>2 DEF SeedRoot
<1>4. RPPosition(q) = Position(rp[r].dhB # req[q].ans.hdr, seeded, rp[r].n, dh)
  BY DEF RPPosition
<1>5. CASE rp[r].dhB # req[q].ans.hdr
  <2>1. RPPosition(q) = [root |-> KdfRK(seeded, dh), n |-> 0]
    BY <1>4, <1>5 DEF Position
  <2>2. /\ KdfRK(seeded, dh) \in RootKeys /\ KdfRK(seeded, dh).seed # NoKS
        /\ Len(KdfRK(seeded, dh).steps) = Len(seeded.steps) + 1
        /\ \A i \in 1 .. Len(seeded.steps) : KdfRK(seeded, dh).steps[i] = seeded.steps[i]
    BY <1>2, <1>3, KdfRKLast, KdfRKSteps
  <2> HIDE DEF seeded, dh
  <2>3. RPPosition(q) \in MessageKeys
    BY <2>1, <2>2 DEF MessageKeys
  <2>4. RPPosition(q).root = KdfRK(seeded, dh) /\ RPPosition(q).n = 0
    BY <2>1
  <2>5. Len(RPPosition(q).root.steps) = Len(rp[r].root.steps) + 1
    BY <1>3, <2>2, <2>4
  <2>6. \A i \in 1 .. Len(rp[r].root.steps) :
          RPPosition(q).root.steps[i] = rp[r].root.steps[i]
    BY <1>3, <2>2, <2>4
  <2>7. RPPosition(q).root.seed # NoKS
    BY <2>2, <2>4
  <2> QED
    BY <1>1, <2>3, <2>4, <2>5, <2>6, <2>7
<1>6. CASE rp[r].dhB = req[q].ans.hdr
  <2>1. RPPosition(q) = [root |-> seeded, n |-> rp[r].n]
    BY <1>4, <1>6 DEF Position
  <2>2. rp[r].n \in Nat
    BY <1>1 DEF RPStates
  <2> HIDE DEF seeded, dh
  <2>3. RPPosition(q) \in MessageKeys
    BY <1>3, <2>1, <2>2 DEF MessageKeys
  <2> QED
    BY <1>1, <1>3, <2>1, <2>3
<1> QED
  BY <1>5, <1>6

\* Beyond a key, the RP does not come to it ...
LEMMA BeyondMisses ==
  ASSUME TInv, StaleOK, NEW q \in Requests, req[q].pc = "relayed", SeqInRange(req[q].seq),
         NEW mk \in MessageKeys, StepsBelow(mk.root, LastKey(mk.root)), LastKey(mk.root) \in Nat,
         Beyond(mk, rp[req[q].rp])
  PROVE  RPPosition(q) # mk
<1> DEFINE st == rp[req[q].rp]
           at == RPPosition(q)
<1>1. /\ st \in RPStates /\ at \in MessageKeys
      /\ \/ /\ Len(at.root.steps) = Len(st.root.steps) + 1
            /\ \A i \in 1 .. Len(st.root.steps) : at.root.steps[i] = st.root.steps[i]
         \/ at.root.steps = st.root.steps /\ at.n = st.n
  BY RPPositionIs
<1> HIDE DEF st, at
<1>2. /\ Len(st.root.steps) \in Nat /\ Len(mk.root.steps) \in Nat /\ st.n \in Nat /\ mk.n \in Nat
      /\ st.root.steps \in Seq(DHSteps)
  <2>1. st \in RPStates
    BY <1>1
  <2>2. st.root.steps \in Seq(DHSteps) /\ st.n \in Nat
    BY <2>1 DEF RPStates, RootKeys
  <2>3. mk.root.steps \in Seq(DHSteps) /\ mk.n \in Nat
    BY DEF MessageKeys, RootKeys
  <2> QED
    BY <2>2, <2>3
<1> SUFFICES ASSUME at = mk PROVE FALSE
  BY DEF at
<1>3. Beyond(mk, st)
  BY DEF st
<1>4. CASE \E i \in 1 .. Len(st.root.steps) : st.root.steps[i].isk > LastKey(mk.root)
  <2>1. PICK i \in 1 .. Len(st.root.steps) : st.root.steps[i].isk > LastKey(mk.root)
    BY <1>4
  <2>2. i \in 1 .. Len(mk.root.steps) /\ mk.root.steps[i] = st.root.steps[i]
    BY <1>1, <1>2
  <2>3. st.root.steps[i] \in DHSteps
    BY <1>2, <2>1
  <2>4. st.root.steps[i].isk \in Nat
    BY <2>3 DEF DHSteps
  <2> QED
    BY <2>1, <2>2, <2>4 DEF StepsBelow
<1>5. \/ Len(mk.root.steps) = Len(st.root.steps) + 1
      \/ Len(mk.root.steps) = Len(st.root.steps) /\ mk.n = st.n
  BY <1>1
<1>6. CASE Len(st.root.steps) > Len(mk.root.steps)
  BY <1>2, <1>5, <1>6
<1>7. CASE Len(st.root.steps) = Len(mk.root.steps) /\ mk.n < st.n
  BY <1>2, <1>5, <1>7
<1> QED
  BY <1>3, <1>4, <1>6, <1>7 DEF Beyond

\* ... and stays beyond it, whatever it does.
LEMMA BeyondStays ==
  ASSUME TInv, StaleOK, NEW q \in Requests, req[q].pc = "relayed", SeqInRange(req[q].seq),
         RPCommit(q, RPPosition(q)), NEW mk \in MessageKeys, Beyond(mk, rp[req[q].rp])
  PROVE  Beyond(mk, rp'[req[q].rp])
<1> DEFINE st == rp[req[q].rp]
           at == RPPosition(q)
           to == rp'[req[q].rp]
<1>1. /\ st \in RPStates /\ at \in MessageKeys
      /\ \/ /\ Len(at.root.steps) = Len(st.root.steps) + 1
            /\ \A i \in 1 .. Len(st.root.steps) : at.root.steps[i] = st.root.steps[i]
         \/ at.root.steps = st.root.steps /\ at.n = st.n
  BY RPPositionIs
<1>2. /\ Len(st.root.steps) \in Nat /\ Len(mk.root.steps) \in Nat /\ st.n \in Nat /\ mk.n \in Nat
      /\ at.n \in Nat
  <2>1. st \in RPStates
    BY <1>1
  <2>2. st.root.steps \in Seq(DHSteps) /\ st.n \in Nat
    BY <2>1 DEF RPStates, RootKeys
  <2>3. mk.root.steps \in Seq(DHSteps) /\ mk.n \in Nat
    BY DEF MessageKeys, RootKeys
  <2>4. at.n \in Nat
    BY <1>1 DEF MessageKeys
  <2> HIDE DEF st, at
  <2> QED
    BY <2>2, <2>3, <2>4
<1>3. to.root = at.root /\ to.n = at.n + 1
  BY DEF RPCommit, KdfCK, TInv, TypeOK, RequestsOK, RequestOK
<1>4. Beyond(mk, st)
  OBVIOUS
<1> HIDE DEF st, at, to
<1> SUFFICES Beyond(mk, to)
  BY DEF to
<1>5. CASE \E i \in 1 .. Len(st.root.steps) : st.root.steps[i].isk > LastKey(mk.root)
  <2>1. PICK i \in 1 .. Len(st.root.steps) : st.root.steps[i].isk > LastKey(mk.root)
    BY <1>5
  <2>2. i \in 1 .. Len(to.root.steps) /\ to.root.steps[i] = st.root.steps[i]
    BY <1>1, <1>2, <1>3
  <2> QED
    BY <2>1, <2>2 DEF Beyond
<1>a. \/ Len(to.root.steps) = Len(st.root.steps) + 1
      \/ Len(to.root.steps) = Len(st.root.steps) /\ to.n = st.n + 1
  BY <1>1, <1>3
<1>6. CASE Len(st.root.steps) > Len(mk.root.steps)
  <2>1. Len(to.root.steps) > Len(mk.root.steps)
    BY <1>a, <1>2, <1>6
  <2> QED
    BY <2>1 DEF Beyond
<1>7. CASE Len(st.root.steps) = Len(mk.root.steps) /\ mk.n < st.n
  <2>1. \/ Len(to.root.steps) > Len(mk.root.steps)
        \/ Len(to.root.steps) = Len(mk.root.steps) /\ mk.n < to.n
    BY <1>a, <1>2, <1>7
  <2> QED
    BY <2>1 DEF Beyond
<1> QED
  BY <1>4, <1>5, <1>6, <1>7 DEF Beyond

\* Having used a message key, an RP is beyond every key before it.
LEMMA UsedBeyond ==
  ASSUME NEW a \in MessageKeys, NEW b \in MessageKeys, Before(a, b),
         b.root.steps # <<>>, NEW st, st.root = b.root, st.n = b.n + 1
  PROVE  Beyond(a, st)
<1>1. /\ b.root.steps \in Seq(DHSteps) /\ Len(b.root.steps) \in Nat /\ Len(b.root.steps) # 0
      /\ a.n \in Nat /\ b.n \in Nat
  BY DEF MessageKeys, RootKeys
<1>2. CASE LastKey(a.root) < LastKey(b.root)
  <2>1. Len(b.root.steps) \in 1 .. Len(st.root.steps)
    BY <1>1
  <2>2. st.root.steps[Len(b.root.steps)].isk = LastKey(b.root)
    BY DEF LastKey
  <2> QED
    BY <1>2, <2>1, <2>2 DEF Beyond
<1>3. CASE a.root = b.root /\ a.n < b.n
  BY <1>1, <1>3 DEF Beyond
<1> QED
  BY <1>2, <1>3 DEF Before

(***************************************************************************)
(* The IdP's side.                                                         *)
(***************************************************************************)

\* The next message key comes after every one that was used.
LEMMA NextKeyAfter ==
  ASSUME TInv, KeysOK, OInv, NEW q \in Requests, req[q].pc = "sent",
         IdPCommit(q, IdPPosition(q))
  PROVE  /\ StepsBelow(IdPPosition(q).root, LastKey(IdPPosition(q).root))
         /\ StepsBelow(idp'.root, idp'.ipk) /\ LastKey(idp'.root) = idp'.ipk
         /\ IdPPosition(q).root = idp'.root
         /\ \A p \in Answered :
              /\ Before(req[p].ans.mk, IdPPosition(q))
              /\ LastKey(req[p].ans.mk.root) < idp'.ipk \/ req[p].ans.mk.root = idp'.root
<1> DEFINE at == IdPPosition(q)
           dh == DH(IdPKey(q), req[q].hdr)
           seeded == SeedRoot(idp.root, idpKS)
<1>1. /\ req[q].hdr \in Prekeys /\ req[q].hdr # Nil
      /\ idp \in [root : RootKeys, n : Nat, dhA : Prekeys \cup {Nil}, ipk : Nat]
      /\ idpKS \in Nat /\ IdPKey(q) \in Nat
  BY IdPStepType, NilAssumption DEF TInv, TypeOK, RequestsOK, RequestOK
<1>2. at = Position(IsNewHdr(q), seeded, idp.n, dh)
  BY DEF IdPPosition
<1>3. idp' = [root |-> at.root, n |-> at.n + 1, dhA |-> req[q].hdr, ipk |-> IdPKey(q)]
  BY DEF IdPCommit, KdfCK
<1>4. /\ seeded \in RootKeys /\ seeded.seed # NoKS
      /\ idp.root.seed # NoKS => seeded = idp.root
      /\ seeded.steps = idp.root.steps \/ seeded.steps = <<>>
  BY <1>1, SeedRootType DEF SeedRoot
<1>5. /\ RatchetOK(idp) /\ StepsBelow(idp.root, idp.ipk)
      /\ idp.dhA # Nil => LastKey(idp.root) = idp.ipk
  BY DEF KeysOK, OInv, IdPOrder
<1>6. CASE IsNewHdr(q)
  <2>1. IdPKey(q) = idp.ipk + 1 /\ at = [root |-> KdfRK(seeded, dh), n |-> 0]
    BY <1>2, <1>6 DEF IdPKey, Position
  <2>2. dh \in DHSteps /\ dh.isk = idp.ipk + 1
    BY <1>1, <2>1 DEF DH, DHSteps
  <2>3. LastKey(at.root) = idp.ipk + 1
    BY <1>4, <2>1, <2>2, KdfRKLast
  <2>4. StepsBelow(at.root, idp.ipk + 1)
    <3>1. /\ Len(at.root.steps) = Len(seeded.steps) + 1 /\ Len(seeded.steps) \in Nat
          /\ \A i \in 1 .. Len(seeded.steps) : at.root.steps[i] = seeded.steps[i]
          /\ at.root.steps[Len(seeded.steps) + 1] = dh
      BY <1>4, <2>1, <2>2, KdfRKSteps
    <3>2. \A i \in 1 .. Len(seeded.steps) : seeded.steps[i].isk <= idp.ipk
      BY <1>4, <1>5 DEF StepsBelow
    <3>3. \A i \in 1 .. Len(seeded.steps) : seeded.steps[i].isk \in Nat
      <4>1. seeded.steps \in Seq(DHSteps)
        BY <1>4 DEF RootKeys
      <4>2. \A i \in 1 .. Len(seeded.steps) : seeded.steps[i] \in DHSteps
        BY <4>1
      <4> QED
        BY <4>2 DEF DHSteps
    <3> HIDE DEF seeded, at, dh
    <3> SUFFICES ASSUME NEW i \in 1 .. Len(at.root.steps)
                 PROVE  at.root.steps[i].isk <= idp.ipk + 1
      BY DEF StepsBelow
    <3>4. CASE i = Len(seeded.steps) + 1
      BY <1>1, <2>2, <3>1, <3>4
    <3>5. CASE i \in 1 .. Len(seeded.steps)
      <4>1. at.root.steps[i].isk <= idp.ipk /\ at.root.steps[i].isk \in Nat
        BY <3>1, <3>2, <3>3, <3>5
      <4> QED
        BY <1>1, <4>1
    <3> QED
      BY <3>1, <3>4, <3>5
  <2>5. \A p \in Answered : LastKey(req[p].ans.mk.root) < idp.ipk + 1
    BY <1>1, AnswerType
  <2> HIDE DEF at, dh, seeded
  <2>6. idp'.root = at.root /\ idp'.ipk = idp.ipk + 1
    BY <1>3, <2>1
  <2> QED
    BY <2>3, <2>4, <2>5, <2>6 DEF Before, at
<1>7. CASE ~IsNewHdr(q)
  <2>1. idp.dhA = req[q].hdr /\ IdPKey(q) = idp.ipk
    BY <1>7 DEF IsNewHdr, IdPKey
  <2>2. idp.root.seed # NoKS
    BY <1>1, <1>5, <2>1 DEF RatchetOK
  <2>3. at = [root |-> idp.root, n |-> idp.n]
    BY <1>2, <1>4, <1>7, <2>2 DEF Position
  <2>4. idp'.root = idp.root /\ idp'.ipk = idp.ipk /\ at.root = idp.root /\ at.n = idp.n
    BY <1>3, <2>1, <2>3
  <2>5. LastKey(idp.root) = idp.ipk
    BY <1>1, <1>5, <2>1
  <2>6. \A p \in Answered :
          /\ LastKey(req[p].ans.mk.root) < idp.ipk \/ req[p].ans.mk.root = idp.root
          /\ req[p].ans.mk.root = idp.root => req[p].ans.mk.n < idp.n
    BY <1>1, <2>1 DEF OInv, IdPOrder, KeysOK, AnswersPast, Past
  <2> HIDE DEF at, dh, seeded
  <2> QED
    BY <1>5, <2>4, <2>5, <2>6 DEF Before, at
<1> QED
  BY <1>6, <1>7

(***************************************************************************)
(* Every step but a click, an answer of the IdP and an opened answer moves *)
(* requests on without giving them anything.                               *)
(***************************************************************************)
MovesOn(p) ==
  /\ req'[p].ans = req[p].ans /\ req'[p].rp = req[p].rp
  /\ req'[p].pc = "idle" => req[p].pc = "idle"
  /\ req'[p].pc \in Unanswered => req[p].pc \in Unanswered
  /\ req'[p].pc = "relayed" => req'[p].caller = "rp"
  /\ Deliverable(p)' => Deliverable(p)

AllMoveOn == \A p \in Requests : MovesOn(p)

\* One request goes on to another step of its handler.
LEMMA GoesOn ==
  ASSUME TInv, RequestsFresh, NEW q \in Requests, NEW x \in RequestStates,
         req' = [req EXCEPT ![q] = x],
         x.ans = req[q].ans, x.rp = req[q].rp, x.pc # "idle",
         x.pc \in Unanswered => req[q].pc \in Unanswered,
         x.pc = "relayed" => x.caller = "rp" /\ req[q].pc \in {"answered", "relayed"},
         x.pc = "answered" /\ x.caller = "rp" => req[q].pc = "answered",
         x.caller = "rp" => req[q].caller = "rp"
  PROVE  AllMoveOn
<1>1. \A p \in Requests : req'[p] = IF p = q THEN x ELSE req[p]
  BY DEF TInv, TypeOK
<1>2. ASSUME NEW p \in Requests PROVE MovesOn(p)
  <2>1. CASE p = q
    BY <1>1, <2>1 DEF MovesOn, Deliverable
  <2>2. CASE p # q
    BY <1>1, <2>2 DEF MovesOn, Deliverable, RequestsFresh
  <2> QED
    BY <2>1, <2>2
<1> QED
  BY <1>2 DEF AllMoveOn

LEMMA FailMovesOn ==
  ASSUME TInv, RequestsFresh, NEW q \in Requests, Fail(q)
  PROVE  AllMoveOn
<1> DEFINE x == [req[q] EXCEPT !.pc = "failed"]
<1>1. req[q] \in RequestStates
  BY DEF TInv, TypeOK
<1>2. /\ x \in RequestStates /\ req' = [req EXCEPT ![q] = x] /\ x.ans = req[q].ans
      /\ x.rp = req[q].rp /\ x.pc = "failed" /\ x.caller = req[q].caller
  BY <1>1 DEF Fail, RequestStates
<1> HIDE DEF x
<1> QED
  BY <1>2, GoesOn DEF Unanswered

LEMMA HandleMovesOn ==
  ASSUME TInv, RequestsFresh, NEW q \in Requests, Handle(q), ~IdPAnswer(q), ~BrokerPanic(q)
  PROVE  AllMoveOn
<1> DEFINE r == req[q].rp
<1>1. /\ req[q] \in RequestStates /\ RequestOK(req[q])
      /\ seq \in [RPs -> Nat] /\ tok \in [RPs -> Nat]
  BY DEF TInv, TypeOK, RequestsOK
<1>2. CASE BrokerRefuse(q) \/ IdPReject(q) \/ RPCannotOpen(q) \/ RPSeqOutOfRange(q)
  BY <1>2, FailMovesOn DEF BrokerRefuse, IdPReject, RPCannotOpen, RPSeqOutOfRange
<1> USE DEF Unanswered
<1>3. CASE BrokerCheck(q)
  <2> DEFINE x == [req[q] EXCEPT !.pc = "checked", !.tok = tok[r]]
  <2>1. /\ x \in RequestStates /\ req' = [req EXCEPT ![q] = x] /\ req[q].pc = "posted"
        /\ x.ans = req[q].ans /\ x.rp = r /\ x.pc = "checked" /\ x.caller = req[q].caller
    BY <1>1, <1>3 DEF BrokerCheck, RequestStates, RequestOK
  <2> HIDE DEF x
  <2> QED
    BY <2>1, GoesOn
<1>4. CASE BrokerReadHdr(q)
  <2> DEFINE x == [req[q] EXCEPT !.pc = "hdr", !.hdr = <<r, seq[r]>>]
  <2>1. r \in RPs /\ seq[r] \in Nat /\ seq[r] < N
    BY <1>1, <1>4 DEF BrokerReadHdr, RequestOK, HasPrekey
  <2>2. <<r, seq[r]>> \in Prekeys
    BY <2>1, BoundsAssumption DEF Prekeys
  <2>3. /\ x \in RequestStates /\ req' = [req EXCEPT ![q] = x] /\ req[q].pc = "checked"
        /\ x.ans = req[q].ans /\ x.rp = r /\ x.pc = "hdr" /\ x.caller = req[q].caller
    BY <1>1, <1>4, <2>2 DEF BrokerReadHdr, RequestStates
  <2> HIDE DEF x
  <2> QED
    BY <2>3, GoesOn
<1>5. CASE BrokerSend(q)
  <2> DEFINE x == [req[q] EXCEPT !.pc = "sent", !.seq = seq[r]]
  <2>1. /\ x \in RequestStates /\ req' = [req EXCEPT ![q] = x] /\ req[q].pc = "hdr"
        /\ x.ans = req[q].ans /\ x.rp = r /\ x.pc = "sent" /\ x.caller = req[q].caller
    BY <1>1, <1>5 DEF BrokerSend, RequestStates, RequestOK
  <2> HIDE DEF x
  <2> QED
    BY <2>1, GoesOn
<1>6. CASE BrokerRelay(q)
  <2> DEFINE x == [req[q] EXCEPT !.pc = IF req[q].caller = "rp" THEN "relayed" ELSE "failed"]
  <2>1. /\ x \in RequestStates /\ req' = [req EXCEPT ![q] = x] /\ req[q].pc = "answered"
        /\ x.ans = req[q].ans /\ x.rp = r /\ x.caller = req[q].caller
        /\ x.pc = IF req[q].caller = "rp" THEN "relayed" ELSE "failed"
    BY <1>1, <1>6 DEF BrokerRelay, RequestStates
  <2> HIDE DEF x
  <2> QED
    BY <2>1, GoesOn
<1>7. CASE RPOpen(q)
  <2> DEFINE x == [req[q] EXCEPT !.pc = "opened"]
  <2>1. /\ x \in RequestStates /\ req' = [req EXCEPT ![q] = x]
        /\ x.ans = req[q].ans /\ x.rp = r /\ x.pc = "opened" /\ x.caller = req[q].caller
    BY <1>1, <1>7 DEF RPOpen, RequestStates
  <2> HIDE DEF x
  <2> QED
    BY <2>1, GoesOn
<1>8. CASE SaveSession(q)
  <2> DEFINE x == [req[q] EXCEPT !.pc = "done"]
  <2>1. /\ x \in RequestStates /\ req' = [req EXCEPT ![q] = x]
        /\ x.ans = req[q].ans /\ x.rp = r /\ x.pc = "done" /\ x.caller = req[q].caller
    BY <1>1, <1>8 DEF SaveSession, RequestStates
  <2> HIDE DEF x
  <2> QED
    BY <2>1, GoesOn
<1> QED
  BY <1>2, <1>3, <1>4, <1>5, <1>6, <1>7, <1>8 DEF Handle

\* Where every request is the one it was, or has failed, or lost its caller.
LEMMA StopsMoveOn ==
  ASSUME TInv, RequestsFresh,
         \A p \in Requests :
           \/ req'[p] = req[p]
           \/ req[p].pc # "idle" /\ req'[p] = [req[p] EXCEPT !.pc = "failed"]
           \/ /\ req[p].pc # "relayed"
              /\ \E caller \in {"broker", "none"} : req'[p] = [req[p] EXCEPT !.caller = caller]
  PROVE  AllMoveOn
<1> SUFFICES ASSUME NEW p \in Requests PROVE MovesOn(p)
  BY DEF AllMoveOn
<1>1. req[p] \in RequestStates
  BY DEF TInv, TypeOK
<1>2. CASE req'[p] = req[p]
  BY <1>2 DEF MovesOn, Deliverable, RequestsFresh
<1>3. CASE req'[p] = [req[p] EXCEPT !.pc = "failed"]
  BY <1>1, <1>3 DEF MovesOn, Deliverable, RequestStates, Unanswered
<1>4. ASSUME req[p].pc # "relayed", NEW caller \in {"broker", "none"},
             req'[p] = [req[p] EXCEPT !.caller = caller]
      PROVE  MovesOn(p)
  BY <1>1, <1>4 DEF MovesOn, Deliverable, RequestStates, Unanswered
<1> QED
  BY <1>2, <1>3, <1>4

LEMMA BrokerStopsMoveOn ==
  ASSUME TInv, RequestsFresh, NEW r, BrokerStops(r)
  PROVE  AllMoveOn
<1>1. ASSUME NEW p \in Requests
      PROVE  \/ req'[p] = req[p]
             \/ req[p].pc # "idle" /\ req'[p] = [req[p] EXCEPT !.pc = "failed"]
             \/ req[p].pc # "relayed" /\ req'[p] = [req[p] EXCEPT !.caller = "none"]
  BY DEF BrokerStops
<1> QED
  BY <1>1, StopsMoveOn

LEMMA EnvironmentMovesOn ==
  ASSUME TInv, RequestsFresh, Environment
  PROVE  AllMoveOn
<1>1. CASE \E r \in RPs : BrokerRestart(r)
  BY <1>1, BrokerStopsMoveOn DEF BrokerRestart
<1>2. CASE \E r \in RPs : RPRestart(r)
  <2> PICK r \in RPs : RPRestart(r)
    BY <1>2
  <2>1. ASSUME NEW p \in Requests
        PROVE  \/ req'[p] = req[p]
               \/ req[p].pc # "idle" /\ req'[p] = [req[p] EXCEPT !.pc = "failed"]
               \/ req[p].pc # "relayed" /\ req'[p] = [req[p] EXCEPT !.caller = "broker"]
    BY DEF RPRestart, Ended
  <2> QED
    BY <2>1, StopsMoveOn
<1>3. CASE IdPRestart
  <2>1. ASSUME NEW p \in Requests
        PROVE  \/ req'[p] = req[p]
               \/ req[p].pc # "idle" /\ req'[p] = [req[p] EXCEPT !.pc = "failed"]
    BY <1>3 DEF IdPRestart
  <2> QED
    BY <2>1, StopsMoveOn
<1>4. CASE \E t \in valid : TokenExpires(t)
  BY <1>4, StopsMoveOn DEF TokenExpires
<1>5. ASSUME NEW q \in Requests, RPTimeout(q) \/ IdPCallFails(q) PROVE AllMoveOn
  <2>1. CASE Fail(q)
    BY <2>1, FailMovesOn
  <2>2. ASSUME req[q].pc # "relayed", NEW caller \in {"broker", "none"},
               req' = [req EXCEPT ![q].caller = caller]
        PROVE  AllMoveOn
    <3>1. \A p \in Requests :
            req'[p] = IF p = q THEN [req[q] EXCEPT !.caller = caller] ELSE req[p]
      BY <2>2 DEF TInv, TypeOK
    <3> QED
      BY <2>2, <3>1, StopsMoveOn
  <2> QED
    BY <1>5, <2>1, <2>2 DEF RPTimeout, IdPCallFails
<1> QED
  BY <1>1, <1>2, <1>3, <1>4, <1>5 DEF Environment

LEMMA MovesOnFresh == RequestsFresh /\ AllMoveOn => RequestsFresh'
  BY DEF RequestsFresh, AllMoveOn, MovesOn

\* A step that makes no answer leaves the order of the answers as it is.
LEMMA AnswersFrame ==
  ASSUME IdPOrder, TokensOK, AllMoveOn, UNCHANGED <<idp, minted>>
  PROVE  IdPOrder' /\ TokensOK'
<1>1. Answered' = Answered /\ \A p \in Answered : req'[p].ans = req[p].ans
  BY DEF AllMoveOn, MovesOn, Answered
<1> QED
  BY <1>1 DEF IdPOrder, TokensOK

\* A step that leaves the RPs alone brings no stale answer back.
LEMMA StaleFrame ==
  ASSUME StaleOK, AllMoveOn, UNCHANGED <<rp, taken, minted>>
  PROVE  StaleOK'
<1>1. ASSUME NEW p \in Requests, Deliverable(p)', req'[p].ans.token <= taken'[req'[p].rp]
      PROVE  Beyond(req'[p].ans.mk, rp'[req'[p].rp])
  <2>1. Deliverable(p) /\ req'[p].ans = req[p].ans /\ req'[p].rp = req[p].rp
    BY <1>1 DEF AllMoveOn, MovesOn
  <2> QED
    BY <1>1, <2>1 DEF StaleOK
<1> QED
  BY <1>1 DEF StaleOK

LEMMA FrameOInv ==
  ASSUME OInv, AllMoveOn, UNCHANGED <<rp, idp, minted, taken>>
  PROVE  OInv'
  BY MovesOnFresh, AnswersFrame, StaleFrame DEF OInv

\* What the IdP writes into the request that it answers.
LEMMA AnswerWritten ==
  ASSUME TInv, NEW q \in Requests, IdPAnswer(q)
  PROVE  /\ req'[q].ans \in Answers /\ req'[q].ans # Nil /\ req'[q].rp = req[q].rp
         /\ req'[q].ans = Answer(q, minted + 1)
         /\ req'[q].ans.mk = IdPPosition(q) /\ req'[q].ans.token = minted + 1
         /\ req'[q].ans.hdr = IdPKey(q) /\ req'[q].ans.aad = <<req[q].hdr, req[q].seq>>
         /\ req'[q].pc = IF req[q].caller = "none" THEN "failed" ELSE "answered"
         /\ \A p \in Requests \ {q} : req'[p] = req[p]
<1>1. /\ req \in [Requests -> RequestStates] /\ req[q] \in RequestStates
      /\ minted \in Nat /\ req[q].pc = "sent"
      /\ req[q].hdr \in Prekeys /\ req[q].seq \in Nat
  BY DEF IdPAnswer, TInv, TypeOK, RequestsOK, RequestOK, RequestStates
<1>2. IdPKey(q) \in Nat /\ IdPPosition(q) \in MessageKeys
  BY <1>1, IdPStepType
<1>3. Answer(q, minted + 1) \in Answers
  BY <1>1, <1>2 DEF Answer, Answers
<1>4. Answer(q, minted + 1) # Nil
  BY <1>3, AnswersAssumption
<1>5. req' = [req EXCEPT ![q].pc  = IF req[q].caller = "none" THEN "failed" ELSE "answered",
                         ![q].ans = Answer(q, minted + 1)]
  BY DEF IdPAnswer
<1>6. /\ req'[q] = [req[q] EXCEPT !.pc  = IF req[q].caller = "none" THEN "failed" ELSE "answered",
                                  !.ans = Answer(q, minted + 1)]
      /\ \A p \in Requests \ {q} : req'[p] = req[p]
  BY <1>1, <1>5
<1>7. /\ req'[q].ans = Answer(q, minted + 1) /\ req'[q].rp = req[q].rp
      /\ req'[q].pc = IF req[q].caller = "none" THEN "failed" ELSE "answered"
  BY <1>1, <1>6 DEF RequestStates
<1>8. /\ Answer(q, minted + 1).mk = IdPPosition(q)
      /\ Answer(q, minted + 1).token = minted + 1
      /\ Answer(q, minted + 1).hdr = IdPKey(q)
      /\ Answer(q, minted + 1).aad = <<req[q].hdr, req[q].seq>>
  BY DEF Answer
<1> QED
  BY <1>3, <1>4, <1>6, <1>7, <1>8

LEMMA AnswerOInv ==
  ASSUME TInv, KeysOK, OInv, NEW q \in Requests, IdPAnswer(q)
  PROVE  OInv'
<1> DEFINE at == IdPPosition(q)
<1>1. /\ req \in [Requests -> RequestStates] /\ minted \in Nat /\ req[q].pc = "sent"
      /\ IdPCommit(q, at) /\ minted' = minted + 1 /\ UNCHANGED <<rp, taken>>
      /\ taken \in [RPs -> Nat] /\ req[q].rp \in RPs
  BY DEF TInv, TypeOK, RequestsOK, RequestOK, IdPAnswer, rpVars, histVars
<1>2. /\ req'[q].ans.mk = at /\ req'[q].ans.token = minted + 1 /\ req'[q].ans # Nil
      /\ req'[q].pc \in {"answered", "failed"} /\ req'[q].rp = req[q].rp
      /\ \A p \in Requests \ {q} : req'[p] = req[p]
  BY <1>1, AnswerWritten
<1>3. /\ StepsBelow(at.root, LastKey(at.root))
      /\ StepsBelow(idp'.root, idp'.ipk) /\ LastKey(idp'.root) = idp'.ipk
      /\ at.root = idp'.root
      /\ \A p \in Answered :
           /\ Before(req[p].ans.mk, at)
           /\ LastKey(req[p].ans.mk.root) < idp'.ipk \/ req[p].ans.mk.root = idp'.root
  BY <1>1, NextKeyAfter
<1> HIDE DEF at
<1>4. /\ Answered' = Answered \cup {q} /\ q \notin Answered
      /\ \A p \in Answered : req'[p] = req[p]
  BY <1>1, <1>2 DEF Answered, OInv, RequestsFresh, Unanswered
<1>5. RequestsFresh'
  BY <1>1, <1>2 DEF OInv, RequestsFresh, Unanswered, TInv, TypeOK, RequestsOK, RequestOK
<1>6. IdPOrder'
  BY <1>2, <1>3, <1>4 DEF OInv, IdPOrder
<1>7. TokensOK'
  <2>1. \A p \in Answered : req'[p].ans.token \in 1 .. minted
    BY <1>4 DEF OInv, TokensOK
  <2>2. \A p \in Answered' : req'[p].ans.token \in 1 .. minted'
    BY <1>1, <1>2, <1>4, <2>1
  <2>3. ASSUME NEW p \in Answered', NEW s \in Answered', p # s
        PROVE  /\ req'[p].ans.token # req'[s].ans.token
               /\ req'[p].ans.token < req'[s].ans.token => Before(req'[p].ans.mk, req'[s].ans.mk)
    <3>1. CASE p \in Answered /\ s \in Answered
      BY <1>4, <2>3, <3>1 DEF OInv, TokensOK
    <3>2. CASE s = q
      BY <1>1, <1>2, <1>3, <1>4, <2>1, <2>3, <3>2
    <3>3. CASE p = q
      <4>1. req'[s].ans.token \in 1 .. minted /\ req'[p].ans.token = minted + 1
        BY <1>2, <1>4, <2>1, <2>3, <3>3
      <4> QED
        BY <1>1, <4>1
    <3> QED
      BY <1>4, <2>3, <3>1, <3>2, <3>3
  <2> QED
    BY <2>2, <2>3 DEF TokensOK
<1>8. StaleOK'
  <2>1. \A r \in RPs : taken'[r] <= minted' /\ taken'[r] < minted + 1
    BY <1>1 DEF OInv, StaleOK
  <2>2. ASSUME NEW p \in Requests, Deliverable(p)', req'[p].ans.token <= taken'[req'[p].rp]
        PROVE  Beyond(req'[p].ans.mk, rp'[req'[p].rp])
    <3>1. p # q
      <4>1. taken'[req'[q].rp] < minted + 1 /\ taken'[req'[q].rp] \in Nat
        BY <1>1, <1>2, <2>1
      <4> QED
        BY <1>1, <1>2, <2>2, <4>1
    <3> QED
      BY <1>1, <1>2, <2>2, <3>1 DEF OInv, StaleOK, Deliverable
  <2> QED
    BY <1>1, <2>1, <2>2 DEF OInv, StaleOK
<1> QED
  BY <1>5, <1>6, <1>7, <1>8 DEF OInv

LEMMA RejectOInv ==
  ASSUME TInv, KeysOK, OInv, NEW q \in Requests, IdPReject(q)
  PROVE  OInv'
<1>1. /\ req[q].pc = "sent" /\ IdPCommit(q, IdPPosition(q)) /\ UNCHANGED <<rp, taken, minted>>
      /\ AllMoveOn
  BY FailMovesOn DEF IdPReject, rpVars, histVars, OInv
<1>2. Answered' = Answered /\ \A p \in Answered : req'[p].ans = req[p].ans
  BY <1>1 DEF AllMoveOn, MovesOn, Answered
<1>3. IdPOrder'
  <2>1. /\ StepsBelow(idp'.root, idp'.ipk) /\ LastKey(idp'.root) = idp'.ipk
        /\ \A p \in Answered :
             LastKey(req[p].ans.mk.root) < idp'.ipk \/ req[p].ans.mk.root = idp'.root
    BY <1>1, NextKeyAfter
  <2> QED
    BY <1>2, <2>1 DEF OInv, IdPOrder
<1>4. TokensOK'
  BY <1>1, <1>2 DEF OInv, TokensOK
<1> QED
  BY <1>1, <1>3, <1>4, MovesOnFresh, StaleFrame DEF OInv

LEMMA IdPRestartOInv ==
  ASSUME TInv, OInv, IdPRestart
  PROVE  OInv'
<1>1. AllMoveOn
  BY EnvironmentMovesOn DEF Environment, OInv
<1>2. /\ idp' = [root |-> Unseeded, n |-> 0, dhA |-> Nil, ipk |-> idp.ipk + 1]
      /\ UNCHANGED <<rp, taken, minted>>
  BY DEF IdPRestart, rpVars, histVars
<1>3. Answered' = Answered /\ \A p \in Answered : req'[p].ans = req[p].ans
  BY <1>1 DEF AllMoveOn, MovesOn, Answered
<1>4. IdPOrder'
  <2>1. Len(idp'.root.steps) = 0 /\ idp'.dhA = Nil /\ idp'.ipk = idp.ipk + 1
    BY <1>2 DEF Unseeded
  <2>2. StepsBelow(idp'.root, idp'.ipk)
    BY <2>1 DEF StepsBelow
  <2>3. idp'.dhA = Nil
    BY <2>1
  <2>4. ASSUME NEW p \in Answered'
        PROVE  StepsBelow(req'[p].ans.mk.root, LastKey(req'[p].ans.mk.root))
    BY <1>3, <2>4 DEF OInv, IdPOrder
  <2> QED
    BY <2>2, <2>3, <2>4 DEF IdPOrder
<1>5. TokensOK'
  BY <1>2, <1>3 DEF OInv, TokensOK
<1> QED
  BY <1>1, <1>2, <1>4, <1>5, MovesOnFresh, StaleFrame DEF OInv

\* What the RP may still open was answered.
LEMMA DeliverableAnswered ==
  ASSUME TInv, NEW p \in Requests, Deliverable(p)
  PROVE  p \in Answered /\ req[p].rp \in RPs
  BY AnswersAssumption DEF Deliverable, Answered, TInv, RequestsOK, RequestOK

\* An RP opens only an answer that is newer than all it took.
LEMMA OpensNewer ==
  ASSUME TInv, KeysOK, OInv, NEW q \in Requests, RPOpen(q)
  PROVE  /\ q \in Answered /\ req[q].rp \in RPs
         /\ req[q].ans.token > taken[req[q].rp]
<1>1. q \in Answered /\ req[q].rp \in RPs /\ req[q].pc = "relayed" /\ Deliverable(q)
  BY DeliverableAnswered DEF RPOpen, Deliverable
<1>2. /\ req[q].ans.mk \in MessageKeys /\ req[q].ans.token \in Nat
      /\ LastKey(req[q].ans.mk.root) \in Nat
      /\ StepsBelow(req[q].ans.mk.root, LastKey(req[q].ans.mk.root))
  BY <1>1, AnswerType DEF OInv, IdPOrder
<1>3. SeqInRange(req[q].seq) /\ RPPosition(q) = req[q].ans.mk
  BY DEF RPOpen, Opens
<1>4. ~ Beyond(req[q].ans.mk, rp[req[q].rp])
  BY <1>1, <1>2, <1>3, BeyondMisses DEF OInv
<1>5. ~ (req[q].ans.token <= taken[req[q].rp])
  BY <1>1, <1>4 DEF OInv, StaleOK
<1>6. taken[req[q].rp] \in Nat
  BY <1>1 DEF TInv, TypeOK
<1> QED
  BY <1>1, <1>2, <1>5, <1>6

\* Both ways to use an answer take the RP further, and it never looks unseeded.
LEMMA CommitStays ==
  ASSUME TInv, OInv, NEW q \in Requests, req[q].pc = "relayed", SeqInRange(req[q].seq),
         RPCommit(q, RPPosition(q))
  PROVE  /\ \A r \in RPs : rp'[r].root.seed = NoKS => rp'[r].root.steps = <<>>
         /\ \A r \in RPs, mk \in MessageKeys : Beyond(mk, rp[r]) => Beyond(mk, rp'[r])
<1>1. /\ req[q].rp \in RPs /\ rp \in [RPs -> RPStates]
      /\ RPPosition(q).root.seed # NoKS
  BY RPPositionIs DEF TInv, TypeOK, RequestsOK, RequestOK, RPStates, OInv
<1>2. /\ rp'[req[q].rp].root = RPPosition(q).root
      /\ \A r \in RPs : r # req[q].rp => rp'[r] = rp[r]
  BY <1>1 DEF RPCommit
<1>3. ASSUME NEW mk \in MessageKeys, Beyond(mk, rp[req[q].rp])
      PROVE  Beyond(mk, rp'[req[q].rp])
  BY <1>3, BeyondStays DEF OInv
<1> QED
  BY <1>1, <1>2, <1>3 DEF OInv, StaleOK

LEMMA OpenOInv ==
  ASSUME TInv, KeysOK, OInv, NEW q \in Requests, RPOpen(q)
  PROVE  OInv'
<1> DEFINE r == req[q].rp
<1>1. AllMoveOn
  BY HandleMovesOn DEF Handle, OInv, RPOpen, IdPAnswer, BrokerPanic
<1>2. /\ req[q].pc = "relayed" /\ SeqInRange(req[q].seq) /\ RPCommit(q, RPPosition(q))
      /\ RPPosition(q) = req[q].ans.mk /\ UNCHANGED <<idp, minted>>
      /\ taken' = [taken EXCEPT ![r] = req[q].ans.token] /\ taken \in [RPs -> Nat]
      /\ rp \in [RPs -> RPStates] /\ req'[q].pc = "opened"
  BY DEF RPOpen, Opens, idpVars, TInv, TypeOK, RPStates, RequestStates
<1>3. q \in Answered /\ r \in RPs
  BY OpensNewer
<1>4. /\ req[q].ans.mk \in MessageKeys /\ req[q].ans.token \in Nat
      /\ req[q].ans.mk.root.steps # <<>> /\ req[q].ans.token <= minted
  BY <1>3, AnswerType DEF OInv, TokensOK
<1>5. rp'[r].root = req[q].ans.mk.root /\ rp'[r].n = req[q].ans.mk.n + 1
  BY <1>2, <1>3 DEF RPCommit, KdfCK
<1>6. StaleOK'
  <2>1. \A s \in RPs : taken'[s] <= minted'
    BY <1>2, <1>4 DEF OInv, StaleOK
  <2>2. \A s \in RPs : rp'[s].root.seed = NoKS => rp'[s].root.steps = <<>>
    BY <1>2, CommitStays
  <2>3. ASSUME NEW p \in Requests, Deliverable(p)', req'[p].ans.token <= taken'[req'[p].rp]
        PROVE  Beyond(req'[p].ans.mk, rp'[req'[p].rp])
    <3>1. Deliverable(p) /\ req'[p].ans = req[p].ans /\ req'[p].rp = req[p].rp /\ p # q
      BY <1>1, <1>2, <2>3 DEF AllMoveOn, MovesOn, Deliverable
    <3>2. p \in Answered /\ req[p].rp \in RPs
      BY <3>1, DeliverableAnswered
    <3>3. req[p].ans.mk \in MessageKeys /\ req[p].ans.token \in Nat
      BY <3>2, AnswerType
    <3>4. CASE req[p].rp = r
      <4>1. req[p].ans.token <= req[q].ans.token
        BY <1>2, <1>3, <2>3, <3>1, <3>4
      <4>2. req[p].ans.token < req[q].ans.token
        BY <1>3, <1>4, <3>1, <3>2, <3>3, <4>1 DEF OInv, TokensOK
      <4>3. Before(req[p].ans.mk, req[q].ans.mk)
        BY <1>3, <3>1, <3>2, <4>2 DEF OInv, TokensOK
      <4> QED
        BY <1>4, <1>5, <3>1, <3>3, <3>4, <4>3, UsedBeyond
    <3>5. CASE req[p].rp # r
      <4>1. Beyond(req[p].ans.mk, rp[req[p].rp])
        BY <1>2, <2>3, <3>1, <3>2, <3>5 DEF OInv, StaleOK
      <4> QED
        BY <1>2, <3>1, <3>2, <3>3, <4>1, CommitStays
    <3> QED
      BY <3>4, <3>5
  <2> QED
    BY <2>1, <2>2, <2>3 DEF StaleOK
<1> QED
  BY <1>1, <1>2, <1>6, MovesOnFresh, AnswersFrame DEF OInv

LEMMA CannotOpenOInv ==
  ASSUME TInv, KeysOK, OInv, NEW q \in Requests, RPCannotOpen(q)
  PROVE  OInv'
<1>1. AllMoveOn
  BY FailMovesOn DEF OInv, RPCannotOpen
<1>2. /\ req[q].pc = "relayed" /\ SeqInRange(req[q].seq) /\ RPCommit(q, RPPosition(q))
      /\ UNCHANGED <<idp, minted, taken>>
  BY DEF RPCannotOpen, idpVars
<1>3. ASSUME NEW p \in Requests, Deliverable(p)', req'[p].ans.token <= taken'[req'[p].rp]
      PROVE  Beyond(req'[p].ans.mk, rp'[req'[p].rp])
  <2>1. Deliverable(p) /\ req'[p].ans = req[p].ans /\ req'[p].rp = req[p].rp
    BY <1>1, <1>3 DEF AllMoveOn, MovesOn
  <2>2. p \in Answered /\ req[p].rp \in RPs
    BY <2>1, DeliverableAnswered
  <2>3. req[p].ans.mk \in MessageKeys
    BY <2>2, AnswerType
  <2>4. Beyond(req[p].ans.mk, rp[req[p].rp])
    BY <1>2, <1>3, <2>1 DEF OInv, StaleOK
  <2> QED
    BY <1>2, <2>1, <2>2, <2>3, <2>4, CommitStays
<1>4. StaleOK'
  BY <1>2, <1>3, CommitStays DEF OInv, StaleOK
<1> QED
  BY <1>1, <1>2, <1>4, MovesOnFresh, AnswersFrame DEF OInv

LEMMA OutOfRangeOInv ==
  ASSUME TInv, OInv, NEW q \in Requests, RPSeqOutOfRange(q)
  PROVE  OInv'
<1> DEFINE r == req[q].rp
<1>1. AllMoveOn
  BY FailMovesOn DEF OInv, RPSeqOutOfRange
<1>2. /\ rp \in [RPs -> RPStates] /\ r \in RPs /\ UNCHANGED <<idp, minted, taken>>
      /\ rp' = [rp EXCEPT ![r].root = SeedRoot(rp[r].root, rpKS[r])]
  BY DEF RPSeqOutOfRange, TInv, TypeOK, RequestsOK, RequestOK, RPStates, idpVars, histVars
<1>3. /\ SeedRoot(rp[r].root, rpKS[r]).steps = rp[r].root.steps
      /\ SeedRoot(rp[r].root, rpKS[r]).seed # NoKS
  <2>1. rp[r].root \in RootKeys /\ rpKS[r] \in Nat
    BY <1>2 DEF RPStates, TInv, TypeOK
  <2>2. rp[r].root.seed = NoKS => rp[r].root.steps = <<>>
    BY <1>2 DEF OInv, StaleOK
  <2> QED
    BY <2>1, <2>2, SeedRootType DEF SeedRoot
<1>4. \A s \in RPs : /\ rp'[s].root.steps = rp[s].root.steps /\ rp'[s].n = rp[s].n
                     /\ rp'[s].root.seed = NoKS => rp[s].root.seed = NoKS
  BY <1>2, <1>3 DEF RPStates
<1>5. ASSUME NEW p \in Requests, Deliverable(p)', req'[p].ans.token <= taken'[req'[p].rp]
      PROVE  Beyond(req'[p].ans.mk, rp'[req'[p].rp])
  <2>1. Deliverable(p) /\ req'[p].ans = req[p].ans /\ req'[p].rp = req[p].rp
    BY <1>1, <1>5 DEF AllMoveOn, MovesOn
  <2>2. req[p].rp \in RPs /\ Beyond(req[p].ans.mk, rp[req[p].rp])
    BY <1>2, <1>5, <2>1, DeliverableAnswered DEF OInv, StaleOK
  <2> QED
    BY <1>4, <2>1, <2>2 DEF Beyond
<1>6. StaleOK'
  BY <1>2, <1>4, <1>5 DEF OInv, StaleOK
<1> QED
  BY <1>1, <1>2, <1>6, MovesOnFresh, AnswersFrame DEF OInv

\* A restarted RP forgets its ratchet and every answer it was waiting for.
LEMMA RPRestartOInv ==
  ASSUME TInv, OInv, NEW r \in RPs, RPRestart(r)
  PROVE  OInv'
<1>1. AllMoveOn
  BY EnvironmentMovesOn DEF Environment, OInv
<1>2. /\ rp \in [RPs -> RPStates] /\ UNCHANGED <<idp, minted, taken>>
      /\ rp' = [rp EXCEPT ![r] = [root |-> Unseeded, n |-> 0, dhB |-> Nil]]
  BY DEF RPRestart, TInv, TypeOK, RPStates, idpVars, histVars
<1>3. ASSUME NEW p \in Requests, Deliverable(p)' PROVE req'[p].rp # r
  <2>1. Deliverable(p) /\ req'[p].rp = req[p].rp /\ req[p] \in RequestStates
    BY <1>1, <1>3 DEF AllMoveOn, MovesOn, TInv, TypeOK
  <2>2. ~Ended(p) /\ req[p].caller = "rp"
    BY <2>1 DEF Deliverable, Ended, OInv, RequestsFresh
  <2>3. SUFFICES ASSUME req[p].rp = r PROVE FALSE
    BY <2>1
  <2>4. req'[p].pc = "failed" \/ (req'[p].caller = "broker" /\ req'[p].pc # "relayed")
    BY <2>1, <2>2, <2>3 DEF RPRestart, RequestStates
  <2> QED
    BY <1>3, <2>4 DEF Deliverable
<1>4. ASSUME NEW p \in Requests, Deliverable(p)', req'[p].ans.token <= taken'[req'[p].rp]
      PROVE  Beyond(req'[p].ans.mk, rp'[req'[p].rp])
  <2>1. /\ Deliverable(p) /\ req'[p].ans = req[p].ans /\ req'[p].rp = req[p].rp
        /\ req[p].rp \in RPs /\ req[p].rp # r
    BY <1>1, <1>3, <1>4, DeliverableAnswered DEF AllMoveOn, MovesOn
  <2>2. Beyond(req[p].ans.mk, rp[req[p].rp])
    BY <1>2, <1>4, <2>1 DEF OInv, StaleOK
  <2> QED
    BY <1>2, <2>1, <2>2
<1>5. StaleOK'
  BY <1>2, <1>4 DEF OInv, StaleOK, Unseeded
<1> QED
  BY <1>1, <1>2, <1>5, MovesOnFresh, AnswersFrame DEF OInv

LEMMA ClickOInv ==
  ASSUME TInv, OInv, NEW q \in Requests, NEW r \in RPs, Click(q, r)
  PROVE  OInv'
<1>1. /\ req'[q].pc = "posted" /\ req'[q].ans = req[q].ans
      /\ \A p \in Requests \ {q} : req'[p] = req[p]
      /\ req[q].pc = "idle" /\ UNCHANGED <<rp, idp, minted, taken>>
  BY DEF Click, TInv, TypeOK, RequestStates, rpVars, idpVars, histVars
<1>2. RequestsFresh'
  BY <1>1 DEF OInv, RequestsFresh, Unanswered
<1>3. Answered' = Answered /\ \A p \in Requests : req'[p].ans = req[p].ans
  BY <1>1 DEF Answered
<1>4. IdPOrder' /\ TokensOK'
  <2>1. idp' = idp /\ minted' = minted
    BY <1>1
  <2>2. Answered' = Answered /\ \A p \in Answered : req'[p].ans = req[p].ans
    BY <1>3 DEF Answered
  <2>3. IdPOrder'
    BY <2>1, <2>2 DEF OInv, IdPOrder
  <2>4. TokensOK'
    BY <2>1, <2>2 DEF OInv, TokensOK
  <2> QED
    BY <2>3, <2>4
<1>5. \A p \in Requests : Deliverable(p)' => Deliverable(p) /\ req'[p] = req[p]
  BY <1>1 DEF Deliverable
<1>6. StaleOK'
  BY <1>1, <1>5 DEF OInv, StaleOK
<1> QED
  BY <1>2, <1>4, <1>6 DEF OInv

\* The steps of a broker, and those that end something, only move requests on.
LEMMA BrokerStepIs ==
  ASSUME TInv, OInv, NEW q \in Requests,
         \/ BrokerCheck(q) \/ BrokerRefuse(q) \/ BrokerReadHdr(q) \/ BrokerPanic(q)
         \/ BrokerSend(q) \/ BrokerRelay(q) \/ SaveSession(q)
  PROVE  AllMoveOn /\ UNCHANGED <<rp, idp, minted, taken>>
<1>1. UNCHANGED <<rp, idp, minted, taken>>
  BY DEF BrokerCheck, BrokerRefuse, BrokerReadHdr, BrokerPanic, BrokerStops, BrokerSend,
         BrokerRelay, SaveSession, rpVars, idpVars, histVars
<1>2. CASE BrokerPanic(q)
  BY <1>1, <1>2, BrokerStopsMoveOn DEF BrokerPanic, OInv
<1>3. CASE ~BrokerPanic(q)
  <2>1. ~IdPAnswer(q) /\ Handle(q)
    BY <1>3 DEF Handle, IdPAnswer, BrokerCheck, BrokerRefuse, BrokerReadHdr, BrokerSend,
                BrokerRelay, SaveSession
  <2> QED
    BY <1>1, <1>3, <2>1, HandleMovesOn DEF OInv
<1> QED
  BY <1>2, <1>3

LEMMA QuietEnvironment ==
  ASSUME TInv, OInv, Environment, ~IdPRestart, ~ \E r \in RPs : RPRestart(r)
  PROVE  AllMoveOn /\ UNCHANGED <<rp, idp, minted, taken>>
<1>1. AllMoveOn
  BY EnvironmentMovesOn DEF OInv
<1> QED
  BY <1>1 DEF Environment, RPTimeout, IdPCallFails, TokenExpires, BrokerRestart, BrokerStops,
              rpVars, idpVars, histVars

LEMMA LoginMovesOn ==
  ASSUME TInv, OInv, NEW r \in RPs, Login(r)
  PROVE  AllMoveOn /\ UNCHANGED <<rp, idp, minted, taken>>
<1>1. UNCHANGED <<rp, idp, minted, taken, req>>
  BY DEF Login, RPSaveSessionKS, IdPSaveSessionKS, BrokerStoresTokens, LoginCompletes, idpVars, histVars
<1> QED
  BY <1>1, StopsMoveOn DEF OInv

LEMMA NextOInv == TInv /\ KeysOK /\ OInv /\ [Next]_vars => OInv'
<1> SUFFICES ASSUME TInv, KeysOK, OInv, [Next]_vars PROVE OInv'
  OBVIOUS
<1>1. ASSUME NEW q \in Requests, Handle(q) PROVE OInv'
  BY <1>1, BrokerStepIs, FrameOInv, AnswerOInv, RejectOInv, OpenOInv, CannotOpenOInv,
     OutOfRangeOInv DEF Handle
<1>2. ASSUME NEW q \in Requests, NEW r \in RPs, Click(q, r) PROVE OInv'
  BY <1>2, ClickOInv
<1>3. ASSUME NEW r \in RPs, Login(r) PROVE OInv'
  BY <1>3, LoginMovesOn, FrameOInv
<1>4. CASE Environment
  BY <1>4, QuietEnvironment, FrameOInv, IdPRestartOInv, RPRestartOInv
<1>5. CASE UNCHANGED vars
  <2>1. AllMoveOn
    BY <1>5, StopsMoveOn DEF vars, OInv
  <2> QED
    BY <1>5, <2>1, FrameOInv DEF vars
<1> QED
  BY <1>1, <1>2, <1>3, <1>4, <1>5 DEF Next

LEMMA InitOInv == Init => OInv
<1> SUFFICES ASSUME Init PROVE OInv
  OBVIOUS
<1>1. Answered = {} /\ \A q \in Requests : ~Deliverable(q)
  BY DEF Init, Answered, Idle, Deliverable
<1> QED
  BY <1>1 DEF Init, OInv, RequestsFresh, IdPOrder, TokensOK, StaleOK, StepsBelow, Idle, Unseeded

LEMMA OInvInvariant == Spec => [](TInv /\ KeysOK /\ OInv)
<1>1. Init => TInv /\ KeysOK /\ OInv
  BY InitTInv, InitKeysOK, InitOInv
<1>2. TInv /\ KeysOK /\ OInv /\ [Next]_vars => (TInv /\ KeysOK /\ OInv)'
  BY NextTInv, NextKeysOK, NextOInv
<1> QED
  BY <1>1, <1>2, PTL DEF Spec

(***************************************************************************)
(* The refresh path implements RefreshService.                             *)
(***************************************************************************)
LEMMA MovesOnService ==
  ASSUME AllMoveOn, UNCHANGED <<minted, taken>>
  PROVE  UNCHANGED Service!svars
<1>1. [q \in Requests |-> req[q].rp]' = [q \in Requests |-> req[q].rp]
  BY DEF AllMoveOn, MovesOn
<1>2. [q \in Requests |-> IF req[q].ans = Nil THEN 0 ELSE req[q].ans.token]' =
        [q \in Requests |-> IF req[q].ans = Nil THEN 0 ELSE req[q].ans.token]
  BY DEF AllMoveOn, MovesOn
<1> QED
  BY <1>1, <1>2 DEF Service!svars

LEMMA ClickAsks ==
  ASSUME TInv, OInv, NEW q \in Requests, NEW r \in RPs, Click(q, r)
  PROVE  Service!Ask(q, r)
<1>1. /\ req'[q].rp = r /\ req'[q].ans = req[q].ans /\ req[q].rp = Nil
      /\ \A p \in Requests \ {q} : req'[p] = req[p]
      /\ UNCHANGED <<minted, taken>>
  BY DEF Click, TInv, TypeOK, RequestStates, idpVars, histVars, OInv, RequestsFresh
<1>2. [p \in Requests |-> req[p].rp]' = [[p \in Requests |-> req[p].rp] EXCEPT ![q] = r]
  BY <1>1
<1>3. [p \in Requests |-> IF req[p].ans = Nil THEN 0 ELSE req[p].ans.token]' =
        [p \in Requests |-> IF req[p].ans = Nil THEN 0 ELSE req[p].ans.token]
  BY <1>1
<1> QED
  BY <1>1, <1>2, <1>3 DEF Service!Ask

LEMMA AnswerMints ==
  ASSUME TInv, OInv, NEW q \in Requests, IdPAnswer(q)
  PROVE  Service!Mint(q)
<1>1. /\ minted \in Nat /\ req[q].rp \in RPs /\ req[q].rp # Nil /\ req[q].ans = Nil
      /\ minted' = minted + 1 /\ taken' = taken
  BY NilAssumption DEF TInv, TypeOK, RequestsOK, RequestOK, IdPAnswer, OInv, RequestsFresh,
                       Unanswered, histVars
<1>2. /\ req'[q].ans.token = minted + 1 /\ req'[q].ans # Nil /\ req'[q].rp = req[q].rp
      /\ \A p \in Requests \ {q} : req'[p] = req[p]
  BY <1>1, AnswerWritten
<1>3. [p \in Requests |-> req[p].rp]' = [p \in Requests |-> req[p].rp]
  BY <1>2
<1>4. [p \in Requests |-> IF req[p].ans = Nil THEN 0 ELSE req[p].ans.token]' =
        [[p \in Requests |-> IF req[p].ans = Nil THEN 0 ELSE req[p].ans.token]
           EXCEPT ![q] = minted']
  BY <1>1, <1>2
<1> QED
  BY <1>1, <1>3, <1>4 DEF Service!Mint

LEMMA OpenTakes ==
  ASSUME TInv, KeysOK, OInv, NEW q \in Requests, RPOpen(q)
  PROVE  Service!Take(q)
<1>1. /\ q \in Answered /\ req[q].rp \in RPs /\ req[q].rp # Nil /\ req[q].ans # Nil
      /\ req[q].ans.token > taken[req[q].rp]
  BY OpensNewer, NilAssumption DEF Answered
<1>2. AllMoveOn /\ minted' = minted /\ taken' = [taken EXCEPT ![req[q].rp] = req[q].ans.token]
  BY HandleMovesOn DEF Handle, OInv, RPOpen, IdPAnswer, BrokerPanic, idpVars
<1>3. [p \in Requests |-> req[p].rp]' = [p \in Requests |-> req[p].rp]
  BY <1>2 DEF AllMoveOn, MovesOn
<1>4. [p \in Requests |-> IF req[p].ans = Nil THEN 0 ELSE req[p].ans.token]' =
        [p \in Requests |-> IF req[p].ans = Nil THEN 0 ELSE req[p].ans.token]
  BY <1>2 DEF AllMoveOn, MovesOn
<1> QED
  BY <1>1, <1>2, <1>3, <1>4 DEF Service!Take

LEMMA NextService ==
  ASSUME TInv, KeysOK, OInv, [Next]_vars
  PROVE  [Service!Next]_Service!svars
<1> USE DEF Service!Next
<1>1. ASSUME NEW q \in Requests, Handle(q) PROVE [Service!Next]_Service!svars
  <2>1. CASE IdPAnswer(q)
    BY <2>1, AnswerMints
  <2>2. CASE RPOpen(q)
    BY <2>2, OpenTakes
  <2>3. CASE IdPReject(q) \/ RPCannotOpen(q) \/ RPSeqOutOfRange(q)
    <3>1. Fail(q) /\ UNCHANGED <<minted, taken>>
      BY <2>3 DEF IdPReject, RPCannotOpen, RPSeqOutOfRange, idpVars, histVars
    <3> QED
      BY <3>1, FailMovesOn, MovesOnService DEF OInv
  <2> QED
    BY <1>1, <2>1, <2>2, <2>3, BrokerStepIs, MovesOnService DEF Handle
<1>2. ASSUME NEW q \in Requests, NEW r \in RPs, Click(q, r) PROVE [Service!Next]_Service!svars
  BY <1>2, ClickAsks
<1>3. ASSUME NEW r \in RPs, Login(r) PROVE [Service!Next]_Service!svars
  BY <1>3, LoginMovesOn, MovesOnService
<1>4. CASE Environment
  <2>1. AllMoveOn
    BY <1>4, EnvironmentMovesOn DEF OInv
  <2>2. UNCHANGED <<minted, taken>>
    BY <1>4 DEF Environment, RPTimeout, IdPCallFails, TokenExpires, RPRestart, BrokerRestart,
                BrokerStops, IdPRestart, idpVars, histVars
  <2> QED
    BY <2>1, <2>2, MovesOnService
<1>5. CASE UNCHANGED vars
  <2>1. AllMoveOn
    BY <1>5, StopsMoveOn DEF vars, OInv
  <2> QED
    BY <1>5, <2>1, MovesOnService DEF vars
<1> QED
  BY <1>1, <1>2, <1>3, <1>4, <1>5 DEF Next

LEMMA InitService == Init => Service!Init
  BY DEF Init, Service!Init, Idle

\* Refreshes overlap, RPs share the IdP's one ratchet, answers come late and
\* servers restart: an RP still takes only tokens minted for the request it is
\* answering, each newer than all it took before.
THEOREM RefreshImplementsService == Spec => ServiceSpec
<1>1. TInv /\ KeysOK /\ OInv /\ [Next]_vars => [Service!Next]_Service!svars
  BY NextService
<1> QED
  BY <1>1, InitService, OInvInvariant, PTL DEF Spec, ServiceSpec, Service!Spec
=============================================================================
