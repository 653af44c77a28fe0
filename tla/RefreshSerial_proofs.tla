------------------------- MODULE RefreshSerial_proofs -------------------------
(***************************************************************************)
(* Theorems about RefreshRatchet when refreshes are made one at a time:    *)
(* the prekey that the broker indexes exists, the two ends' root keys never *)
(* part, and a fault costs at most one refresh.  They hold for any number  *)
(* of requests, logins, prekeys and faults, under the conditions that the  *)
(* definitions OneAtATime and OnlyLinkFaults name.                         *)
(***************************************************************************)
EXTENDS RefreshRatchet_proofs, FiniteSetTheorems

(***************************************************************************)
(* Refreshes one at a time: the RP waits for every answer before it asks   *)
(* again, so no request is left behind at its broker.                      *)
(***************************************************************************)
OneAtATime == MaxInFlight <= 1 /\ Faults \cap {"rpTimeout", "rpRestart"} = {}

\* One request is waited for; the broker gave up on the others, which can only
\* be at the IdP still.
Alone ==
  /\ \A p, q \in Waiting : p = q
  /\ \A q \in Requests : \/ req[q].caller = "rp"
                         \/ req[q].caller = "none" /\ req[q].pc \in {"sent", "failed"}

WInv == Alone /\ PrekeyIndexInRange

\* Nothing asks anew, and what was checked still has its prekey.
LEMMA WKept ==
  ASSUME Alone, \A p \in Requests :
           /\ req'[p].caller = "rp" /\ ~Ended(p)' => p \in Waiting
           /\ \/ req'[p].caller = "rp"
              \/ req'[p].caller = "none" /\ req'[p].pc \in {"sent", "failed"}
           /\ req'[p].pc = "checked" => seq'[req'[p].rp] < N
  PROVE  WInv'
<1>1. \A p \in Requests : p \in Waiting' => p \in Waiting
  BY DEF Waiting
<1>2. Alone'
  BY <1>1 DEF Alone, Waiting
<1> QED
  BY <1>2 DEF WInv, PrekeyIndexInRange

\* A request that is waited for, or that has got as far as its prekey, is the
\* only one of its kind.
LEMMA OnlyOne ==
  ASSUME Alone, NEW p \in Requests, NEW q \in Requests, p # q,
         ~Ended(p), ~Ended(q), req[q].caller = "rp" \/ req[q].pc # "sent"
  PROVE  req[p].pc = "sent" /\ req[p].caller = "none"
<1>1. q \in Waiting
  BY DEF Alone, Waiting, Ended
<1> QED
  BY <1>1 DEF Alone, Waiting, Ended

\* A request under way goes on.
LEMMA WGoesOn ==
  ASSUME TInv, WInv, NEW q \in Requests, ~Ended(q), NEW x \in RequestStates,
         req' = [req EXCEPT ![q] = x], x.caller = req[q].caller, x.rp = req[q].rp,
         x.caller = "none" => x.pc \in {"sent", "failed"},
         x.pc = "checked" => seq[req[q].rp] < N,
         seq' = seq \/ (req[q].pc = "answered" /\ x.pc # "checked")
  PROVE  WInv'
<1>1. \A p \in Requests : req'[p] = IF p = q THEN x ELSE req[p]
  BY DEF TInv, TypeOK
<1>2. ASSUME NEW p \in Requests
      PROVE  /\ req'[p].caller = "rp" /\ ~Ended(p)' => p \in Waiting
             /\ \/ req'[p].caller = "rp"
                \/ req'[p].caller = "none" /\ req'[p].pc \in {"sent", "failed"}
             /\ req'[p].pc = "checked" => seq'[req'[p].rp] < N
  <2>1. CASE p = q
    BY <1>1, <2>1 DEF Ended, Waiting, WInv, Alone
  <2>2. CASE p # q
    <3>1. req[p].pc = "checked" => seq' = seq
      BY <2>2, OnlyOne DEF WInv, Ended
    <3> QED
      BY <1>1, <2>2, <3>1 DEF Ended, Waiting, WInv, Alone, PrekeyIndexInRange
  <2> QED
    BY <2>1, <2>2
<1> QED
  BY <1>2, WKept DEF WInv

LEMMA WFails ==
  ASSUME TInv, WInv, NEW q \in Requests, ~Ended(q), Fail(q), seq' = seq
  PROVE  WInv'
<1> DEFINE x == [req[q] EXCEPT !.pc = "failed"]
<1>1. req[q] \in RequestStates
  BY DEF TInv, TypeOK
<1>2. /\ x \in RequestStates /\ req' = [req EXCEPT ![q] = x]
      /\ x.rp = req[q].rp /\ x.pc = "failed" /\ x.caller = req[q].caller
  BY <1>1 DEF Fail, RequestStates
<1> HIDE DEF x
<1> QED
  BY <1>2, WGoesOn

LEMMA WHandle ==
  ASSUME TInv, WInv, NEW q \in Requests, Handle(q)
  PROVE  WInv'
<1> DEFINE r == req[q].rp
<1>1. /\ req[q] \in RequestStates /\ RequestOK(req[q])
      /\ seq \in [RPs -> Nat] /\ tok \in [RPs -> Nat]
  BY DEF TInv, TypeOK, RequestsOK
<1>a. req[q].caller = "none" => req[q].pc \in {"sent", "failed"}
  BY DEF WInv, Alone
<1>2. CASE BrokerRefuse(q) \/ IdPReject(q) \/ RPCannotOpen(q) \/ RPSeqOutOfRange(q)
  BY <1>2, WFails DEF BrokerRefuse, IdPReject, RPCannotOpen, RPSeqOutOfRange, Ended, brokerVars
<1>3. CASE BrokerCheck(q)
  <2> DEFINE x == [req[q] EXCEPT !.pc = "checked", !.tok = tok[r]]
  <2>1. /\ x \in RequestStates /\ req' = [req EXCEPT ![q] = x] /\ req[q].pc = "posted"
        /\ x.rp = r /\ x.pc = "checked" /\ x.caller = req[q].caller
        /\ seq[r] < N /\ seq' = seq
    BY <1>1, <1>3 DEF BrokerCheck, RequestStates, RequestOK, brokerVars, HasPrekey
  <2> HIDE DEF x
  <2> QED
    BY <1>a, <2>1, WGoesOn DEF Ended
<1>4. CASE BrokerReadHdr(q)
  <2> DEFINE x == [req[q] EXCEPT !.pc = "hdr", !.hdr = <<r, seq[r]>>]
  <2>1. r \in RPs /\ seq[r] \in Nat /\ seq[r] < N
    BY <1>1, <1>4 DEF BrokerReadHdr, RequestOK, HasPrekey
  <2>2. <<r, seq[r]>> \in Prekeys
    BY <2>1, BoundsAssumption DEF Prekeys
  <2>3. /\ x \in RequestStates /\ req' = [req EXCEPT ![q] = x] /\ req[q].pc = "checked"
        /\ x.rp = r /\ x.pc = "hdr" /\ x.caller = req[q].caller /\ seq' = seq
    BY <1>1, <1>4, <2>2 DEF BrokerReadHdr, RequestStates, brokerVars
  <2> HIDE DEF x
  <2> QED
    BY <1>a, <2>3, WGoesOn DEF Ended
<1>5. CASE BrokerSend(q)
  <2> DEFINE x == [req[q] EXCEPT !.pc = "sent", !.seq = seq[r]]
  <2>1. /\ x \in RequestStates /\ req' = [req EXCEPT ![q] = x] /\ req[q].pc = "hdr"
        /\ x.rp = r /\ x.pc = "sent" /\ x.caller = req[q].caller /\ seq' = seq
    BY <1>1, <1>5 DEF BrokerSend, RequestStates, RequestOK, brokerVars
  <2> HIDE DEF x
  <2> QED
    BY <1>a, <2>1, WGoesOn DEF Ended
<1>6. CASE BrokerRelay(q)
  <2> DEFINE x == [req[q] EXCEPT !.pc = IF req[q].caller = "rp" THEN "relayed" ELSE "failed"]
  <2>1. /\ x \in RequestStates /\ req' = [req EXCEPT ![q] = x] /\ req[q].pc = "answered"
        /\ x.rp = r /\ x.pc \in {"relayed", "failed"} /\ x.caller = req[q].caller
    BY <1>1, <1>6 DEF BrokerRelay, RequestStates
  <2> HIDE DEF x
  <2> QED
    BY <1>a, <2>1, WGoesOn DEF Ended
<1>7. CASE IdPAnswer(q)
  <2> DEFINE x == [req[q] EXCEPT !.pc  = IF req[q].caller = "none" THEN "failed" ELSE "answered",
                                 !.ans = Answer(q, minted')]
  <2>1. Answer(q, minted') \in Answers
    BY <1>7, AnswerWritten DEF IdPAnswer
  <2>2. /\ x \in RequestStates /\ req' = [req EXCEPT ![q] = x] /\ req[q].pc = "sent"
        /\ x.rp = r /\ x.caller = req[q].caller /\ seq' = seq
        /\ x.pc = IF req[q].caller = "none" THEN "failed" ELSE "answered"
    BY <1>1, <1>7, <2>1 DEF IdPAnswer, RequestStates, brokerVars
  <2> HIDE DEF x
  <2> QED
    BY <2>2, WGoesOn DEF Ended
<1>8. CASE RPOpen(q)
  <2> DEFINE x == [req[q] EXCEPT !.pc = "opened"]
  <2>1. /\ x \in RequestStates /\ req' = [req EXCEPT ![q] = x] /\ req[q].pc = "relayed"
        /\ x.rp = r /\ x.pc = "opened" /\ x.caller = req[q].caller /\ seq' = seq
    BY <1>1, <1>8 DEF RPOpen, RequestStates, brokerVars
  <2> HIDE DEF x
  <2> QED
    BY <1>a, <2>1, WGoesOn DEF Ended
<1>9. CASE SaveSession(q)
  <2> DEFINE x == [req[q] EXCEPT !.pc = "done"]
  <2>1. /\ x \in RequestStates /\ req' = [req EXCEPT ![q] = x] /\ req[q].pc = "opened"
        /\ x.rp = r /\ x.pc = "done" /\ x.caller = req[q].caller /\ seq' = seq
    BY <1>1, <1>9 DEF SaveSession, RequestStates, brokerVars
  <2> HIDE DEF x
  <2> QED
    BY <1>a, <2>1, WGoesOn DEF Ended
<1>10. ~BrokerPanic(q)
  BY DEF BrokerPanic, WInv, PrekeyIndexInRange, HasPrekey
<1> QED
  BY <1>2, <1>3, <1>4, <1>5, <1>6, <1>7, <1>8, <1>9, <1>10 DEF Handle
LEMMA WCallFails ==
  ASSUME TInv, WInv, NEW q \in Requests, IdPCallFails(q)
  PROVE  WInv'
<1>1. req \in [Requests -> RequestStates] /\ seq' = seq
  BY DEF TInv, TypeOK, IdPCallFails, brokerVars
<1>2. CASE Fail(q) /\ req[q].pc \in {"sent", "answered"}
  BY <1>1, <1>2, WFails DEF Ended
<1>3. CASE req[q].pc = "sent" /\ req' = [req EXCEPT ![q].caller = "none"]
  <2>1. /\ req'[q].pc = "sent" /\ req'[q].caller = "none"
        /\ \A p \in Requests \ {q} : req'[p] = req[p]
    BY <1>1, <1>3 DEF RequestStates
  <2> QED
    BY <1>1, <2>1, WKept DEF WInv, Alone, Waiting, Ended, PrekeyIndexInRange
<1> QED
  BY <1>2, <1>3 DEF IdPCallFails

LEMMA WBrokerStops ==
  ASSUME TInv, WInv, NEW r \in RPs, BrokerStops(r)
  PROVE  WInv'
<1>1. /\ req \in [Requests -> RequestStates] /\ seq \in [RPs -> Nat]
      /\ N \in Nat \ {0}
  BY BoundsAssumption DEF TInv, TypeOK
<1>2. seq'[r] = 0 /\ \A s \in RPs \ {r} : seq'[s] = seq[s]
  BY <1>1 DEF BrokerStops
<1>3. ASSUME NEW p \in Requests
      PROVE  \/ req'[p].pc = "failed" /\ req'[p].caller = req[p].caller
             \/ /\ req[p].pc = "sent" /\ req'[p].pc = "sent" /\ req'[p].caller = "none"
             \/ req'[p] = req[p] /\ (req[p].pc = "checked" => req[p].rp # r)
  BY <1>1 DEF BrokerStops, RequestStates
<1>4. ASSUME NEW p \in Requests, req[p].pc = "checked", req[p].rp # r
      PROVE  seq'[req[p].rp] < N
  <2>1. req[p].rp \in RPs /\ seq[req[p].rp] < N
    BY <1>4 DEF TInv, RequestsOK, RequestOK, WInv, PrekeyIndexInRange
  <2> QED
    BY <1>2, <1>4, <2>1
<1>5. ASSUME NEW p \in Requests
      PROVE  /\ req'[p].caller = "rp" /\ ~Ended(p)' => p \in Waiting
             /\ \/ req'[p].caller = "rp"
                \/ req'[p].caller = "none" /\ req'[p].pc \in {"sent", "failed"}
             /\ req'[p].pc = "checked" => seq'[req'[p].rp] < N
  BY <1>3, <1>4 DEF WInv, Alone, Waiting, Ended
<1> QED
  BY <1>5, WKept DEF WInv

LEMMA WEnvironment ==
  ASSUME OneAtATime, TInv, WInv, Environment
  PROVE  WInv'
<1>1. ~Fault("rpTimeout") /\ ~Fault("rpRestart")
  BY DEF OneAtATime, Fault
<1>2. CASE \E q \in Requests : RPTimeout(q) \/ IdPCallFails(q)
  BY <1>1, <1>2, WCallFails DEF RPTimeout
<1>3. CASE \E t \in valid : TokenExpires(t)
  BY <1>3, WKept DEF TokenExpires, brokerVars, WInv, Alone, Waiting, Ended, PrekeyIndexInRange
<1>4. CASE \E r \in RPs : RPRestart(r) \/ BrokerRestart(r)
  BY <1>1, <1>4, WBrokerStops DEF RPRestart, BrokerRestart
<1>5. CASE IdPRestart
  <2>1. /\ req \in [Requests -> RequestStates] /\ seq' = seq
    BY <1>5 DEF TInv, TypeOK, IdPRestart, brokerVars
  <2>2. \A p \in Requests : \/ req'[p].pc = "failed" /\ req'[p].caller = req[p].caller
                            \/ req'[p] = req[p]
    BY <1>5, <2>1 DEF IdPRestart, RequestStates
  <2> QED
    BY <2>1, <2>2, WKept DEF WInv, Alone, Waiting, Ended, PrekeyIndexInRange
<1> QED
  BY <1>2, <1>3, <1>4, <1>5 DEF Environment

\* The RP asks only when it waits for nothing.
LEMMA AsksAlone ==
  ASSUME OneAtATime, WInv, NEW q \in Requests, NEW r \in RPs, Click(q, r)
  PROVE  Waiting = {}
<1> SUFFICES ASSUME NEW p \in Waiting PROVE FALSE
  OBVIOUS
<1>1. Waiting = {p}
  BY DEF WInv, Alone, Waiting
<1>2. Cardinality(Waiting) = 1
  BY <1>1, FS_Singleton
<1>3. Cardinality(Waiting) < MaxInFlight
  BY DEF Click
<1> QED
  BY <1>2, <1>3, BoundsAssumption DEF OneAtATime

LEMMA WClick ==
  ASSUME OneAtATime, TInv, WInv, NEW q \in Requests, NEW r \in RPs, Click(q, r)
  PROVE  WInv'
<1>1. /\ req'[q].pc = "posted" /\ req'[q].caller = req[q].caller
      /\ \A p \in Requests \ {q} : req'[p] = req[p]
      /\ req[q].pc = "idle" /\ seq' = seq
  BY DEF Click, TInv, TypeOK, RequestStates, brokerVars
<1>2. Waiting = {}
  BY AsksAlone
<1>3. \A p \in Requests : p \in Waiting' => p = q
  BY <1>1, <1>2 DEF Waiting, Ended
<1>4. Alone'
  BY <1>1, <1>3 DEF WInv, Alone, Waiting
<1>5. PrekeyIndexInRange'
  BY <1>1 DEF WInv, PrekeyIndexInRange
<1> QED
  BY <1>4, <1>5 DEF WInv

LEMMA NextWInv == OneAtATime /\ TInv /\ WInv /\ [Next]_vars => WInv'
<1> SUFFICES ASSUME OneAtATime, TInv, WInv, [Next]_vars PROVE WInv'
  OBVIOUS
<1>1. CASE \E q \in Requests : Handle(q) \/ \E r \in RPs : Click(q, r)
  BY <1>1, WHandle, WClick
<1>2. CASE \E r \in RPs : Login(r)
  <2>1. req' = req /\ seq' = seq
    BY <1>2 DEF Login, RPSaveSessionKS, IdPSaveSessionKS, BrokerStoresTokens, LoginCompletes, brokerVars
  <2> QED
    BY <2>1, WKept DEF WInv, Alone, Waiting, Ended, PrekeyIndexInRange
<1>3. CASE Environment
  BY <1>3, WEnvironment
<1>4. CASE UNCHANGED vars
  BY <1>4, WKept DEF vars, brokerVars, WInv, Alone, Waiting, Ended, PrekeyIndexInRange
<1> QED
  BY <1>1, <1>2, <1>3, <1>4 DEF Next

LEMMA InitWInv == Init => WInv
  BY DEF Init, WInv, Alone, PrekeyIndexInRange, Waiting, Ended, Idle

\* Whatever is lost, expires or restarts, as long as the RPs wait for their
\* answers: a request that passed the exhaustion test of Broker/refresh.go:87
\* finds its prekey in the list, so the broker never panics.
THEOREM PrekeysSuffice ==
  ASSUME OneAtATime
  PROVE  Spec => []PrekeyIndexInRange
<1>1. Init => TInv /\ WInv
  BY InitTInv, InitWInv
<1>2. TInv /\ WInv /\ [Next]_vars => TInv' /\ WInv'
  BY NextTInv, NextWInv
<1>3. WInv => PrekeyIndexInRange
  BY DEF WInv
<1> QED
  BY <1>1, <1>2, <1>3, PTL DEF Spec
(***************************************************************************)
(* One RP, and no fault but a lost message and an expired token.           *)
(***************************************************************************)
OnlyLinkFaults == Faults \subseteq {"expiry", "dropRequest", "loseAnswer"}

\* Somebody waits for every request.
AllWait == \A q \in Requests : req[q].caller = "rp"

\* The three reads of state.seq for one request agree.
SeqHeld ==
  \A q \in Requests : LET r == req[q].rp IN
    /\ req[q].pc \in {"hdr", "sent", "answered"} => req[q].hdr = <<r, seq[r]>>
    /\ req[q].pc \in {"sent", "answered"} => req[q].seq = seq[r]
    /\ req[q].pc = "relayed" => seq[r] = req[q].seq + 1 /\ SeqInRange(req[q].seq)

\* Both ends have made the same DH steps, none of them for the next prekey.
InStep(r) == idp.root.steps = rp[r].root.steps /\ idp.dhA # <<r, seq[r]>>

\* The IdP has made the DH step for prekey s and r has not.
Ahead(r, s) ==
  /\ idp.root.steps = Append(rp[r].root.steps, DH(idp.ipk, <<r, s>>))
  /\ idp.dhA = <<r, s>>
  /\ rp[r].dhB # idp.ipk

\* An answer on its way is the newest, for the step the IdP is ahead by.
AnswerHeld(r) ==
  \A q \in Requests : req[q].pc \in {"answered", "relayed"} =>
    /\ req[q].ans.hdr = idp.ipk
    /\ req[q].ans.mk.root = idp.root
    /\ req[q].ans.aad = <<<<r, req[q].seq>>, req[q].seq>>
    /\ Ahead(r, req[q].seq)

NoneRelayed == \A q \in Requests : req[q].pc # "relayed"

SeedsOK(r) ==
  /\ rp[r].dhB # Nil => rp[r].dhB <= idp.ipk
  /\ idp.root.seed = NoKS => idp.root.steps = <<>>
  /\ rp[r].root.seed = NoKS => rp[r].root.steps = <<>>
  /\ rp[r].root.seed # NoKS => idp.root.seed # NoKS

RInv(r) ==
  /\ AllWait /\ SeqHeld /\ AnswerHeld(r) /\ SeedsOK(r)
  /\ NoneRelayed => InStep(r) \/ Ahead(r, seq[r])

LEMMA SerialLink == MaxInFlight <= 1 /\ OnlyLinkFaults => OneAtATime
  BY DEF OnlyLinkFaults, OneAtATime

\* The other requests have ended while one is under way.
LEMMA OthersEnded ==
  ASSUME WInv, AllWait, NEW q \in Requests, ~Ended(q)
  PROVE  \A p \in Requests \ {q} : Ended(p)
  BY DEF WInv, Alone, AllWait, Waiting

\* A DH step appends to the secrets mixed into a root key.
LEMMA KdfRKAppends ==
  ASSUME NEW root \in RootKeys, NEW dh
  PROVE  /\ KdfRK(root, dh).steps = Append(root.steps, dh)
         /\ KdfRK(root, dh).seed = root.seed
  BY DEF KdfRK, RootKeys

\* Ahead of the RP, the IdP has been seeded.
LEMMA AheadSeeded ==
  ASSUME TInv, NEW r \in RPs, SeedsOK(r), NEW s, <<r, s>> \in Prekeys, Ahead(r, s)
  PROVE  idp.root.seed # NoKS
<1> DEFINE dh == DH(idp.ipk, <<r, s>>)
<1>1. dh \in DHSteps /\ rp[r].root \in RootKeys
  BY DEF DH, DHSteps, TInv, TypeOK
<1>2. idp.root.steps = Append(rp[r].root.steps, dh)
  BY DEF Ahead
<1> HIDE DEF dh
<1>3. KdfRK(rp[r].root, dh).steps # <<>>
  BY <1>1, KdfRKLast
<1>4. KdfRK(rp[r].root, dh).steps = Append(rp[r].root.steps, dh)
  BY <1>1, KdfRKAppends
<1>5. idp.root.steps # <<>>
  BY <1>2, <1>3, <1>4, Zenon
<1> QED
  BY <1>5 DEF SeedsOK

\* The IdP handles a header: whether it is new or sent again, the IdP is ahead
\* by exactly the step for that prekey.
LEMMA IdPTurns ==
  ASSUME TInv, NEW r \in RPs, RInv(r), NEW q \in Requests, req[q].pc = "sent",
         req[q].rp = r, NoneRelayed, IdPCommit(q, IdPPosition(q)), UNCHANGED <<rp, seq>>
  PROVE  /\ Ahead(r, seq[r])' /\ SeedsOK(r)'
         /\ idp'.root = IdPPosition(q).root /\ idp'.ipk = IdPKey(q)
         /\ idp'.root.seed # NoKS
         /\ idp.root.seed # NoKS => idp'.root.seed = idp.root.seed
         /\ IdPPosition(q).n # 0 => idp.dhA = <<r, seq[r]>>
<1> DEFINE seeded == SeedRoot(idp.root, idpKS)
           dh == DH(IdPKey(q), req[q].hdr)
           at == IdPPosition(q)
           hdr == <<r, seq[r]>>
<1>1. /\ req[q].hdr = hdr
      /\ InStep(r) \/ Ahead(r, seq[r])
      /\ idp.root \in RootKeys /\ idp.ipk \in Nat /\ rp[r].root \in RootKeys /\ idpKS \in Nat
      /\ rp[r].dhB # Nil => rp[r].dhB \in Nat
  BY DEF RInv, SeqHeld, TInv, TypeOK
<1>2. /\ seeded \in RootKeys /\ seeded.seed # NoKS
      /\ idp.root.seed # NoKS => seeded = idp.root
      /\ seeded.steps = idp.root.steps
  BY <1>1, SeedRootType DEF SeedRoot, RInv, SeedsOK
<1>3. /\ idp'.root = at.root /\ idp'.dhA = hdr /\ idp'.ipk = IdPKey(q)
  BY <1>1 DEF IdPCommit
<1>4. at = Position(IsNewHdr(q), seeded, idp.n, dh)
  BY DEF IdPPosition
<1>5. CASE idp.dhA # hdr
  <2>1. InStep(r)
    BY <1>1, <1>5 DEF Ahead
  <2>2. IsNewHdr(q) /\ IdPKey(q) = idp.ipk + 1
    BY <1>1, <1>5 DEF IsNewHdr, IdPKey
  <2>3. at = [root |-> KdfRK(seeded, dh), n |-> 0]
    BY <1>4, <2>2 DEF Position
  <2>4. /\ KdfRK(seeded, dh).steps = Append(seeded.steps, dh)
        /\ KdfRK(seeded, dh).seed = seeded.seed
    BY <1>2, KdfRKAppends
  <2>5. dh = DH(idp'.ipk, hdr)
    BY <1>1, <1>3
  <2> HIDE DEF seeded, dh, at, hdr
  <2>6. /\ idp'.root.steps = Append(rp[r].root.steps, DH(idp'.ipk, hdr))
        /\ idp'.root.seed = seeded.seed /\ at.n = 0
    BY <1>2, <1>3, <2>1, <2>3, <2>4, <2>5 DEF InStep
  <2>7. rp[r].dhB # idp'.ipk /\ (rp[r].dhB # Nil => rp[r].dhB <= idp'.ipk)
    <3>1. idp'.ipk = idp.ipk + 1
      BY <1>3, <2>2
    <3> QED
      BY <1>1, <3>1, NilAssumption DEF RInv, SeedsOK
  <2>8. Ahead(r, seq[r])'
    BY <1>3, <2>6, <2>7 DEF Ahead, hdr
  <2>9. SeedsOK(r)'
    BY <1>2, <2>6, <2>7 DEF SeedsOK, RInv
  <2> QED
    BY <1>2, <1>3, <2>6, <2>8, <2>9 DEF at
<1>6. CASE idp.dhA = hdr
  <2>1. Ahead(r, seq[r])
    BY <1>1, <1>6 DEF InStep
  <2>2. ~IsNewHdr(q) /\ IdPKey(q) = idp.ipk
    BY <1>1, <1>6 DEF IsNewHdr, IdPKey
  <2>3. at = [root |-> seeded, n |-> idp.n]
    BY <1>4, <2>2 DEF Position
  <2>4. req[q].hdr \in Prekeys
    BY DEF TInv, RequestsOK, RequestOK
  <2>5. idp.root.seed # NoKS /\ seeded = idp.root
    BY <1>1, <1>2, <2>1, <2>4, AheadSeeded DEF RInv
  <2> HIDE DEF seeded, dh, at
  <2>6. idp'.root = idp.root /\ idp'.ipk = idp.ipk /\ idp'.dhA = idp.dhA
    BY <1>3, <1>6, <2>2, <2>3, <2>5
  <2>7. Ahead(r, seq[r])' /\ SeedsOK(r)'
    BY <2>1, <2>6 DEF Ahead, SeedsOK, RInv
  <2> QED
    BY <1>3, <1>6, <2>5, <2>6, <2>7 DEF at
<1> QED
  BY <1>5, <1>6
\* The RP handles the answer, whether it can decrypt it or not: it catches up
\* with the IdP, and its chain is at the first message key.
LEMMA RPTurns ==
  ASSUME TInv, NEW r \in RPs, RInv(r), NEW q \in Requests, req[q].pc = "relayed",
         req[q].rp = r, RPCommit(q, RPPosition(q)), UNCHANGED <<idp, seq>>
  PROVE  /\ InStep(r)' /\ SeedsOK(r)'
         /\ rp'[r].root = RPPosition(q).root /\ RPPosition(q).n = 0
         /\ rp'[r].root.seed # NoKS
         /\ rp[r].root.seed # NoKS => rp'[r].root.seed = rp[r].root.seed
<1> DEFINE seeded == SeedRoot(rp[r].root, rpKS[r])
           dh == DH(req[q].ans.hdr, <<r, req[q].seq>>)
           at == RPPosition(q)
<1>1. /\ req[q].ans.hdr = idp.ipk /\ Ahead(r, req[q].seq)
      /\ seq[r] = req[q].seq + 1 /\ req[q].seq \in Nat
      /\ rp[r].root \in RootKeys /\ rpKS[r] \in Nat /\ idp.ipk \in Nat
      /\ rp \in [RPs -> RPStates] /\ SeqInRange(req[q].seq)
  BY DEF RInv, AnswerHeld, SeqHeld, TInv, TypeOK, RequestStates, RPStates
<1>2. /\ seeded \in RootKeys /\ seeded.seed # NoKS
      /\ rp[r].root.seed # NoKS => seeded = rp[r].root
      /\ seeded.steps = rp[r].root.steps
  BY <1>1, SeedRootType DEF SeedRoot, RInv, SeedsOK
<1>3. at = [root |-> KdfRK(seeded, dh), n |-> 0]
  BY <1>1 DEF RPPosition, Position, Ahead
<1>4. /\ KdfRK(seeded, dh).steps = Append(seeded.steps, dh)
      /\ KdfRK(seeded, dh).seed = seeded.seed
  BY <1>2, KdfRKAppends
<1>5. rp'[r].root = at.root /\ rp'[r].dhB = idp.ipk
  BY <1>1 DEF RPCommit
<1>6. dh = DH(idp.ipk, <<r, req[q].seq>>)
  BY <1>1
<1> HIDE DEF seeded, dh, at
<1>7. rp'[r].root.steps = idp.root.steps /\ rp'[r].root.seed = seeded.seed /\ at.n = 0
  BY <1>1, <1>2, <1>3, <1>4, <1>5, <1>6 DEF Ahead
<1>8. idp'.dhA # <<r, seq'[r]>>
  BY <1>1 DEF Ahead
<1>9. InStep(r)'
  BY <1>7, <1>8 DEF InStep
<1>10. SeedsOK(r)'
  <2>1. <<r, req[q].seq>> \in Prekeys
    BY <1>1, BoundsAssumption DEF SeqInRange, Prekeys
  <2>2. idp.root.seed # NoKS
    BY <1>1, <2>1, AheadSeeded DEF RInv
  <2> QED
    BY <1>1, <1>2, <1>5, <1>7, <2>2 DEF RInv, SeedsOK
<1> QED
  BY <1>2, <1>5, <1>7, <1>9, <1>10 DEF at

\* A step of a server that leaves both ratchets and the broker's seq alone and
\* has nothing to do with an answer.
LEMMA RGoesOn ==
  ASSUME TInv, NEW r \in RPs, RInv(r), NEW q \in Requests, NEW x \in RequestStates,
         \A p \in Requests \ {q} : Ended(p),
         req' = [req EXCEPT ![q] = x], UNCHANGED <<rp, idp, seq>>,
         x.caller = "rp", x.pc \notin {"answered", "relayed"}, req[q].pc # "relayed",
         x.pc \in {"hdr", "sent"} => x.hdr = <<x.rp, seq[x.rp]>>,
         x.pc = "sent" => x.seq = seq[x.rp]
  PROVE  RInv(r)'
<1>1. \A p \in Requests : req'[p] = IF p = q THEN x ELSE req[p]
  BY DEF TInv, TypeOK
<1>2. AllWait'
  BY <1>1 DEF RInv, AllWait
<1>3. SeqHeld'
  BY <1>1 DEF RInv, SeqHeld
<1>4. AnswerHeld(r)'
  BY <1>1 DEF AnswerHeld, Ended
<1>5. NoneRelayed
  BY DEF NoneRelayed, Ended
<1>6. SeedsOK(r)' /\ (InStep(r)' \/ Ahead(r, seq[r])')
  BY <1>5 DEF RInv, SeedsOK, InStep, Ahead
<1> QED
  BY <1>2, <1>3, <1>4, <1>6 DEF RInv

LEMMA RFails ==
  ASSUME TInv, WInv, NEW r \in RPs, RInv(r), NEW q \in Requests, ~Ended(q), Fail(q),
         req[q].pc # "relayed", UNCHANGED <<rp, idp, seq>>
  PROVE  RInv(r)'
<1> DEFINE x == [req[q] EXCEPT !.pc = "failed"]
<1>1. req[q] \in RequestStates
  BY DEF TInv, TypeOK
<1>2. /\ x \in RequestStates /\ req' = [req EXCEPT ![q] = x]
      /\ x.pc = "failed" /\ x.caller = "rp"
  BY <1>1 DEF Fail, RequestStates, RInv, AllWait
<1>3. \A p \in Requests \ {q} : Ended(p)
  BY OthersEnded DEF RInv
<1> HIDE DEF x
<1> QED
  BY <1>2, <1>3, RGoesOn

\* The broker's and the RP's steps before and after the call to the IdP.
LEMMA RHandlers ==
  ASSUME TInv, WInv, NEW r \in RPs, RPs = {r}, RInv(r), NEW q \in Requests,
         \/ BrokerCheck(q) \/ BrokerRefuse(q) \/ BrokerReadHdr(q) \/ BrokerSend(q)
         \/ SaveSession(q)
  PROVE  RInv(r)'
<1>1. /\ req[q] \in RequestStates /\ RequestOK(req[q]) /\ req[q].caller = "rp"
      /\ seq \in [RPs -> Nat] /\ tok \in [RPs -> Nat]
  BY DEF TInv, TypeOK, RequestsOK, RInv, AllWait
<1>2. /\ ~Ended(q) /\ UNCHANGED <<rp, idp, seq>>
      /\ req[q].pc # "relayed"
  BY DEF BrokerCheck, BrokerRefuse, BrokerReadHdr, BrokerSend, SaveSession, Ended,
         rpVars, brokerVars, idpVars
<1>3. \A p \in Requests \ {q} : Ended(p)
  BY <1>2, OthersEnded DEF RInv
<1>4. req[q].rp = r
  BY <1>1, <1>2 DEF RequestOK, Ended
<1>5. CASE BrokerRefuse(q)
  BY <1>2, <1>5, RFails DEF BrokerRefuse
<1>6. CASE BrokerCheck(q)
  <2> DEFINE x == [req[q] EXCEPT !.pc = "checked", !.tok = tok[req[q].rp]]
  <2>1. /\ x \in RequestStates /\ req' = [req EXCEPT ![q] = x]
        /\ x.pc = "checked" /\ x.caller = "rp"
    BY <1>1, <1>4, <1>6 DEF BrokerCheck, RequestStates
  <2> HIDE DEF x
  <2> QED
    BY <1>2, <1>3, <2>1, RGoesOn
<1>7. CASE BrokerReadHdr(q)
  <2> DEFINE x == [req[q] EXCEPT !.pc = "hdr", !.hdr = <<req[q].rp, seq[req[q].rp]>>]
  <2>1. <<r, seq[r]>> \in Prekeys
    BY <1>1, <1>4, <1>7, BoundsAssumption DEF BrokerReadHdr, HasPrekey, Prekeys
  <2>2. /\ x \in RequestStates /\ req' = [req EXCEPT ![q] = x]
        /\ x.pc = "hdr" /\ x.caller = "rp" /\ x.rp = r /\ x.hdr = <<r, seq[r]>>
    BY <1>1, <1>4, <1>7, <2>1 DEF BrokerReadHdr, RequestStates
  <2> HIDE DEF x
  <2> QED
    BY <1>2, <1>3, <2>2, RGoesOn
<1>8. CASE BrokerSend(q)
  <2> DEFINE x == [req[q] EXCEPT !.pc = "sent", !.seq = seq[req[q].rp]]
  <2>1. req[q].hdr = <<r, seq[r]>>
    BY <1>4, <1>8 DEF BrokerSend, RInv, SeqHeld
  <2>2. /\ x \in RequestStates /\ req' = [req EXCEPT ![q] = x]
        /\ x.pc = "sent" /\ x.caller = "rp" /\ x.rp = r /\ x.hdr = <<r, seq[r]>>
        /\ x.seq = seq[r]
    BY <1>1, <1>4, <1>8, <2>1 DEF BrokerSend, RequestStates
  <2> HIDE DEF x
  <2> QED
    BY <1>2, <1>3, <2>2, RGoesOn
<1>9. CASE SaveSession(q)
  <2> DEFINE x == [req[q] EXCEPT !.pc = "done"]
  <2>1. /\ x \in RequestStates /\ req' = [req EXCEPT ![q] = x]
        /\ x.pc = "done" /\ x.caller = "rp"
    BY <1>1, <1>9 DEF SaveSession, RequestStates
  <2> HIDE DEF x
  <2> QED
    BY <1>2, <1>3, <2>1, RGoesOn
<1> QED
  BY <1>5, <1>6, <1>7, <1>8, <1>9
LEMMA RClick ==
  ASSUME OneAtATime, TInv, WInv, NEW r \in RPs, RInv(r), NEW q \in Requests, NEW s \in RPs,
         Click(q, s)
  PROVE  RInv(r)'
<1> DEFINE x == [req[q] EXCEPT !.pc = "posted", !.rp = s]
<1>1. Waiting = {}
  BY AsksAlone
<1>2. \A p \in Requests : Ended(p)
  BY <1>1 DEF Waiting, RInv, AllWait
<1>3. req[q] \in RequestStates /\ req[q].caller = "rp"
  BY DEF TInv, TypeOK, RInv, AllWait
<1>4. /\ x \in RequestStates /\ req' = [req EXCEPT ![q] = x] /\ x.pc = "posted"
      /\ x.caller = "rp" /\ req[q].pc # "relayed" /\ UNCHANGED <<rp, idp, seq>>
  BY <1>3 DEF Click, RequestStates, rpVars, brokerVars, idpVars
<1> HIDE DEF x
<1> QED
  BY <1>2, <1>4, RGoesOn

LEMMA RAnswer ==
  ASSUME TInv, WInv, NEW r \in RPs, RPs = {r}, RInv(r), NEW q \in Requests, IdPAnswer(q)
  PROVE  RInv(r)'
<1>1. /\ req[q].pc = "sent" /\ req[q].caller = "rp" /\ req[q].rp = r
      /\ req[q].hdr = <<r, seq[r]>> /\ req[q].seq = seq[r]
      /\ UNCHANGED <<rp, seq>> /\ IdPCommit(q, IdPPosition(q))
  <2>1. req[q].pc = "sent" /\ RequestOK(req[q])
    BY DEF IdPAnswer, TInv, RequestsOK
  <2>2. req[q].rp = r
    BY <2>1 DEF RequestOK
  <2> QED
    BY <2>1, <2>2 DEF IdPAnswer, RInv, AllWait, SeqHeld, rpVars, brokerVars
<1>2. \A p \in Requests \ {q} : Ended(p)
  BY <1>1, OthersEnded DEF RInv, Ended
<1>3. NoneRelayed
  BY <1>1, <1>2 DEF NoneRelayed, Ended
<1>4. /\ Ahead(r, seq[r])' /\ SeedsOK(r)'
      /\ idp'.root = IdPPosition(q).root /\ idp'.ipk = IdPKey(q)
  BY <1>1, <1>3, IdPTurns
<1>5. /\ req'[q].pc = "answered" /\ req'[q].rp = r
      /\ req'[q].ans.mk = IdPPosition(q) /\ req'[q].ans.hdr = IdPKey(q)
      /\ req'[q].ans.aad = <<<<r, seq[r]>>, seq[r]>>
      /\ \A p \in Requests \ {q} : req'[p] = req[p]
  BY <1>1, AnswerWritten
<1>6. /\ req'[q].caller = "rp" /\ req'[q].hdr = <<r, seq[r]>> /\ req'[q].seq = seq[r]
  BY <1>1 DEF IdPAnswer, TInv, TypeOK, RequestStates
<1>7. AllWait'
  BY <1>5, <1>6 DEF RInv, AllWait
<1>8. SeqHeld'
  BY <1>1, <1>5, <1>6 DEF RInv, SeqHeld
<1>9. AnswerHeld(r)'
  BY <1>1, <1>2, <1>4, <1>5, <1>6 DEF AnswerHeld, Ended
<1> QED
  BY <1>4, <1>7, <1>8, <1>9 DEF RInv

LEMMA RReject ==
  ASSUME TInv, WInv, NEW r \in RPs, RPs = {r}, RInv(r), NEW q \in Requests, IdPReject(q)
  PROVE  RInv(r)'
<1>1. /\ req[q].pc = "sent" /\ req[q].rp = r
      /\ UNCHANGED <<rp, seq>> /\ IdPCommit(q, IdPPosition(q)) /\ Fail(q)
  <2>1. req[q].pc = "sent" /\ RequestOK(req[q])
    BY DEF IdPReject, TInv, RequestsOK
  <2>2. req[q].rp = r
    BY <2>1 DEF RequestOK
  <2> QED
    BY <2>1, <2>2 DEF IdPReject, rpVars, brokerVars
<1>2. \A p \in Requests \ {q} : Ended(p)
  BY <1>1, OthersEnded DEF RInv, Ended
<1>3. NoneRelayed
  BY <1>1, <1>2 DEF NoneRelayed, Ended
<1>4. Ahead(r, seq[r])' /\ SeedsOK(r)'
  BY <1>1, <1>3, IdPTurns
<1>5. /\ req'[q].pc = "failed" /\ req'[q].caller = req[q].caller
      /\ \A p \in Requests \ {q} : req'[p] = req[p]
  BY <1>1 DEF Fail, TInv, TypeOK, RequestStates
<1>6. AllWait' /\ SeqHeld'
  BY <1>1, <1>5 DEF RInv, AllWait, SeqHeld
<1>7. AnswerHeld(r)'
  BY <1>2, <1>5 DEF AnswerHeld, Ended
<1> QED
  BY <1>4, <1>6, <1>7 DEF RInv

LEMMA RRelay ==
  ASSUME TInv, WInv, NEW r \in RPs, RPs = {r}, RInv(r), NEW q \in Requests, BrokerRelay(q)
  PROVE  RInv(r)'
<1>1. /\ req[q].pc = "answered" /\ req[q].caller = "rp" /\ req[q].rp = r
      /\ req[q].hdr = <<r, seq[r]>> /\ req[q].seq = seq[r] /\ req[q].hdr \in Prekeys
      /\ UNCHANGED <<rp, idp>> /\ seq'[r] = seq[r] + 1
  <2>1. req[q].pc = "answered" /\ RequestOK(req[q])
    BY DEF BrokerRelay, TInv, RequestsOK
  <2>2. req[q].rp = r /\ req[q].hdr \in Prekeys
    BY <2>1 DEF RequestOK
  <2>3. seq'[r] = seq[r] + 1
    BY <2>2 DEF BrokerRelay, NextSeq, TInv, TypeOK
  <2> QED
    BY <2>1, <2>2, <2>3 DEF BrokerRelay, RInv, AllWait, SeqHeld, rpVars, idpVars
<1>2. \A p \in Requests \ {q} : Ended(p)
  BY <1>1, OthersEnded DEF RInv, Ended
<1>3. /\ req'[q].pc = "relayed" /\ req'[q].caller = "rp" /\ req'[q].rp = r
      /\ req'[q].seq = seq[r] /\ req'[q].ans = req[q].ans
      /\ \A p \in Requests \ {q} : req'[p] = req[p]
  BY <1>1 DEF BrokerRelay, TInv, TypeOK, RequestStates
<1>4. AllWait'
  BY <1>3 DEF RInv, AllWait
<1>5. SeqInRange(seq[r])
  <2>1. <<r, seq[r]>> \in RPs \X (0 .. N - 1)
    BY <1>1 DEF Prekeys
  <2>2. seq[r] \in 0 .. N - 1
    BY <2>1
  <2> QED
    BY <2>2, BoundsAssumption DEF SeqInRange
<1>6. SeqHeld'
  BY <1>1, <1>2, <1>3, <1>5 DEF SeqHeld, Ended
<1>7. Ahead(r, seq[r]) /\ (Ahead(r, req[q].seq))'
  BY <1>1, <1>3 DEF RInv, AnswerHeld, Ahead
<1>8. AnswerHeld(r)'
  BY <1>1, <1>2, <1>3, <1>7 DEF RInv, AnswerHeld, Ended
<1>9. SeedsOK(r)' /\ ~NoneRelayed'
  BY <1>1, <1>3 DEF RInv, SeedsOK, NoneRelayed
<1> QED
  BY <1>4, <1>6, <1>8, <1>9 DEF RInv

LEMMA ROpen ==
  ASSUME TInv, WInv, NEW r \in RPs, RPs = {r}, RInv(r), NEW q \in Requests,
         RPOpen(q) \/ RPCannotOpen(q)
  PROVE  RInv(r)'
<1>1. /\ req[q].pc = "relayed" /\ req[q].rp = r
      /\ RPCommit(q, RPPosition(q)) /\ UNCHANGED <<idp, seq>>
  <2>1. req[q].pc = "relayed" /\ RequestOK(req[q])
    BY DEF RPOpen, RPCannotOpen, TInv, RequestsOK
  <2>2. req[q].rp = r
    BY <2>1 DEF RequestOK
  <2> QED
    BY <2>1, <2>2 DEF RPOpen, RPCannotOpen, brokerVars, idpVars
<1>2. InStep(r)' /\ SeedsOK(r)'
  BY <1>1, RPTurns
<1>3. /\ req'[q].pc \in {"opened", "failed"} /\ req'[q].caller = req[q].caller
      /\ \A p \in Requests \ {q} : req'[p] = req[p]
  BY DEF RPOpen, RPCannotOpen, Fail, TInv, TypeOK, RequestStates
<1>4. \A p \in Requests \ {q} : Ended(p)
  BY <1>1, OthersEnded DEF RInv, Ended
<1>5. AllWait' /\ SeqHeld'
  BY <1>1, <1>3 DEF RInv, AllWait, SeqHeld
<1>6. AnswerHeld(r)'
  BY <1>3, <1>4 DEF AnswerHeld, Ended
<1> QED
  BY <1>2, <1>5, <1>6 DEF RInv

\* What a lost message or an expired token changes.
LEMMA LinkFault ==
  ASSUME OnlyLinkFaults, Environment
  PROVE  \/ \E q \in Requests : /\ req[q].pc \in {"sent", "answered"} /\ Fail(q)
                                /\ faults' = faults + 1
                                /\ UNCHANGED <<rpVars, brokerVars, idpVars, histVars>>
         \/ \E t \in valid : TokenExpires(t)
<1>1. \A kind \in {"lateRequest", "rpTimeout", "rpRestart", "brokerRestart", "idpRestart"} :
        ~Fault(kind)
  BY DEF OnlyLinkFaults, Fault
<1> QED
  BY <1>1 DEF Environment, RPTimeout, RPRestart, BrokerRestart, IdPRestart, IdPCallFails, Fault

LEMMA InitRInv == ASSUME NEW r \in RPs, Init PROVE RInv(r)
<1>1. <<r, 0>> \in Prekeys
  BY BoundsAssumption DEF Prekeys
<1>2. Nil # <<r, 0>>
  BY <1>1, NilAssumption
<1>3. InStep(r)
  BY <1>2 DEF Init, InStep, Unseeded
<1>4. SeedsOK(r)
  BY DEF Init, SeedsOK, Unseeded
<1>5. AllWait /\ SeqHeld /\ AnswerHeld(r)
  BY DEF Init, AllWait, SeqHeld, AnswerHeld, Idle
<1> QED
  BY <1>3, <1>4, <1>5 DEF RInv

LEMMA NextRInv ==
  ASSUME OneAtATime, OnlyLinkFaults, NEW r \in RPs, RPs = {r},
         TInv, WInv, RInv(r), [Next]_vars
  PROVE  RInv(r)'
<1>1. ASSUME NEW q \in Requests, Handle(q) PROVE RInv(r)'
  <2>1. ~BrokerPanic(q)
    BY DEF BrokerPanic, WInv, PrekeyIndexInRange, HasPrekey
  <2>2. ~RPSeqOutOfRange(q)
    BY DEF RPSeqOutOfRange, RInv, SeqHeld
  <2> QED
    BY <1>1, <2>1, <2>2, RHandlers, RAnswer, RReject, RRelay, ROpen DEF Handle
<1>2. CASE \E q \in Requests : \E s \in RPs : Click(q, s)
  BY <1>2, RClick
<1>3. CASE UNCHANGED <<rp, idp, seq, req>>
  <2>1. AllWait' /\ SeqHeld' /\ (NoneRelayed' <=> NoneRelayed)
    BY <1>3 DEF RInv, AllWait, SeqHeld, NoneRelayed
  <2>2. AnswerHeld(r)' /\ SeedsOK(r)'
    BY <1>3 DEF RInv, AnswerHeld, SeedsOK, Ahead
  <2>3. /\ InStep(r) => InStep(r)'
        /\ Ahead(r, seq[r]) => Ahead(r, seq[r])'
    BY <1>3 DEF InStep, Ahead
  <2> QED
    BY <2>1, <2>2, <2>3 DEF RInv
<1>4. CASE \E s \in RPs : Login(s)
  BY <1>3, <1>4 DEF Login, RPSaveSessionKS, IdPSaveSessionKS, BrokerStoresTokens, LoginCompletes,
                    brokerVars, idpVars, rpVars
<1>5. CASE Environment
  <2>1. CASE \E t \in valid : TokenExpires(t)
    BY <1>3, <2>1 DEF TokenExpires, rpVars, brokerVars
  <2>2. ASSUME NEW q \in Requests, req[q].pc \in {"sent", "answered"}, Fail(q),
               UNCHANGED <<rpVars, brokerVars, idpVars, histVars>>
        PROVE  RInv(r)'
    BY <2>2, RFails DEF Ended, rpVars, brokerVars, idpVars
  <2> QED
    BY <1>5, <2>1, <2>2, LinkFault
<1>6. CASE UNCHANGED vars
  BY <1>3, <1>6 DEF vars, brokerVars
<1> QED
  BY <1>1, <1>2, <1>4, <1>5, <1>6 DEF Next

\* Refreshes one at a time between one RP and the IdP, with messages lost and
\* tokens expiring: once both ends are seeded from one K_S their root keys are
\* equal between requests, or the IdP is ahead by the DH step for the prekey
\* that the broker will send again.
THEOREM RootKeysNeverPart ==
  ASSUME MaxInFlight <= 1, OnlyLinkFaults, NEW r \in RPs, RPs = {r}
  PROVE  Spec => []RootsAgree
<1>1. Init => TInv /\ WInv /\ RInv(r)
  BY InitTInv, InitWInv, InitRInv
<1>2. TInv /\ WInv /\ RInv(r) /\ [Next]_vars => TInv' /\ WInv' /\ RInv(r)'
  BY NextTInv, NextWInv, NextRInv, SerialLink
<1>3. TInv /\ RInv(r) => RootsAgree
  <2> SUFFICES ASSUME TInv, RInv(r), Quiet, SameSeed(r)
               PROVE  \/ idp.root = rp[r].root
                      \/ /\ idp.root = KdfRK(rp[r].root, DH(idp.ipk, <<r, seq[r]>>))
                         /\ idp.dhA = <<r, seq[r]>>
    BY DEF RootsAgree
  <2>1. InStep(r) \/ Ahead(r, seq[r])
    BY DEF RInv, NoneRelayed, Quiet, Ended
  <2>2. idp.root \in RootKeys /\ rp[r].root \in RootKeys /\ idp.root.seed = rp[r].root.seed
    BY DEF TInv, TypeOK, SameSeed
  <2>3. CASE InStep(r)
    BY <2>2, <2>3 DEF InStep, RootKeys
  <2>4. CASE Ahead(r, seq[r])
    BY <2>2, <2>4 DEF Ahead, KdfRK, RootKeys
  <2> QED
    BY <2>1, <2>3, <2>4
<1> QED
  BY <1>1, <1>2, <1>3, PTL DEF Spec
(***************************************************************************)
(* What the faults so far may still cost.                                  *)
(***************************************************************************)
Asked == {q \in Requests : req[q].pc \in {"checked", "hdr", "sent"}}
Held  == {q \in Requests : req[q].pc \in {"answered", "relayed"}}

Expired(t) == t # 0 /\ t \notin valid

\* The next answer r gets, or the one it is about to get, is lost on it.
Debt(r) == IF Held # {} THEN \E q \in Held : req[q].ans.mk.n # 0
                        ELSE idp.dhA = <<r, seq[r]>>

\* The IdP will reject the request under way and the debt is still to come.
DebtAsked(r) == ~Debt(r) /\ \E q \in Asked : Expired(req[q].tok)

\* So will it the next one, with the token the broker has now ...
DebtStored(r) == /\ Expired(tok[r])
                 /\ IF Asked # {} THEN \E q \in Asked : req[q].tok \in valid
                    ELSE Held # {} \/ ~Debt(r)

\* ... and one with the token that the login under way will store.
DebtIssued(r) == /\ login[r].at = "issued" /\ Expired(login[r].ks)
                 /\ ~Expired(tok[r])

Bit(b) == IF b THEN 1 ELSE 0

Cost(r) == Bit(Debt(r)) + Bit(DebtAsked(r)) + Bit(DebtStored(r)) + Bit(DebtIssued(r))

\* The ends may still come to share a K_S, or do.
MayAgree(r) == rp[r].root.seed = NoKS \/ rp[r].root.seed = idp.root.seed

\* Tokens are replaced by newer ones only.
TokensAge(r) ==
  /\ tok[r] <= logins /\ 0 \notin valid
  /\ login[r].at \in {"proved", "issued"} => tok[r] < login[r].ks /\ login[r].ks <= logins
  /\ \A q \in Requests : req[q].tok <= tok[r]
  /\ \A q \in Asked : req[q].tok # 0

DInv(r) == TokensAge(r) /\ (MayAgree(r) => failures + Cost(r) <= faults)

LEMMA OnlyAsked ==
  ASSUME WInv, AllWait, NEW q \in Requests, q \in Asked
  PROVE  Asked = {q} /\ Held = {}
  BY OthersEnded DEF Asked, Held, Ended

LEMMA OnlyHeld ==
  ASSUME WInv, AllWait, NEW q \in Requests, q \in Held
  PROVE  Held = {q} /\ Asked = {}
  BY OthersEnded DEF Asked, Held, Ended

\* What the cost is made of depends on these things only.
LEMMA SameCost ==
  ASSUME NEW r, UNCHANGED <<valid, tok, login>>,
         Asked' = Asked, \A p \in Asked : req'[p].tok = req[p].tok,
         Held' = Held, \A p \in Held : req'[p].ans = req[p].ans,
         Held = {} => idp'.dhA = idp.dhA /\ seq'[r] = seq[r]
  PROVE  Cost(r)' = Cost(r)
<1>1. Debt(r)' <=> Debt(r)
  BY DEF Debt
<1>2. \A t : Expired(t)' <=> Expired(t)
  BY DEF Expired
<1>3. DebtAsked(r)' <=> DebtAsked(r)
  BY <1>1 DEF DebtAsked, Expired
<1>4. DebtStored(r)' <=> DebtStored(r)
  BY <1>1 DEF DebtStored, Expired
<1>5. DebtIssued(r)' <=> DebtIssued(r)
  BY DEF DebtIssued, Expired
<1> QED
  BY <1>1, <1>3, <1>4, <1>5 DEF Cost, Bit

\* A step that is neither a fault nor a failure must not raise the cost.
LEMMA DKept ==
  ASSUME NEW r, DInv(r), TokensAge(r)', UNCHANGED <<faults, failures>>,
         MayAgree(r)' => MayAgree(r), Cost(r)' = Cost(r)
  PROVE  DInv(r)'
  BY DEF DInv

LEMMA DFalls ==
  ASSUME TInv, NEW r, DInv(r), TokensAge(r)', UNCHANGED <<faults, failures>>,
         MayAgree(r)' => MayAgree(r), Cost(r)' <= Cost(r)
  PROVE  DInv(r)'
<1>1. Cost(r) \in Nat /\ Cost(r)' \in Nat
  BY DEF Cost, Bit
<1>2. faults \in Nat /\ failures \in Nat
  BY DEF TInv, TypeOK
<1> QED
  BY <1>1, <1>2 DEF DInv

\* The handlers' steps that neither take a token nor turn a ratchet.
LEMMA DGoesOn ==
  ASSUME OneAtATime, TInv, WInv, NEW r \in RPs, RPs = {r}, RInv(r), DInv(r), NEW q \in Requests,
         \/ BrokerRefuse(q) \/ BrokerReadHdr(q) \/ BrokerSend(q) \/ BrokerRelay(q)
         \/ SaveSession(q) \/ \E s \in RPs : Click(q, s)
  PROVE  DInv(r)'
<1>1. /\ req \in [Requests -> RequestStates] /\ req[q] \in RequestStates
      /\ req[q].pc # "idle" => req[q].rp = r
      /\ req[q].caller = "rp"
  BY DEF TInv, TypeOK, RequestsOK, RequestOK, RInv, AllWait
<1>2. UNCHANGED <<rp, idp, valid, tok, login, logins, faults, failures>>
  BY DEF BrokerRefuse, BrokerReadHdr, BrokerSend, BrokerRelay, SaveSession, Click,
         rpVars, brokerVars, idpVars, histVars
<1>3. /\ \A p \in Requests : req'[p].tok = req[p].tok /\ req'[p].ans = req[p].ans
      /\ \A p \in Requests \ {q} : req'[p] = req[p]
      /\ q \in Asked <=> req'[q].pc \in {"checked", "hdr", "sent"}
      /\ q \in Held <=> req'[q].pc \in {"answered", "relayed"}
  BY <1>1 DEF BrokerRefuse, BrokerReadHdr, BrokerSend, BrokerRelay, SaveSession, Click,
              Fail, RequestStates, Asked, Held
<1>4. Asked' = Asked /\ Held' = Held
  BY <1>3 DEF Asked, Held
<1>5. seq' = seq \/ Held # {}
  BY DEF BrokerRefuse, BrokerReadHdr, BrokerSend, BrokerRelay, SaveSession, Click,
         brokerVars, Held
<1>6. Cost(r)' = Cost(r)
  <2>1. \A p \in Asked : req'[p].tok = req[p].tok
    BY <1>3 DEF Asked
  <2>2. \A p \in Held : req'[p].ans = req[p].ans
    BY <1>3 DEF Held
  <2>3. Held = {} => idp'.dhA = idp.dhA /\ seq'[r] = seq[r]
    BY <1>2, <1>5
  <2> QED
    BY <1>2, <1>4, <2>1, <2>2, <2>3, SameCost
<1>7. TokensAge(r)'
  BY <1>2, <1>3, <1>4 DEF DInv, TokensAge, Asked
<1>8. MayAgree(r)' => MayAgree(r)
  BY <1>2 DEF MayAgree
<1> QED
  BY <1>2, <1>6, <1>7, <1>8, DKept
\* The broker takes its token for the request: what the stored token may cost,
\* the request may cost now.
LEMMA DCheck ==
  ASSUME TInv, WInv, NEW r \in RPs, RPs = {r}, RInv(r), DInv(r), NEW q \in Requests, BrokerCheck(q)
  PROVE  DInv(r)'
<1>1. /\ req[q].pc = "posted" /\ req[q].rp = r /\ tok[r] # 0 /\ tok[r] \in Nat
      /\ UNCHANGED <<rp, idp, seq, valid, tok, login, logins, faults, failures>>
  BY DEF BrokerCheck, TInv, TypeOK, RequestsOK, RequestOK, rpVars, brokerVars, idpVars, histVars
<1>2. \A p \in Requests \ {q} : Ended(p)
  BY <1>1, OthersEnded DEF RInv, Ended
<1>3. /\ req'[q].pc = "checked" /\ req'[q].tok = tok[r]
      /\ \A p \in Requests \ {q} : req'[p] = req[p]
  BY <1>1 DEF BrokerCheck, TInv, TypeOK, RequestStates
<1>4. Asked = {} /\ Held = {} /\ Asked' = {q} /\ Held' = {}
  BY <1>1, <1>2, <1>3 DEF Asked, Held, Ended
<1>5. Debt(r)' <=> Debt(r)
  BY <1>1, <1>4 DEF Debt
<1>6. ~DebtAsked(r) /\ (DebtAsked(r)' <=> DebtStored(r))
  BY <1>1, <1>3, <1>4, <1>5 DEF DebtAsked, DebtStored, Expired
<1>7. ~DebtStored(r)'
  BY <1>1, <1>3, <1>4 DEF DebtStored, Expired
<1>8. DebtIssued(r)' <=> DebtIssued(r)
  BY <1>1 DEF DebtIssued, Expired
<1>9. Cost(r)' = Cost(r)
  BY <1>5, <1>6, <1>7, <1>8 DEF Cost, Bit
<1>10. TokensAge(r)'
  <2>1. \A p \in Requests : req'[p].tok <= tok[r]
    BY <1>1, <1>3 DEF DInv, TokensAge
  <2>2. \A p \in Asked' : req'[p].tok # 0
    BY <1>1, <1>3, <1>4
  <2> QED
    BY <1>1, <2>1, <2>2 DEF DInv, TokensAge
<1>11. MayAgree(r)' => MayAgree(r)
  BY <1>1 DEF MayAgree
<1> QED
  BY <1>1, <1>9, <1>10, <1>11, DKept

\* The IdP answers: a debt shows in the answer, the token of the request was
\* good.
LEMMA DAnswer ==
  ASSUME TInv, WInv, NEW r \in RPs, RPs = {r}, RInv(r), DInv(r), NEW q \in Requests, IdPAnswer(q)
  PROVE  DInv(r)'
<1>1. /\ req[q].pc = "sent" /\ req[q].rp = r /\ req[q].tok \in valid
      /\ IdPCommit(q, IdPPosition(q)) /\ req[q].caller = "rp"
      /\ UNCHANGED <<rp, seq, valid, tok, login, logins, faults, failures>>
  BY DEF IdPAnswer, TInv, TypeOK, RequestsOK, RequestOK, RInv, AllWait,
         rpVars, brokerVars, histVars
<1>2. Asked = {q} /\ Held = {} /\ \A p \in Requests \ {q} : Ended(p)
  BY <1>1, OnlyAsked, OthersEnded DEF Asked, RInv, Ended
<1>3. NoneRelayed
  BY <1>1, <1>2 DEF NoneRelayed, Ended
<1>4. /\ idp.root.seed # NoKS => idp'.root.seed = idp.root.seed
      /\ IdPPosition(q).n # 0 => idp.dhA = <<r, seq[r]>>
  BY <1>1, <1>3, IdPTurns
<1>5. /\ req'[q].pc = "answered" /\ req'[q].ans.mk = IdPPosition(q)
      /\ \A p \in Requests \ {q} : req'[p] = req[p]
  BY <1>1, AnswerWritten
<1>6. Asked' = {} /\ Held' = {q}
  BY <1>2, <1>5 DEF Asked, Held, Ended
<1>7. Debt(r)' => Debt(r)
  BY <1>2, <1>4, <1>5, <1>6 DEF Debt
<1>8. ~DebtAsked(r)'
  BY <1>6 DEF DebtAsked
<1>9. DebtStored(r)' => DebtStored(r)
  BY <1>1, <1>2, <1>6 DEF DebtStored, Expired
<1>10. DebtIssued(r)' <=> DebtIssued(r)
  BY <1>1 DEF DebtIssued, Expired
<1>11. Cost(r)' <= Cost(r)
  BY <1>7, <1>8, <1>9, <1>10 DEF Cost, Bit
<1>12. TokensAge(r)'
  <2>1. \A p \in Requests : req'[p].tok = req[p].tok
    BY <1>1 DEF IdPAnswer, TInv, TypeOK, RequestStates
  <2> QED
    BY <1>1, <1>6, <2>1 DEF DInv, TokensAge
<1>13. MayAgree(r)' => MayAgree(r)
  BY <1>1, <1>4 DEF MayAgree, RInv, SeedsOK
<1> QED
  BY <1>1, <1>11, <1>12, <1>13, DFalls

\* The IdP rejects the request's token: the debt is there now.
LEMMA DReject ==
  ASSUME TInv, WInv, NEW r \in RPs, RPs = {r}, RInv(r), DInv(r), NEW q \in Requests, IdPReject(q)
  PROVE  DInv(r)'
<1>1. /\ req[q].pc = "sent" /\ req[q].rp = r /\ req[q].tok \notin valid
      /\ IdPCommit(q, IdPPosition(q)) /\ req[q].caller = "rp" /\ Fail(q)
      /\ UNCHANGED <<rp, seq, valid, tok, login, logins, faults, failures>>
  BY DEF IdPReject, TInv, TypeOK, RequestsOK, RequestOK, RInv, AllWait,
         rpVars, brokerVars, histVars
<1>2. Asked = {q} /\ Held = {} /\ \A p \in Requests \ {q} : Ended(p)
  BY <1>1, OnlyAsked, OthersEnded DEF Asked, RInv, Ended
<1>3. NoneRelayed
  BY <1>1, <1>2 DEF NoneRelayed, Ended
<1>4. /\ idp.root.seed # NoKS => idp'.root.seed = idp.root.seed
      /\ Ahead(r, seq[r])'
  BY <1>1, <1>3, IdPTurns
<1>5. /\ req'[q].pc = "failed"
      /\ \A p \in Requests : req'[p].tok = req[p].tok
      /\ \A p \in Requests \ {q} : req'[p] = req[p]
  BY <1>1 DEF Fail, TInv, TypeOK, RequestStates
<1>6. Asked' = {} /\ Held' = {}
  BY <1>2, <1>5 DEF Asked, Held, Ended
<1>7. Debt(r)'
  BY <1>4, <1>6 DEF Debt, Ahead
<1>8. Debt(r) \/ DebtAsked(r)
  BY <1>1, <1>2 DEF DebtAsked, DInv, TokensAge, Expired
<1>9. ~DebtAsked(r)' /\ ~DebtStored(r)'
  BY <1>6, <1>7 DEF DebtAsked, DebtStored
<1>10. DebtIssued(r)' <=> DebtIssued(r)
  BY <1>1 DEF DebtIssued, Expired
<1>11. Cost(r)' <= Cost(r)
  BY <1>7, <1>8, <1>9, <1>10 DEF Cost, Bit
<1>12. TokensAge(r)'
  BY <1>1, <1>5, <1>6 DEF DInv, TokensAge
<1>13. MayAgree(r)' => MayAgree(r)
  BY <1>1, <1>4 DEF MayAgree, RInv, SeedsOK
<1> QED
  BY <1>1, <1>11, <1>12, <1>13, DFalls

\* The RP handles an answer: there is no debt after it, and when it cannot
\* decrypt it there was one.
LEMMA DOpen ==
  ASSUME TInv, WInv, NEW r \in RPs, RPs = {r}, RInv(r), DInv(r), NEW q \in Requests,
         RPOpen(q) \/ RPCannotOpen(q)
  PROVE  DInv(r)'
<1>1. /\ req[q].pc = "relayed" /\ req[q].rp = r /\ req[q].seq \in Nat
      /\ RPCommit(q, RPPosition(q)) /\ SeqInRange(req[q].seq)
      /\ UNCHANGED <<idp, seq, valid, tok, login, logins, faults>>
      /\ failures \in Nat /\ faults \in Nat
  BY DEF RPOpen, RPCannotOpen, TInv, TypeOK, RequestsOK, RequestOK, RequestStates,
         brokerVars, idpVars
<1>2. Held = {q} /\ Asked = {} /\ \A p \in Requests \ {q} : Ended(p)
  BY <1>1, OnlyHeld, OthersEnded DEF Held, RInv, Ended
<1>3. /\ InStep(r)' /\ rp'[r].root = RPPosition(q).root /\ RPPosition(q).n = 0
      /\ rp'[r].root.seed # NoKS
      /\ rp[r].root.seed # NoKS => rp'[r].root.seed = rp[r].root.seed
  BY <1>1, RPTurns
<1>4. /\ req'[q].pc \in {"opened", "failed"}
      /\ \A p \in Requests : req'[p].tok = req[p].tok
      /\ \A p \in Requests \ {q} : req'[p] = req[p]
  BY <1>1 DEF RPOpen, RPCannotOpen, Fail, TInv, TypeOK, RequestStates
<1>5. Asked' = {} /\ Held' = {}
  BY <1>2, <1>4 DEF Asked, Held, Ended
<1>6. ~Debt(r)' /\ ~DebtAsked(r)'
  BY <1>3, <1>5 DEF Debt, DebtAsked, InStep
<1>7. DebtStored(r)' => DebtStored(r)
  BY <1>1, <1>2 DEF DebtStored, Expired
<1>8. DebtIssued(r)' <=> DebtIssued(r)
  BY <1>1 DEF DebtIssued, Expired
<1>9. TokensAge(r)'
  BY <1>1, <1>4, <1>5 DEF DInv, TokensAge
<1>10. MayAgree(r)' => MayAgree(r)
  BY <1>1, <1>3 DEF MayAgree
<1>11. CASE RPOpen(q)
  <2>1. failures' = failures
    BY <1>11 DEF RPOpen
  <2>2. Cost(r)' <= Cost(r)
    BY <1>6, <1>7, <1>8 DEF Cost, Bit
  <2> QED
    BY <1>1, <1>9, <1>10, <2>1, <2>2, DFalls
<1>12. CASE RPCannotOpen(q)
  <2>1. failures' = failures + 1 /\ ~Opens(RPPosition(q), q)
    BY <1>12 DEF RPCannotOpen
  <2>2. ASSUME MayAgree(r)' PROVE Debt(r)
    <3>1. /\ req[q].ans.mk.root = idp.root
          /\ req[q].ans.aad = <<<<r, req[q].seq>>, req[q].seq>>
          /\ req[q].ans.mk \in MessageKeys /\ idp.root \in RootKeys
      BY <1>1 DEF RInv, AnswerHeld, TInv, TypeOK, RequestsOK, RequestOK, Answers
    <3>2. rp'[r].root \in RootKeys
      BY <1>1, RPStepType
    <3>3. RPPosition(q) = [root |-> RPPosition(q).root, n |-> RPPosition(q).n]
      BY DEF RPPosition, Position
    <3>4. RPPosition(q).root.seed = idp.root.seed /\ RPPosition(q).root.steps = idp.root.steps
      BY <1>1, <1>3, <2>2 DEF MayAgree, InStep
    <3>5. RPPosition(q).root = idp.root
      BY <1>3, <3>1, <3>2, <3>4 DEF RootKeys
    <3>6. req[q].ans.mk.n = 0 => req[q].ans.mk = RPPosition(q)
      BY <1>3, <3>1, <3>3, <3>5 DEF MessageKeys
    <3> QED
      BY <1>1, <1>2, <2>1, <3>1, <3>6 DEF Opens, Debt
  <2>3. MayAgree(r)' => Cost(r)' + 1 <= Cost(r)
    BY <1>6, <1>7, <1>8, <2>2 DEF Cost, Bit
  <2>4. Cost(r) \in Nat /\ Cost(r)' \in Nat
    BY DEF Cost, Bit
  <2> QED
    BY <1>1, <1>9, <1>10, <2>1, <2>3, <2>4 DEF DInv
<1> QED
  BY <1>11, <1>12
\* A lost message costs one refresh more at most.
LEMMA DLost ==
  ASSUME TInv, WInv, NEW r \in RPs, RPs = {r}, RInv(r), DInv(r), NEW q \in Requests,
         req[q].pc \in {"sent", "answered"}, Fail(q), faults' = faults + 1,
         UNCHANGED <<rpVars, brokerVars, idpVars, histVars>>
  PROVE  DInv(r)'
<1>1. /\ req[q].rp = r /\ faults \in Nat /\ failures \in Nat
      /\ UNCHANGED <<rp, idp, seq, valid, tok, login, logins, failures>>
  BY DEF TInv, TypeOK, RequestsOK, RequestOK, rpVars, brokerVars, idpVars, histVars
<1>2. \A p \in Requests \ {q} : Ended(p)
  BY OthersEnded DEF RInv, Ended
<1>3. /\ req'[q].pc = "failed"
      /\ \A p \in Requests : req'[p].tok = req[p].tok
      /\ \A p \in Requests \ {q} : req'[p] = req[p]
  BY DEF Fail, TInv, TypeOK, RequestStates
<1>4. Asked' = {} /\ Held' = {}
  BY <1>2, <1>3 DEF Asked, Held, Ended
<1>5. ~DebtAsked(r)'
  BY <1>4 DEF DebtAsked
<1>6. DebtIssued(r)' <=> DebtIssued(r)
  BY <1>1 DEF DebtIssued, Expired
<1>7. Cost(r)' <= Cost(r) + 1
  <2>1. CASE req[q].pc = "sent"
    <3>1. Held = {}
      BY <2>1, OnlyAsked DEF RInv, Asked
    <3>2. Debt(r)' <=> Debt(r)
      BY <1>1, <1>4, <3>1 DEF Debt
    <3> QED
      BY <1>5, <1>6, <3>2 DEF Cost, Bit
  <2>2. CASE req[q].pc = "answered"
    <3>1. Ahead(r, seq[r])
      BY <1>1, <2>2 DEF RInv, AnswerHeld, SeqHeld
    <3>2. Debt(r)'
      BY <1>1, <1>4, <3>1 DEF Debt, Ahead
    <3>3. ~DebtStored(r)'
      BY <1>4, <3>2 DEF DebtStored
    <3> QED
      BY <1>5, <1>6, <3>2, <3>3 DEF Cost, Bit
  <2> QED
    BY <2>1, <2>2
<1>8. TokensAge(r)'
  BY <1>1, <1>3, <1>4 DEF DInv, TokensAge
<1>9. MayAgree(r)' => MayAgree(r)
  BY <1>1 DEF MayAgree
<1>10. Cost(r) \in Nat /\ Cost(r)' \in Nat
  BY DEF Cost, Bit
<1> QED
  BY <1>1, <1>7, <1>8, <1>9, <1>10 DEF DInv

\* So does a token that expires, wherever it is in use.
LEMMA DExpires ==
  ASSUME TInv, WInv, NEW r \in RPs, RInv(r), DInv(r), NEW t \in valid, TokenExpires(t)
  PROVE  DInv(r)'
<1>1. /\ faults \in Nat /\ failures \in Nat /\ faults' = faults + 1 /\ valid' = valid \ {t}
      /\ UNCHANGED <<rp, idp, seq, tok, login, logins, failures, req>>
      /\ tok[r] \in Nat /\ login[r].ks \in Nat
  BY DEF TokenExpires, Fault, TInv, TypeOK, rpVars, brokerVars, idpVars, histVars
<1>2. Asked' = Asked /\ Held' = Held
  BY <1>1 DEF Asked, Held
<1>3. Debt(r)' <=> Debt(r)
  BY <1>1, <1>2 DEF Debt
<1>4. TokensAge(r) /\ TokensAge(r)'
  BY <1>1, <1>2 DEF DInv, TokensAge
<1>5. login[r].at = "issued" => login[r].ks > tok[r]
  BY <1>1, <1>4 DEF TokensAge
<1>6. \A u \in Nat : u # t => (Expired(u)' <=> Expired(u))
  BY <1>1 DEF Expired
<1>7. Expired(tok[r])' <=> tok[r] # 0 /\ (tok[r] \notin valid \/ tok[r] = t)
  BY <1>1 DEF Expired
<1>8. Cost(r)' <= Cost(r) + 1
  <2>1. CASE Asked = {}
    <3>1. ~DebtAsked(r) /\ ~DebtAsked(r)'
      BY <1>2, <2>1 DEF DebtAsked
    <3>2. CASE t = tok[r]
      <4>1. ~DebtIssued(r)'
        BY <1>1, <1>4, <3>2 DEF DebtIssued, Expired, TokensAge
      <4> QED
        BY <1>3, <3>1, <4>1 DEF Cost, Bit
    <3>3. CASE t # tok[r]
      <4>1. DebtStored(r)' <=> DebtStored(r)
        BY <1>1, <1>2, <1>3, <2>1, <3>3 DEF DebtStored, Expired
      <4> QED
        BY <1>3, <3>1, <4>1 DEF Cost, Bit
    <3> QED
      BY <3>2, <3>3
  <2>2. ASSUME NEW q \in Asked PROVE Cost(r)' <= Cost(r) + 1
    <3>1. Asked = {q} /\ Held = {}
      BY OnlyAsked DEF RInv, Asked
    <3>2. req[q].tok \in Nat /\ req[q].tok # 0 /\ req'[q].tok = req[q].tok
      BY <1>1, <1>4 DEF TInv, TypeOK, RequestStates, Asked, TokensAge
    <3>3. /\ DebtAsked(r) <=> ~Debt(r) /\ req[q].tok \notin valid
          /\ DebtAsked(r)' <=> ~Debt(r) /\ (req[q].tok \notin valid \/ req[q].tok = t)
      BY <1>1, <1>2, <1>3, <3>1, <3>2 DEF DebtAsked, Expired
    <3>4. /\ DebtStored(r) <=> tok[r] # 0 /\ tok[r] \notin valid /\ req[q].tok \in valid
          /\ DebtStored(r)' <=> /\ tok[r] # 0 /\ (tok[r] \notin valid \/ tok[r] = t)
                                /\ req[q].tok \in valid /\ req[q].tok # t
      BY <1>1, <1>2, <3>1, <3>2 DEF DebtStored, Expired
    <3>5. CASE t = tok[r]
      <4>1. ~DebtIssued(r)'
        BY <1>1, <1>4, <3>5 DEF DebtIssued, Expired, TokensAge
      <4>2. ~DebtStored(r) \/ ~DebtStored(r)'
        BY <1>1, <3>4, <3>5
      <4>3. (DebtAsked(r)' <=> DebtAsked(r)) \/ ~DebtStored(r)'
        BY <3>3, <3>4
      <4> QED
        BY <1>3, <4>1, <4>2, <4>3 DEF Cost, Bit
    <3>6. CASE t = req[q].tok /\ t # tok[r]
      <4>1. ~DebtStored(r)'
        BY <3>4, <3>6
      <4>2. DebtIssued(r)' => DebtIssued(r)
        <5>1. login[r].at = "issued" => login[r].ks # t
          BY <1>1, <1>4, <1>5, <3>2, <3>6 DEF TokensAge, Asked
        <5> QED
          BY <1>1, <3>6, <5>1 DEF DebtIssued, Expired
      <4> QED
        BY <1>3, <4>1, <4>2 DEF Cost, Bit
    <3>7. CASE t # req[q].tok /\ t # tok[r]
      <4>1. (DebtAsked(r)' <=> DebtAsked(r)) /\ (DebtStored(r)' <=> DebtStored(r))
        BY <3>3, <3>4, <3>7
      <4> QED
        BY <1>3, <4>1 DEF Cost, Bit
    <3> QED
      BY <3>5, <3>6, <3>7
  <2> QED
    BY <2>1, <2>2
<1>9. MayAgree(r)' => MayAgree(r)
  BY <1>1 DEF MayAgree
<1>10. Cost(r) \in Nat /\ Cost(r)' \in Nat
  BY DEF Cost, Bit
<1> QED
  BY <1>1, <1>4, <1>8, <1>9, <1>10 DEF DInv

\* A login brings a newer token, and never a debt of its own.
LEMMA DLogin ==
  ASSUME TInv, NEW r \in RPs, RPs = {r}, DInv(r), Login(r)
  PROVE  DInv(r)'
<1>1. /\ UNCHANGED <<rp, idp, seq, req, faults, failures>>
      /\ tok \in [RPs -> Nat] /\ logins \in Nat
      /\ login \in [RPs -> [at : {"none", "proved", "issued", "redeemed"}, ks : Nat]]
      /\ \A p \in Requests : req[p].tok \in Nat
  BY DEF Login, RPSaveSessionKS, IdPSaveSessionKS, BrokerStoresTokens, LoginCompletes, TInv, TypeOK,
         RequestStates, brokerVars, idpVars, histVars
<1>2. Asked' = Asked /\ Held' = Held
  BY <1>1 DEF Asked, Held
<1>3. Debt(r)' <=> Debt(r)
  BY <1>1, <1>2 DEF Debt
<1>4. TokensAge(r)
  BY DEF DInv
<1>5. MayAgree(r)' => MayAgree(r)
  BY <1>1 DEF MayAgree
<1>6. CASE RPSaveSessionKS(r)
  <2>1. /\ login'[r].at = "proved" /\ login'[r].ks = logins + 1 /\ logins' = logins + 1
        /\ UNCHANGED <<tok, valid>>
    BY <1>1, <1>6 DEF RPSaveSessionKS, brokerVars, idpVars
  <2>2. TokensAge(r)'
    BY <1>1, <1>2, <1>4, <2>1 DEF TokensAge
  <2>3. /\ DebtAsked(r)' <=> DebtAsked(r)
        /\ DebtStored(r)' <=> DebtStored(r)
        /\ ~DebtIssued(r)'
    BY <1>1, <1>2, <1>3, <2>1 DEF DebtAsked, DebtStored, DebtIssued, Expired
  <2>4. Cost(r)' <= Cost(r)
    BY <1>3, <2>3 DEF Cost, Bit
  <2> QED
    BY <1>1, <1>5, <2>2, <2>4, DFalls
<1>7. CASE IdPSaveSessionKS(r)
  <2>1. /\ login[r].at = "proved" /\ login'[r].at = "issued" /\ login'[r].ks = login[r].ks
        /\ valid' = valid \cup {login[r].ks} /\ UNCHANGED <<tok, logins>>
    BY <1>1, <1>7 DEF IdPSaveSessionKS, brokerVars
  <2>2. TokensAge(r)'
    BY <1>1, <1>2, <1>4, <2>1 DEF TokensAge
  <2>3. tok[r] # login[r].ks /\ \A p \in Requests : req[p].tok # login[r].ks
    BY <1>1, <1>4, <2>1 DEF TokensAge
  <2>4. DebtAsked(r)' <=> DebtAsked(r)
    BY <1>1, <1>2, <1>3, <2>1, <2>3 DEF DebtAsked, Expired, Asked
  <2>5. DebtStored(r)' <=> DebtStored(r)
    BY <1>1, <1>2, <1>3, <2>1, <2>3 DEF DebtStored, Expired, Asked
  <2>6. ~DebtIssued(r)'
    BY <2>1 DEF DebtIssued, Expired
  <2>7. Cost(r)' <= Cost(r)
    BY <1>3, <2>4, <2>5, <2>6 DEF Cost, Bit
  <2> QED
    BY <1>1, <1>5, <2>2, <2>7, DFalls
<1>8. CASE BrokerStoresTokens(r)
  <2>1. /\ login[r].at = "issued" /\ login'[r].at = "redeemed" /\ tok'[r] = login[r].ks
        /\ UNCHANGED <<valid, logins>>
    BY <1>1, <1>8 DEF BrokerStoresTokens, idpVars
  <2>2. TokensAge(r)'
    BY <1>1, <1>2, <1>4, <2>1 DEF TokensAge
  <2>3. /\ DebtAsked(r)' <=> DebtAsked(r)
        /\ ~DebtIssued(r)'
    BY <1>1, <1>2, <1>3, <2>1 DEF DebtAsked, DebtIssued, Expired
  <2>4. DebtStored(r)' => DebtStored(r) \/ DebtIssued(r)
    BY <1>1, <1>2, <1>3, <2>1 DEF DebtStored, DebtIssued, Expired
  <2>5. Cost(r)' <= Cost(r)
    BY <1>3, <2>3, <2>4 DEF Cost, Bit
  <2> QED
    BY <1>1, <1>5, <2>2, <2>5, DFalls
<1>9. CASE LoginCompletes(r)
  <2>1. /\ login[r].at = "redeemed" /\ login'[r].at = "none"
        /\ UNCHANGED <<tok, valid, logins>>
    BY <1>1, <1>9 DEF LoginCompletes, NoLogin, brokerVars, idpVars
  <2>2. TokensAge(r)'
    BY <1>1, <1>2, <1>4, <2>1 DEF TokensAge
  <2>3. /\ DebtAsked(r)' <=> DebtAsked(r)
        /\ DebtStored(r)' <=> DebtStored(r)
        /\ ~DebtIssued(r)'
    BY <1>1, <1>2, <1>3, <2>1 DEF DebtAsked, DebtStored, DebtIssued, Expired
  <2>4. Cost(r)' <= Cost(r)
    BY <1>3, <2>3 DEF Cost, Bit
  <2> QED
    BY <1>1, <1>5, <2>2, <2>4, DFalls
<1> QED
  BY <1>6, <1>7, <1>8, <1>9 DEF Login
LEMMA InitDInv == ASSUME NEW r \in RPs, Init PROVE DInv(r)
<1>1. Asked = {} /\ Held = {}
  BY DEF Init, Asked, Held, Idle
<1>2. TokensAge(r)
  BY <1>1 DEF Init, TokensAge, NoLogin, Idle
<1>3. Nil # <<r, 0>>
  <2>1. <<r, 0>> \in Prekeys
    BY BoundsAssumption DEF Prekeys
  <2> QED
    BY <2>1, NilAssumption
<1>4. ~Debt(r) /\ ~DebtAsked(r) /\ ~DebtStored(r) /\ ~DebtIssued(r)
  BY <1>1, <1>3 DEF Init, Debt, DebtAsked, DebtStored, DebtIssued, Expired, NoLogin
<1>5. Cost(r) = 0 /\ failures = 0 /\ faults = 0
  BY <1>4 DEF Cost, Bit, Init
<1> QED
  BY <1>2, <1>5 DEF DInv

LEMMA NextDInv ==
  ASSUME OneAtATime, OnlyLinkFaults, NEW r \in RPs, RPs = {r},
         TInv, WInv, RInv(r), DInv(r), [Next]_vars
  PROVE  DInv(r)'
<1>1. ASSUME NEW q \in Requests, Handle(q) PROVE DInv(r)'
  <2>1. ~BrokerPanic(q)
    BY DEF BrokerPanic, WInv, PrekeyIndexInRange, HasPrekey
  <2>2. ~RPSeqOutOfRange(q)
    BY DEF RPSeqOutOfRange, RInv, SeqHeld
  <2> QED
    BY <1>1, <2>1, <2>2, DGoesOn, DCheck, DAnswer, DReject, DOpen DEF Handle
<1>2. CASE \E q \in Requests : \E s \in RPs : Click(q, s)
  BY <1>2, DGoesOn
<1>3. CASE \E s \in RPs : Login(s)
  BY <1>3, DLogin
<1>4. CASE Environment
  BY <1>4, LinkFault, DLost, DExpires
<1>5. CASE UNCHANGED vars
  <2>1. UNCHANGED <<rp, idp, seq, valid, tok, login, logins, req, faults, failures>>
    BY <1>5 DEF vars
  <2>2. Asked' = Asked /\ Held' = Held
    BY <2>1 DEF Asked, Held
  <2>3. Cost(r)' = Cost(r)
    BY <2>1, <2>2, SameCost
  <2>4. TokensAge(r)' /\ (MayAgree(r)' => MayAgree(r))
    BY <2>1, <2>2 DEF DInv, TokensAge, MayAgree
  <2> QED
    BY <2>1, <2>3, <2>4, DKept
<1> QED
  BY <1>1, <1>2, <1>3, <1>4, <1>5 DEF Next

\* In the same circumstances, and whatever the user clicks while the refresh
\* token is expired: the answers the RP cannot decrypt never outnumber the
\* messages lost and tokens expired.
THEOREM OneRefreshPerFault ==
  ASSUME MaxInFlight <= 1, OnlyLinkFaults, NEW r \in RPs, RPs = {r}
  PROVE  Spec => []DamageBounded
<1>1. Init => TInv /\ WInv /\ RInv(r) /\ DInv(r)
  BY InitTInv, InitWInv, InitRInv, InitDInv
<1>2. TInv /\ WInv /\ RInv(r) /\ DInv(r) /\ [Next]_vars => TInv' /\ WInv' /\ RInv(r)' /\ DInv(r)'
  BY NextTInv, NextWInv, NextRInv, NextDInv, SerialLink
<1>3. TInv /\ DInv(r) => DamageBounded
  <2> SUFFICES ASSUME TInv, DInv(r), SameSeed(r) PROVE failures <= faults
    BY DEF DamageBounded
  <2>1. Cost(r) \in Nat /\ failures \in Nat /\ faults \in Nat
    BY DEF Cost, Bit, TInv, TypeOK
  <2>2. failures + Cost(r) <= faults
    BY DEF DInv, MayAgree, SameSeed
  <2> QED
    BY <2>1, <2>2
<1> QED
  BY <1>1, <1>2, <1>3, PTL DEF Spec

=============================================================================
