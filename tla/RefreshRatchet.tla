--------------------------- MODULE RefreshRatchet ---------------------------
(***************************************************************************)
(* The forward-secure token refresh: RP/refresh.go, Broker/refresh.go and  *)
(* IdP/refresh.go with the handlers that call them.                        *)
(*                                                                         *)
(* An RP posts a refresh to the broker, the broker picks the RP's next DH  *)
(* prekey and posts (hdr, seq, refresh token) to the IdP, the IdP advances *)
(* its ratchet and answers with a token encrypted under a message key, and *)
(* the RP advances its own ratchet and decrypts.  Every server handles     *)
(* requests concurrently; only the code between mu.Lock and mu.Unlock is   *)
(* atomic, so every other step of a request is an action of its own.       *)
(* A broker's configuration names one RP server (Broker/persist.go), so    *)
(* several RPs are several RP-broker pairs that share the IdP.             *)
(*                                                                         *)
(* Keys are symbolic.  A root key is the K_S it was seeded from and the DH *)
(* secrets mixed into it, in order; a chain key is its root key and the    *)
(* number of chain steps since; a DH secret is the pair of key pairs it    *)
(* was computed from.  Two keys are equal exactly when they were derived   *)
(* in the same way.                                                        *)
(***************************************************************************)
EXTENDS Integers, Sequences, FiniteSets

CONSTANTS Requests,     \* clicks on "refresh"; each is made at most once
          RPs,          \* relying parties, each with the broker that serves it
          N,            \* prekeys per RP (512 in RP/handler.go)
          Nil,          \* Go's nil for a key that has not been seen
          MaxInFlight,  \* bound: refreshes the RPs wait for at one time
          MaxLogins,    \* bound: logins that reach the proof-of-knowledge step
          Faults,       \* the kinds of fault that may happen
          MaxFaults     \* bound: how many faults may happen

FaultKinds == {"expiry", "dropRequest", "loseAnswer", "lateRequest",
               "rpTimeout", "rpRestart", "brokerRestart", "idpRestart"}

Prekeys == RPs \X (0 .. N - 1)

ASSUME BoundsAssumption ==
  /\ N \in Nat \ {0}
  /\ MaxInFlight \in Nat /\ MaxLogins \in Nat /\ MaxFaults \in Nat
  /\ Faults \subseteq FaultKinds
ASSUME NilAssumption == Nil \notin Prekeys /\ Nil \notin Nat /\ Nil \notin RPs

VARIABLES rp,        \* rp[r]: the RP's ratchet [root, n, dhB]
          rpKS,      \* rpKS[r]: session_ks in the RP's key_storage.json
          session,   \* session[r]: access token in the RP session, 0: the login's
          login,     \* login[r]: the login under way at r
          logins,    \* logins so far; login i agrees on K_S number i
          seq,       \* seq[r]: brokerRefreshState.seq for r's tid
          tok,       \* tok[r]: refresh token in the broker's UserStore, 0: none
          idp,       \* the IdP's one ratchet [root, n, dhA, ipk]
          idpKS,     \* session_ks in the IdP's key_storage.json
          valid,     \* refresh tokens that ValidateRefreshToken accepts
          minted,    \* access tokens minted by refreshes so far
          req,       \* req[q]: the state of refresh request q
          faults,    \* faults so far
          taken,     \* history: taken[r], the newest token r has decrypted
          failures   \* history: answers an RP could not decrypt

vars == <<rp, rpKS, session, login, logins, seq, tok, idp, idpKS, valid,
          minted, req, faults, taken, failures>>

rpVars     == <<rp, rpKS, session, login, logins>>
brokerVars == <<seq, tok>>
idpVars    == <<idp, idpKS, valid, minted>>
histVars   == <<taken, failures>>

(***************************************************************************)
(* Keys                                                                    *)
(***************************************************************************)
NoKS == -1      \* the ratchet is not seeded yet
Unseeded  == [seed |-> NoKS, steps |-> <<>>]
NoSession == -1

DH(ipk, prekey) == [isk |-> ipk, rpk |-> prekey]

KdfRK(root, dh) == [root EXCEPT !.steps = Append(@, dh)]

ChainKeyKept(n) == n              \* mutant of KdfCK: ck is not replaced

KdfCK(n) == n + 1

SeedRoot(root, ks) == IF root.seed = NoKS THEN [seed |-> ks, steps |-> <<>>] ELSE root

\* Where a ratchet with root key root and chain position n stands when a
\* message arrives: after a DH step if the peer's header is new.
Position(isNew, root, n, dh) ==
  IF isNew THEN [root |-> KdfRK(root, dh), n |-> 0] ELSE [root |-> root, n |-> n]

DHSteps      == [isk : Nat, rpk : Prekeys]
RootKeys     == [seed : Nat \cup {NoKS}, steps : Seq(DHSteps)]
MessageKeys  == [root : RootKeys, n : Nat]

(***************************************************************************)
(* Requests.  caller says who still waits for an answer: the RP (through   *)
(* the broker), the broker alone after the RP gave up, or nobody.          *)
(***************************************************************************)
Idle == [pc |-> "idle", caller |-> "rp", rp |-> Nil, tok |-> 0,
         hdr |-> Nil, seq |-> 0, ans |-> Nil]

Answers == [hdr : Nat, mk : MessageKeys, aad : Prekeys \X Nat, token : Nat]
ASSUME AnswersAssumption == Nil \notin Answers

RequestStates ==
  [pc     : {"idle", "posted", "checked", "hdr", "sent", "answered",
             "relayed", "opened", "done", "failed"},
   caller : {"rp", "broker", "none"},
   rp     : RPs \cup {Nil},
   tok    : Nat,
   hdr    : Prekeys \cup {Nil},
   seq    : Nat,
   ans    : Answers \cup {Nil}]

Ended(q)   == req[q].pc \in {"idle", "done", "failed"}
Waiting    == {q \in Requests : ~Ended(q) /\ req[q].caller = "rp"}
Quiet      == \A q \in Requests : Ended(q)
Fail(q)    == req' = [req EXCEPT ![q].pc = "failed"]

Fault(kind) == kind \in Faults /\ faults < MaxFaults /\ faults' = faults + 1

NoLogin == [at |-> "none", ks |-> 0]

Init ==
  /\ rp      = [r \in RPs |-> [root |-> Unseeded, n |-> 0, dhB |-> Nil]]
  /\ rpKS    = [r \in RPs |-> 0]
  /\ session = [r \in RPs |-> NoSession]
  /\ login   = [r \in RPs |-> NoLogin]
  /\ logins  = 0
  /\ seq     = [r \in RPs |-> 0]
  /\ tok     = [r \in RPs |-> 0]
  /\ idp     = [root |-> Unseeded, n |-> 0, dhA |-> Nil, ipk |-> 0]
  /\ idpKS   = 0
  /\ valid   = {}
  /\ minted  = 0
  /\ req     = [q \in Requests |-> Idle]
  /\ faults  = 0
  /\ taken   = [r \in RPs |-> 0]
  /\ failures = 0

(***************************************************************************)
(* What a login leaves behind for the refresh path.  A login may stop      *)
(* after any step and be started again.                                    *)
(***************************************************************************)

\* The RP agrees on K_S while it builds its proof and persists it.
RPSaveSessionKS(r) ==
  /\ logins < MaxLogins
  /\ logins' = logins + 1
  /\ rpKS'   = [rpKS EXCEPT ![r] = logins']
  /\ login'  = [login EXCEPT ![r] = [at |-> "proved", ks |-> logins']]
  /\ UNCHANGED <<rp, session, brokerVars, idpVars, req, faults, histVars>>

\* The IdP accepts the proof, persists the same K_S and signs a refresh token.
IdPSaveSessionKS(r) ==
  /\ login[r].at = "proved"
  /\ idpKS' = login[r].ks
  /\ valid' = valid \cup {login[r].ks}
  /\ login' = [login EXCEPT ![r].at = "issued"]
  /\ UNCHANGED <<rp, rpKS, session, logins, brokerVars, idp, minted, req,
                 faults, histVars>>

\* The RP's callback redeems the broker's code: the broker stores the tokens ...
BrokerStoresTokens(r) ==
  /\ login[r].at = "issued"
  /\ tok'   = [tok EXCEPT ![r] = login[r].ks]
  /\ login' = [login EXCEPT ![r].at = "redeemed"]
  /\ UNCHANGED <<rp, rpKS, session, logins, seq, idpVars, req, faults, histVars>>

\* ... and its answer puts the user and the access token into the session.
LoginCompletes(r) ==
  /\ login[r].at = "redeemed"
  /\ session' = [session EXCEPT ![r] = 0]
  /\ login'   = [login EXCEPT ![r] = NoLogin]
  /\ UNCHANGED <<rp, rpKS, logins, brokerVars, idpVars, req, faults, histVars>>

(***************************************************************************)
(* The RP: RP/handler.go handleRefresh and RP/refresh.go.                  *)
(***************************************************************************)

\* A logged-in user asks for a refresh: the RP posts (tid, uid_rp).
Click(q, r) ==
  /\ req[q].pc = "idle"
  /\ session[r] # NoSession
  /\ Cardinality(Waiting) < MaxInFlight
  /\ req' = [req EXCEPT ![q].pc = "posted", ![q].rp = r]
  /\ UNCHANGED <<rpVars, brokerVars, idpVars, faults, histVars>>

SeqInRange(i) == i < N

\* Where the RP's ratchet stands for the answer to q, before the chain step.
RPPosition(q) ==
  LET r    == req[q].rp
      me   == rp[r]
      root == SeedRoot(me.root, rpKS[r])
  IN  Position(me.dhB # req[q].ans.hdr, root, me.n,
               DH(req[q].ans.hdr, <<r, req[q].seq>>))

OpensUnderAnyKey(mk, q) ==        \* mutant of Opens: the tag does not cover mk
  req[q].ans.aad = <<<<req[q].rp, req[q].seq>>, req[q].seq>>

\* AES-GCM opens a ciphertext under its own key and additional data only.
Opens(mk, q) == /\ req[q].ans.mk = mk
                /\ req[q].ans.aad = <<<<req[q].rp, req[q].seq>>, req[q].seq>>

RPCommitIfOpened(q, at) ==        \* mutant of RPCommit: store after decrypting
  rp' = IF ~Opens(at, q) THEN rp
        ELSE [rp EXCEPT ![req[q].rp] =
                [root |-> at.root, n |-> KdfCK(at.n), dhB |-> req[q].ans.hdr]]

\* What DecryptResponse stores; it stores it before it tries to decrypt.
RPCommit(q, at) ==
  rp' = [rp EXCEPT ![req[q].rp] =
           [root |-> at.root, n |-> KdfCK(at.n), dhB |-> req[q].ans.hdr]]

RPOpen(q) ==
  /\ req[q].pc = "relayed"
  /\ SeqInRange(req[q].seq)
  /\ RPCommit(q, RPPosition(q))
  /\ Opens(RPPosition(q), q)
  /\ taken' = [taken EXCEPT ![req[q].rp] = req[q].ans.token]
  /\ req'   = [req EXCEPT ![q].pc = "opened"]
  /\ UNCHANGED <<rpKS, session, login, logins, brokerVars, idpVars, faults, failures>>

RPCannotOpen(q) ==
  /\ req[q].pc = "relayed"
  /\ SeqInRange(req[q].seq)
  /\ RPCommit(q, RPPosition(q))
  /\ ~Opens(RPPosition(q), q)
  /\ failures' = failures + 1
  /\ Fail(q)
  /\ UNCHANGED <<rpKS, session, login, logins, brokerVars, idpVars, faults, taken>>

\* "seq out of range" is found after the root key was seeded.
RPSeqOutOfRange(q) ==
  /\ req[q].pc = "relayed"
  /\ ~SeqInRange(req[q].seq)
  /\ LET r == req[q].rp
     IN  rp' = [rp EXCEPT ![r].root = SeedRoot(@, rpKS[r])]
  /\ Fail(q)
  /\ UNCHANGED <<rpKS, session, login, logins, brokerVars, idpVars, faults, histVars>>

\* The handler writes the session it read before it called the broker.
SaveSession(q) ==
  /\ req[q].pc = "opened"
  /\ session' = [session EXCEPT ![req[q].rp] = req[q].ans.token]
  /\ req'     = [req EXCEPT ![q].pc = "done"]
  /\ UNCHANGED <<rp, rpKS, login, logins, brokerVars, idpVars, faults, histVars>>

\* The RP's HTTP client gives up; whatever the broker is doing goes on.
RPTimeout(q) ==
  /\ req[q].caller = "rp"
  /\ req[q].pc \in {"posted", "checked", "hdr", "sent", "answered", "relayed"}
  /\ Fault("rpTimeout")
  /\ IF req[q].pc = "relayed" THEN Fail(q)
     ELSE req' = [req EXCEPT ![q].caller = "broker"]
  /\ UNCHANGED <<rpVars, brokerVars, idpVars, histVars>>

(***************************************************************************)
(* The broker: Broker/handler.go handleRefreshTokenFromRP and              *)
(* Broker/refresh.go.  state.seq is read three times with no lock held.    *)
(***************************************************************************)
PrekeyOffByOne(r) == seq[r] <= N  \* mutant of HasPrekey: > for >=

HasPrekey(r) == seq[r] < N

\* The refresh token is found and the prekey list is not exhausted.
BrokerCheck(q) ==
  /\ req[q].pc = "posted"
  /\ tok[req[q].rp] # 0
  /\ HasPrekey(req[q].rp)
  /\ req' = [req EXCEPT ![q].pc = "checked", ![q].tok = tok[req[q].rp]]
  /\ UNCHANGED <<rpVars, brokerVars, idpVars, faults, histVars>>

BrokerRefuseNoToken(q) ==         \* mutant: an exhausted list gets no answer
  /\ req[q].pc = "posted"
  /\ tok[req[q].rp] = 0
  /\ Fail(q)
  /\ UNCHANGED <<rpVars, brokerVars, idpVars, faults, histVars>>

BrokerRefuse(q) ==
  /\ req[q].pc = "posted"
  /\ tok[req[q].rp] = 0 \/ ~HasPrekey(req[q].rp)
  /\ Fail(q)
  /\ UNCHANGED <<rpVars, brokerVars, idpVars, faults, histVars>>

\* Hdr: state.rpDHPks[state.seq]
BrokerReadHdr(q) ==
  /\ req[q].pc = "checked"
  /\ HasPrekey(req[q].rp)
  /\ req' = [req EXCEPT ![q].pc = "hdr", ![q].hdr = <<req[q].rp, seq[req[q].rp]>>]
  /\ UNCHANGED <<rpVars, brokerVars, idpVars, faults, histVars>>

\* Seq: state.seq, and the post to the IdP
BrokerSend(q) ==
  /\ req[q].pc = "hdr"
  /\ req' = [req EXCEPT ![q].pc = "sent", ![q].seq = seq[req[q].rp]]
  /\ UNCHANGED <<rpVars, brokerVars, idpVars, faults, histVars>>

SeqKept(i) == i                   \* mutant of NextSeq: seq is not advanced

NextSeq(i) == i + 1

\* The IdP answered: the prekey is used up and the answer goes to the RP.
BrokerRelay(q) ==
  /\ req[q].pc = "answered"
  /\ seq' = [seq EXCEPT ![req[q].rp] = NextSeq(@)]
  /\ req' = [req EXCEPT ![q].pc = IF req[q].caller = "rp" THEN "relayed" ELSE "failed"]
  /\ UNCHANGED <<rpVars, tok, idpVars, faults, histVars>>

\* The call to the IdP fails: it never arrived, its answer was lost, or the
\* client gave up on a request that the IdP may still handle.
IdPCallFails(q) ==
  \/ /\ req[q].pc = "sent" /\ req[q].caller # "none"
     /\ Fault("dropRequest")
     /\ Fail(q)
     /\ UNCHANGED <<rpVars, brokerVars, idpVars, histVars>>
  \/ /\ req[q].pc = "answered"
     /\ Fault("loseAnswer")
     /\ Fail(q)
     /\ UNCHANGED <<rpVars, brokerVars, idpVars, histVars>>
  \/ /\ req[q].pc = "sent" /\ req[q].caller # "none"
     /\ Fault("lateRequest")
     /\ req' = [req EXCEPT ![q].caller = "none"]
     /\ UNCHANGED <<rpVars, brokerVars, idpVars, histVars>>

\* The broker process of r ends.  Its ratchet positions and user stores are in
\* memory only; ensureState starts every tid at 0 again.  A request already
\* posted to the IdP may still be handled there.
BrokerStops(r) ==
  /\ seq' = [seq EXCEPT ![r] = 0]
  /\ tok' = [tok EXCEPT ![r] = 0]
  /\ req' = [q \in Requests |->
               CASE req[q].rp = r /\ req[q].pc \in {"posted", "checked", "hdr", "answered"} ->
                      [req[q] EXCEPT !.pc = "failed"]
                 [] req[q].rp = r /\ req[q].pc = "sent" -> [req[q] EXCEPT !.caller = "none"]
                 [] OTHER -> req[q]]
  /\ UNCHANGED <<rpVars, idpVars, histVars>>

BrokerRestart(r) == Fault("brokerRestart") /\ BrokerStops(r)

\* The index in Hdr is out of range: the handler panics, nothing recovers.
BrokerPanic(q) ==
  /\ req[q].pc = "checked"
  /\ ~HasPrekey(req[q].rp)
  /\ BrokerStops(req[q].rp)
  /\ UNCHANGED faults

(***************************************************************************)
(* The IdP: IdP/refresh.go HandleBrokerRequest, all of it under h.mu.  It  *)
(* advances the ratchet first and looks at the refresh token afterwards.   *)
(***************************************************************************)
IsNewHdr(q) == idp.dhA # req[q].hdr

\* A new header brings a fresh IdP key pair; the same header keeps the old.
IdPKey(q) == IF IsNewHdr(q) THEN idp.ipk + 1 ELSE idp.ipk

IdPPosition(q) == Position(IsNewHdr(q), SeedRoot(idp.root, idpKS), idp.n,
                           DH(IdPKey(q), req[q].hdr))

IdPCommit(q, at) == idp' = [root |-> at.root, n |-> KdfCK(at.n),
                            dhA |-> req[q].hdr, ipk |-> IdPKey(q)]

Answer(q, token) == [hdr |-> IdPKey(q), mk |-> IdPPosition(q),
                     aad |-> <<req[q].hdr, req[q].seq>>, token |-> token]

IdPAnswer(q) ==
  /\ req[q].pc = "sent"
  /\ req[q].tok \in valid
  /\ IdPCommit(q, IdPPosition(q))
  /\ minted' = minted + 1
  /\ req' = [req EXCEPT ![q].pc  = IF req[q].caller = "none" THEN "failed" ELSE "answered",
                        ![q].ans = Answer(q, minted')]
  /\ UNCHANGED <<rpVars, brokerVars, idpKS, valid, faults, histVars>>

IdPReject(q) ==
  /\ req[q].pc = "sent"
  /\ req[q].tok \notin valid
  /\ IdPCommit(q, IdPPosition(q))
  /\ Fail(q)
  /\ UNCHANGED <<rpVars, brokerVars, idpKS, valid, minted, faults, histVars>>

\* Two hours pass: a refresh token expires.
TokenExpires(t) ==
  /\ t \in valid
  /\ Fault("expiry")
  /\ valid' = valid \ {t}
  /\ UNCHANGED <<rpVars, brokerVars, idp, idpKS, minted, req, histVars>>

(***************************************************************************)
(* Restarts.  K_S is on disk at both ends, everything else is lost; the    *)
(* IdP also makes a new token-signing key, so no older token verifies.     *)
(***************************************************************************)
RPRestart(r) ==
  /\ Fault("rpRestart")
  /\ rp'      = [rp EXCEPT ![r] = [root |-> Unseeded, n |-> 0, dhB |-> Nil]]
  /\ session' = [session EXCEPT ![r] = NoSession]
  /\ login'   = [login EXCEPT ![r] = NoLogin]
  /\ req' = [q \in Requests |->
               IF req[q].rp # r \/ Ended(q) \/ req[q].caller # "rp" THEN req[q]
               ELSE IF req[q].pc \in {"relayed", "opened"}
                    THEN [req[q] EXCEPT !.pc = "failed"]
                    ELSE [req[q] EXCEPT !.caller = "broker"]]
  /\ UNCHANGED <<rpKS, logins, brokerVars, idpVars, histVars>>

IdPRestart ==
  /\ Fault("idpRestart")
  /\ idp'   = [root |-> Unseeded, n |-> 0, dhA |-> Nil, ipk |-> idp.ipk + 1]
  /\ valid' = {}
  /\ req'   = [q \in Requests |-> IF req[q].pc = "sent"
                                  THEN [req[q] EXCEPT !.pc = "failed"] ELSE req[q]]
  /\ UNCHANGED <<rpVars, brokerVars, idpKS, minted, histVars>>

(***************************************************************************)
(* The specification                                                       *)
(***************************************************************************)
\* The steps of the servers' handlers for q, as opposed to users and faults.
Handle(q) == \/ BrokerCheck(q) \/ BrokerRefuse(q) \/ BrokerReadHdr(q)
             \/ BrokerPanic(q) \/ BrokerSend(q) \/ BrokerRelay(q)
             \/ IdPAnswer(q) \/ IdPReject(q)
             \/ RPOpen(q) \/ RPCannotOpen(q) \/ RPSeqOutOfRange(q) \/ SaveSession(q)

Login(r) == \/ RPSaveSessionKS(r) \/ IdPSaveSessionKS(r)
            \/ BrokerStoresTokens(r) \/ LoginCompletes(r)

Environment == \/ \E q \in Requests : RPTimeout(q) \/ IdPCallFails(q)
               \/ \E t \in valid : TokenExpires(t)
               \/ \E r \in RPs : RPRestart(r) \/ BrokerRestart(r)
               \/ IdPRestart

Next == \/ \E q \in Requests : Handle(q) \/ \E r \in RPs : Click(q, r)
        \/ \E r \in RPs : Login(r)
        \/ Environment

Spec == Init /\ [][Next]_vars

\* The Go scheduler runs every ready goroutine and a delivered HTTP request or
\* answer is eventually read; users, logins and faults owe nothing.
FairSpec == Spec /\ \A q \in Requests : WF_vars(Handle(q))

(***************************************************************************)
(* Properties                                                              *)
(***************************************************************************)
TypeOK ==
  /\ rp      \in [RPs -> [root : RootKeys, n : Nat, dhB : Nat \cup {Nil}]]
  /\ rpKS    \in [RPs -> Nat]
  /\ session \in [RPs -> Nat \cup {NoSession}]
  /\ login   \in [RPs -> [at : {"none", "proved", "issued", "redeemed"}, ks : Nat]]
  /\ logins  \in Nat
  /\ seq     \in [RPs -> Nat]
  /\ tok     \in [RPs -> Nat]
  /\ idp     \in [root : RootKeys, n : Nat, dhA : Prekeys \cup {Nil}, ipk : Nat]
  /\ idpKS   \in Nat
  /\ valid   \in SUBSET Nat
  /\ minted  \in Nat
  /\ req     \in [Requests -> RequestStates]
  /\ faults  \in Nat
  /\ taken   \in [RPs -> Nat]
  /\ failures \in Nat

\* The IdP never encrypts two access tokens under one message key, whatever
\* is lost, retried, reordered or restarted: IdP/refresh.go may re-derive the
\* same chain for a resent header or a re-seeded root key, and AES-GCM breaks
\* down when a key and its fixed role are used for two messages.
MessageKeysDistinct ==
  \A p, q \in Requests :
    p # q /\ req[p].ans # Nil /\ req[q].ans # Nil => req[p].ans.mk # req[q].ans.mk

\* A request that passed the exhaustion test of Broker/refresh.go:87 still
\* finds its prekey in the list when it indexes it.
PrekeyIndexInRange ==
  \A q \in Requests : req[q].pc = "checked" => seq[req[q].rp] < N

SameSeed(r) == idp.root.seed # NoKS /\ rp[r].root.seed = idp.root.seed

\* Refreshes one at a time, no answer to the RP lost, no restart: once both
\* ends are seeded from one K_S their root keys never part.  Between requests
\* they are equal, or the IdP is ahead by exactly the DH step for the prekey
\* that the broker will send again, whatever was rejected or lost on the way.
RootsAgree ==
  Quiet => \A r \in RPs : SameSeed(r) =>
    \/ idp.root = rp[r].root
    \/ /\ idp.root = KdfRK(rp[r].root, DH(idp.ipk, <<r, seq[r]>>))
       /\ idp.dhA = <<r, seq[r]>>

\* In the same circumstances a fault costs at most one refresh: the answers an
\* RP cannot decrypt never outnumber the faults, however often the user
\* clicks while the refresh token is expired.
DamageBounded == (\A r \in RPs : SameSeed(r)) => failures <= faults

\* Refreshes may overlap, several RPs may share the IdP's one ratchet, and
\* servers may restart: an RP still takes only tokens minted for the request
\* it is answering, each newer than all it took before.
Service == INSTANCE RefreshService WITH
  asker  <- [q \in Requests |-> req[q].rp],
  minted <- [q \in Requests |-> IF req[q].ans = Nil THEN 0 ELSE req[q].ans.token],
  issued <- minted,
  held   <- taken

\* The refresh path implements RefreshService.
ServiceSpec == Service!Spec

\* Every click is answered, with a token or an error, also when refreshes
\* overlap and when the broker panics under them.
EveryClickAnswered ==
  \A q \in Requests :
    (req[q].pc = "posted" /\ req[q].caller = "rp")
      ~> (req[q].pc \in {"done", "failed"} \/ req[q].caller # "rp")
=============================================================================
