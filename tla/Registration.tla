---------------------------- MODULE Registration ----------------------------
(***************************************************************************)
(* How an RP registers, what each server keeps of it on disk, and what is  *)
(* left of it after restarts and re-registrations.                         *)
(*                                                                         *)
(* Registering is two exchanges.  With the IdP: the RP commits to its      *)
(* identity key, the IdP signs the domain (Sigma) and blindly the pair     *)
(* (domain, key), and the RP unblinds the latter (SigmaBar).  With the     *)
(* broker: the RP hands over Sigma and its refresh prekeys and gets a tid. *)
(* Only the second exchange writes the RP's registration file, and every   *)
(* login reloads the server's memory from that file.  A mutex keeps loads  *)
(* and saves apart, but nothing else: the handlers of both exchanges and   *)
(* the proof of a login read and assign the credentials in memory freely.  *)
(* A load and the IdP's answer both put an empty signature in the place of *)
(* each credential before they fill it in.                                 *)
(*                                                                         *)
(* Lost key material is generated anew: a key is its generation, a number  *)
(* from 2.  Sigma is the generation of the IdP key that made it, SigmaBar  *)
(* also has the identity key it covers and its blinding.  Below the keys,  *)
(* 0 is a signature that a file does not have and 1 the empty one, which   *)
(* is null on the wire and in a file; tid 0 is no tid.  A file that is     *)
(* torn does not parse, and both servers then proceed as without a file.   *)
(***************************************************************************)
EXTENDS Naturals, FiniteSets

CONSTANTS Manual,     \* registrations from the registration page
          Attempts,   \* attempts of the start-up registration
          Logins,     \* logins of users of the RP
          Tears,      \* TRUE: a crash or an error may interrupt the writing of a file
          MaxFaults   \* bound on failed calls, restarts and losses

Runs == Manual \cup Attempts

Clear   == "clear"      \* a signature that is not blinded
Garbled == "garbled"    \* unblinded with a factor that is not its own
Page    == "page"       \* the status page, among those who load the registration

ASSUME RunAssumption == Manual \cap Attempts = {} /\ {Clear, Garbled} \cap Runs = {}
ASSUME LoginAssumption == Page \notin Logins
ASSUME BoundAssumption == MaxFaults \in Nat /\ Tears \in BOOLEAN

\* What a missing file has for a credential; and an empty credential, a PSSignMsg
\* without points: a new server's, and "null" on the wire and in a file.
Unset    == 0
Empty    == 1
UnsetBar == [key |-> Unset, sk |-> 0, blind |-> Clear]
EmptyBar == [key |-> Empty, sk |-> 0, blind |-> Clear]
NoTid    == 0
FirstKey == 2

VARIABLES
  pc,       \* where each registration is
  asked,    \* asked[w]: what w's request to the IdP committed to
  hat,      \* hat[w]: the SigmaBar w read to unblind it
  posted,   \* posted[w]: what w handed to the broker
  got,      \* got[w]: the tid the broker answered w
  bench,    \* the bench profile: the RP registers on its own at start-up
  loop,     \* that start-up registration is still trying
  rp,       \* the RP's memory: identity key, IdP keys it knows, credentials, tid
  regFile,  \* the RP's registration_data.json
  load,     \* the load that holds the registration mutex: its stage, and for whom
  ikey,     \* the IdP's credential keys
  table,    \* the broker's table of RPs: tid -> what was registered
  file,     \* the broker's registration file
  nextTid,  \* tids are drawn at random and never repeat
  login,    \* where each login is, and under which tid and credential
  faults,   \* how many faults there have been
  clean,    \* history: registrations that nothing has disturbed so far
  calm,     \* history: logins that nothing has disturbed so far
  sound     \* history: the last save was by an undisturbed run; nothing lost since

runVars    == <<pc, asked, hat, posted, got, loop>>
rpVars     == <<rp, regFile, load>>
brokerVars == <<table, file, nextTid>>
ghostVars  == <<clean, calm, sound>>
vars == <<runVars, bench, rpVars, ikey, brokerVars, login, faults, ghostVars>>

-----------------------------------------------------------------------------
(* What is stored where, and when it serves a login.                       *)

SecretSigs   == [key : Nat, sk : Nat, blind : Runs \cup {Clear, Garbled}]
FileRecord   == [tid : Nat, sigma : Nat, sigmaBar : SecretSigs]
BrokerRecord == [sigma : Nat, prekeys : Nat]
IsTable(f)   == DOMAIN f \subseteq Nat \ {NoTid} /\ \A t \in DOMAIN f : f[t] \in BrokerRecord

\* A registration file that is missing or torn, a table or file without records.
NoFile    == [tid |-> NoTid, sigma |-> Unset, sigmaBar |-> UnsetBar]
NoRecords == [t \in {} |-> [sigma |-> Empty, prekeys |-> 0]]

\* A load under way has replaced neither credential or only Sigma when it is
\* at that stage: the one it is at is empty.
NoLoad == [at |-> "none", by |-> Page]
Loads  == [at : {"none", "sigma", "sigmaBar"}, by : Logins \cup {Page}]

\* Between a click and its answer: waiting for the IdP, in getCredential, with the broker.
AtIdP      == {"asked", "issued"}
Assembling == {"emptied", "stored", "cleared", "blinded", "unblinding", "unblinded", "checked"}
AtBroker   == {"posted", "enrolled", "named"}
InExchange == AtIdP \cup Assembling
Executing  == {w \in Runs : pc[w] \in InExchange \cup AtBroker}

\* A page whose first exchange succeeded offers the second for as long as it is open.
Active == {w \in Runs : pc[w] \in InExchange \cup AtBroker \cup {"verified"}}

\* PSVerify under the IdP keys of generation k.  SecretCred.IdentitySk always moves
\* with SigmaBar: a clear SigmaBar is verified for the key it was issued for.
SigmaVerifies(s, k)    == s = k
SigmaBarVerifies(s, k) == s.key = k /\ s.blind = Clear

\* verifyPoK: the challenge covers the IdP's keys, both signatures are checked, and
\* the proof is made with the server's identity key, not the credential's.
ProofAccepted(sigma, sigmaBar) ==
  /\ rp.vk = ikey
  /\ SigmaVerifies(sigma, ikey)
  /\ SigmaBarVerifies(sigmaBar, ikey)
  /\ sigmaBar.sk = rp.isk

LoadedBlinded(r, f) ==           \* mutant of Loaded: SigmaBar is not restored
  [r EXCEPT !.sigma = IF f.sigma = Unset THEN @ ELSE f.sigma,
            !.tid   = IF f.tid = NoTid THEN @ ELSE f.tid]

\* loadRegistrationData when it is done: what the file has, "null" included.
Loaded(r, f) ==
  [r EXCEPT !.sigma    = IF f.sigma = Unset THEN @ ELSE f.sigma,
            !.sigmaBar = IF f.sigmaBar = UnsetBar THEN @ ELSE f.sigmaBar,
            !.tid      = IF f.tid = NoTid THEN @ ELSE f.tid]

\* The registration a restart or a login will find in the file.
SaysRegistered(f) == f.sigma \notin {Unset, Empty} /\ f.tid # NoTid

\* A login its user has yet to ask for.
NewLogin == [at |-> "idle", tid |-> NoTid, sigma |-> Unset]

Enrol(f, t, r) == [u \in DOMAIN f \cup {t} |-> IF u = t THEN r ELSE f[u]]

Init ==
  /\ pc      = [w \in Runs |-> "idle"]
  /\ asked   = [w \in Runs |-> [sk |-> 0, key |-> 0]]
  /\ hat     = [w \in Runs |-> UnsetBar]
  /\ posted  = [w \in Runs |-> [sigma |-> Empty, prekeys |-> 0]]
  /\ got     = [w \in Runs |-> NoTid]
  /\ bench   \in BOOLEAN
  /\ loop    = bench
  /\ rp      = [isk |-> FirstKey, vk |-> FirstKey, sigma |-> Empty, sigmaBar |-> EmptyBar,
                tid |-> NoTid]
  /\ regFile = NoFile
  /\ load    = NoLoad
  /\ ikey    = FirstKey
  /\ table   = NoRecords
  /\ file    = NoRecords
  /\ nextTid = 1
  /\ login   = [l \in Logins |-> NewLogin]
  /\ faults  = 0
  /\ clean   = {}
  /\ calm    = {}
  /\ sound   = FALSE

Moves(w, to) == pc' = [pc EXCEPT ![w] = to]

-----------------------------------------------------------------------------
(* The exchange with the IdP: registerToIdP.                               *)

\* AutoRegister: the attempts follow one another, until one succeeds.
AutoTurn(w) == loop /\ \A v \in Attempts \ {w} : pc[v] \in {"idle", "failed", "done"}

\* getRegisterRequestToIdP: a commitment to the identity key under the known IdP keys.
AskIdP(w) ==
  /\ pc[w] = "idle"
  /\ w \in Attempts => AutoTurn(w)
  /\ Moves(w, "asked")
  /\ asked' = [asked EXCEPT ![w] = [sk |-> rp.isk, key |-> rp.vk]]
  /\ clean' = (clean \ Active) \cup (IF Executing = {} THEN {w} ELSE {})
  /\ calm'  = {}
  /\ UNCHANGED <<hat, posted, got, loop, bench, rpVars, ikey, brokerVars, login, faults, sound>>

\* getRegisterRespToRP: BlindSign first verifies the commitment under the IdP's keys.
IdPIssues(w) ==
  /\ pc[w] = "asked"
  /\ Moves(w, IF asked[w].key = ikey THEN "issued" ELSE "failed")
  /\ UNCHANGED <<asked, hat, posted, got, loop, bench, rpVars, ikey, brokerVars, login, faults,
                 ghostVars>>

\* A step of a handler on the server's credentials; only what begins while a load
\* is under way counts as disturbed by it.
HandlerStep(w, from, to, newRp) ==
  /\ pc[w] = from
  /\ Moves(w, to)
  /\ rp' = newRp
  /\ UNCHANGED <<asked, posted, got, loop, bench, regFile, load, ikey, brokerVars, login, faults,
                 calm, sound>>

\* getCredential puts an empty message in place of each credential, then fills it in.
EmptySigma(w) ==
  /\ HandlerStep(w, "issued", "emptied", [rp EXCEPT !.sigma = Empty])
  /\ clean' = IF load.at = "none" THEN clean ELSE clean \ {w}
  /\ UNCHANGED hat

CredentialStep(w, from, to, newRp) ==
  HandlerStep(w, from, to, newRp) /\ UNCHANGED <<hat, clean>>

StoreSigma(w) ==
  CredentialStep(w, "emptied", "stored", [rp EXCEPT !.sigma = asked[w].key])

EmptySigmaBar(w) ==
  CredentialStep(w, "stored", "cleared", [rp EXCEPT !.sigmaBar = EmptyBar])

Blinded(w) == [key |-> asked[w].key, sk |-> asked[w].sk, blind |-> w]

StoreBlinded(w) ==
  CredentialStep(w, "cleared", "blinded", [rp EXCEPT !.sigmaBar = Blinded(w)])

\* lib.Unblind is given whatever SigmaBar is by now; of an empty one it takes a
\* multiple of a nil point (see UnblindPanics).
ReadBlinded(w) ==
  /\ rp.sigmaBar # EmptyBar
  /\ HandlerStep(w, "blinded", "unblinding", rp)
  /\ hat' = [hat EXCEPT ![w] = rp.sigmaBar]
  /\ UNCHANGED clean

\* The factor it takes off is w's.
Unblinded(w) ==
  [key |-> hat[w].key, sk |-> hat[w].sk, blind |-> IF hat[w].blind = w THEN Clear ELSE Garbled]

StoreUnblinded(w) ==
  /\ HandlerStep(w, "unblinding", "unblinded", [rp EXCEPT !.sigmaBar = Unblinded(w)])
  /\ hat' = [hat EXCEPT ![w] = UnsetBar]
  /\ UNCHANGED clean

\* The two PSVerify calls; the page enables the second exchange when they pass.
VerifySigma(w) ==
  CredentialStep(w, "unblinded", IF SigmaVerifies(rp.sigma, rp.vk) THEN "checked" ELSE "failed", rp)

VerifySigmaBar(w) ==
  CredentialStep(w, "checked",
    IF SigmaBarVerifies(rp.sigmaBar, rp.vk) THEN "verified" ELSE "failed", rp)

-----------------------------------------------------------------------------
(* The exchange with the broker: registerToBroker.                         *)

\* getRegisterRequestToBroker: Sigma as it is now, be it empty, and the prekeys.
PostToBroker(w) ==
  /\ pc[w] = "verified"
  /\ Moves(w, "posted")
  /\ posted' = [posted EXCEPT ![w] = [sigma |-> rp.sigma, prekeys |-> rp.isk]]
  /\ clean'  = (IF Executing = {} THEN clean ELSE clean \ Active)
                 \ (IF load.at = "none" THEN {} ELSE {w})
  /\ calm'   = {}
  /\ UNCHANGED <<asked, hat, got, loop, bench, rpVars, ikey, brokerVars, login, faults, sound>>

BrokerEnrolsNobody(w) ==         \* mutant of BrokerEnrols: the tid is never drawn
  /\ pc[w] = "posted"
  /\ Moves(w, "enrolled")
  /\ table' = Enrol(table, NoTid, posted[w])
  /\ file'  = Enrol(file, NoTid, posted[w])
  /\ got'   = [got EXCEPT ![w] = NoTid]
  /\ UNCHANGED <<asked, hat, posted, loop, bench, rpVars, ikey, nextTid, login, faults, ghostVars>>

BrokerEnrolsInMemory(w) ==       \* mutant of BrokerEnrols: no saveRegistrationData
  /\ pc[w] = "posted"
  /\ Moves(w, "enrolled")
  /\ table'   = Enrol(table, nextTid, posted[w])
  /\ got'     = [got EXCEPT ![w] = nextTid]
  /\ nextTid' = nextTid + 1
  /\ UNCHANGED <<asked, hat, posted, loop, bench, rpVars, ikey, file, login, faults, ghostVars>>

\* getRegisterRespToBroker: a fresh tid, in the table, then in the file, then answered.
BrokerEnrols(w) ==
  /\ pc[w] = "posted"
  /\ Moves(w, "enrolled")
  /\ table'   = Enrol(table, nextTid, posted[w])
  /\ file'    = Enrol(file, nextTid, posted[w])
  /\ got'     = [got EXCEPT ![w] = nextTid]
  /\ nextTid' = nextTid + 1
  /\ UNCHANGED <<asked, hat, posted, loop, bench, rpVars, ikey, login, faults, ghostVars>>

TakeTid(w) ==
  /\ HandlerStep(w, "enrolled", "named", [rp EXCEPT !.tid = got[w]])
  /\ clean' = IF load.at = "none" THEN clean ELSE clean \ {w}
  /\ UNCHANGED hat

\* saveRegistrationData: whatever the memory holds by now, under the mutex.
SaveRegistration(w) ==
  /\ pc[w] = "named"
  /\ load.at = "none"
  /\ Moves(w, "done")
  /\ regFile' = [tid |-> rp.tid, sigma |-> rp.sigma, sigmaBar |-> rp.sigmaBar]
  /\ loop'    = (loop /\ w \notin Attempts)
  /\ sound'   = (w \in clean)
  /\ clean'   = clean \ {w}
  /\ calm'    = {}
  /\ UNCHANGED <<asked, hat, posted, got, bench, rp, load, ikey, brokerVars, login, faults>>

-----------------------------------------------------------------------------
(* Logins: each reloads the registration, so does the status page.         *)

\* loadRegistrationData takes the mutex and puts an empty message in place of Sigma.
\* What it loads disturbs a registration that assembles its credentials, and, unless
\* it is what the memory holds already, one that has done so.
LoadBegins(by) ==
  /\ load.at = "none"
  /\ regFile # NoFile
  /\ load'  = [at |-> "sigma", by |-> by]
  /\ rp'    = [rp EXCEPT !.sigma = IF regFile.sigma = Unset THEN @ ELSE Empty]
  /\ clean' = IF Loaded(rp, regFile) = rp THEN clean \ {w \in Runs : pc[w] \in Assembling}
              ELSE clean \ Active

\* A file that is missing or torn is read under the mutex, and that is all.
NothingToLoad ==
  /\ load.at = "none"
  /\ regFile = NoFile
  /\ UNCHANGED <<load, rp, clean>>

StatusPage ==
  /\ LoadBegins(Page) \/ NothingToLoad
  /\ UNCHANGED <<runVars, bench, regFile, ikey, brokerVars, login, faults, calm, sound>>

\* handleLogin: first the load; one that fails is only logged.
StartLogin(l) ==
  /\ login[l].at = "idle"
  /\ \/ /\ LoadBegins(l)
        /\ login' = [login EXCEPT ![l].at = "loading"]
     \/ /\ NothingToLoad
        /\ login' = [login EXCEPT ![l].at = "loaded"]
  /\ calm' = IF sound /\ Executing = {} THEN calm \cup {l} ELSE calm
  /\ UNCHANGED <<runVars, bench, regFile, ikey, brokerVars, faults, sound>>

\* FromJSON fills Sigma in; then SigmaBar gives way to an empty message.
LoadSigma ==
  /\ load.at = "sigma"
  /\ load' = [load EXCEPT !.at = "sigmaBar"]
  /\ rp'   = [rp EXCEPT !.sigma    = Loaded(rp, regFile).sigma,
                        !.sigmaBar = IF regFile.sigmaBar = UnsetBar THEN @ ELSE EmptyBar]
  /\ UNCHANGED <<runVars, bench, regFile, ikey, brokerVars, login, faults, ghostVars>>

\* FromJSON fills SigmaBar in, the tid follows, and the mutex is free.
LoadSigmaBar ==
  /\ load.at = "sigmaBar"
  /\ load'  = NoLoad
  /\ rp'    = [rp EXCEPT !.sigmaBar = Loaded(rp, regFile).sigmaBar,
                         !.tid      = Loaded(rp, regFile).tid]
  /\ login' = [l \in Logins |-> IF l = load.by THEN [login[l] EXCEPT !.at = "loaded"] ELSE login[l]]
  /\ UNCHANGED <<runVars, bench, regFile, ikey, brokerVars, faults, ghostVars>>

\* ... and redirects to the broker under the tid of that moment.
RedirectToBroker(l) ==
  /\ login[l].at = "loaded"
  /\ login' = [login EXCEPT ![l].at = "started", ![l].tid = rp.tid]
  /\ UNCHANGED <<runVars, bench, rpVars, ikey, brokerVars, faults, ghostVars>>

\* handleRandomizeRPID: the tid is known and its Sigma can be randomized.
Randomizable(t) == t \in DOMAIN table /\ table[t].sigma # Empty

Authorize(l) ==
  /\ login[l].at = "started"
  /\ LET t == login[l].tid
     IN  login' = [login EXCEPT ![l] =
           IF Randomizable(t) THEN [at |-> "authorized", tid |-> t, sigma |-> table[t].sigma]
           ELSE [at |-> "refused", tid |-> t, sigma |-> Unset]]
  /\ UNCHANGED <<runVars, bench, rpVars, ikey, brokerVars, faults, ghostVars>>

\* geneatePoK randomizes the SigmaBar in memory, without the mutex; verifyPoK checks
\* it under the IdP's keys.  A load that has SigmaBar empty disturbs the login.
Prove(l) ==
  /\ login[l].at = "authorized"
  /\ login' = [login EXCEPT ![l].at =
       IF ProofAccepted(login[l].sigma, rp.sigmaBar) THEN "accepted" ELSE "refused"]
  /\ calm' = IF load.at = "sigmaBar" THEN calm \ {l} ELSE calm
  /\ UNCHANGED <<runVars, bench, rpVars, ikey, brokerVars, faults, clean, sound>>

-----------------------------------------------------------------------------
(* Failed calls, failed writes, restarts, files torn by a crash.           *)

Fault ==
  /\ faults < MaxFaults
  /\ faults' = faults + 1
  /\ calm'   = {}

\* A failed registerToBroker leaves the page's button enabled; an attempt starts over.
AfterBrokerFailure(w) == IF w \in Manual THEN "verified" ELSE "failed"

IdPCallFails(w) ==
  /\ Fault
  /\ pc[w] \in {"asked", "issued"}
  /\ Moves(w, "failed")
  /\ UNCHANGED <<asked, hat, posted, got, loop, bench, rpVars, ikey, brokerVars, login, clean,
                 sound>>

\* What a write that fails leaves of file f.
LeftOf(f, lost) == {f} \cup (IF Tears THEN {lost} ELSE {})

\* registerToBroker only logs that the write failed, and reports success.
SaveFails(w) ==
  /\ Fault
  /\ pc[w] = "named"
  /\ load.at = "none"
  /\ Moves(w, "done")
  /\ regFile' \in LeftOf(regFile, NoFile)
  /\ loop'    = (loop /\ w \notin Attempts)
  /\ sound'   = (sound /\ regFile' = regFile)
  /\ clean'   = clean \ {w}
  /\ UNCHANGED <<asked, hat, posted, got, bench, rp, load, ikey, brokerVars, login>>

\* So does getRegisterRespToBroker: the table has the new record, the file does not.
BrokerSaveFails(w) ==
  /\ Fault
  /\ pc[w] = "posted"
  /\ Moves(w, "enrolled")
  /\ table'   = Enrol(table, nextTid, posted[w])
  /\ file'    \in LeftOf(file, NoRecords)
  /\ got'     = [got EXCEPT ![w] = nextTid]
  /\ nextTid' = nextTid + 1
  /\ sound'   = (sound /\ file' = file)
  /\ clean'   = clean \ {w}
  /\ UNCHANGED <<asked, hat, posted, loop, bench, rpVars, ikey, login>>

BrokerCallFails(w) ==
  /\ Fault
  /\ pc[w] \in {"posted", "enrolled"}
  /\ Moves(w, AfterBrokerFailure(w))
  /\ UNCHANGED <<asked, hat, posted, got, loop, bench, rpVars, ikey, brokerVars, login, clean,
                 sound>>

\* NewRPClientServer, Init, AutoRegister: a new server with identity key isk, which
\* fetches the IdP's keys and, under the bench profile, reads the registration file
\* before it listens.
Started(isk) ==
  LET fresh == [isk |-> isk, vk |-> ikey, sigma |-> Empty, sigmaBar |-> EmptyBar, tid |-> NoTid]
  IN  IF bench THEN Loaded(fresh, regFile') ELSE fresh

\* A login whose redirect the RP still owed starts over.
Dropped(r) == IF r.at \in {"loading", "loaded"} THEN NewLogin ELSE r

RPStartsAgain(isk) ==
  /\ pc' = [w \in Runs |-> IF pc[w] \in InExchange THEN "failed"
                           ELSE IF pc[w] \in AtBroker \cup {"verified"} THEN AfterBrokerFailure(w)
                           ELSE pc[w]]
  /\ rp'    = Started(isk)
  /\ load'  = NoLoad
  /\ hat'   = [w \in Runs |-> UnsetBar]
  /\ loop'  = (bench /\ ~SaysRegistered(regFile'))
  /\ clean' = clean \ Active
  /\ UNCHANGED <<asked, posted, got, bench, ikey, brokerVars>>

RPRestart ==
  /\ Fault
  /\ login' = [l \in Logins |-> Dropped(login[l])]
  /\ UNCHANGED <<regFile, sound>>
  /\ RPStartsAgain(rp.isk)

\* A load or another registration has put an empty SigmaBar in the place of the
\* blinded one; the nil point brings the RP down.
UnblindPanics(w) ==
  /\ pc[w] = "blinded"
  /\ rp.sigmaBar = EmptyBar
  /\ calm'  = {}
  /\ login' = [l \in Logins |-> Dropped(login[l])]
  /\ UNCHANGED <<regFile, faults, sound>>
  /\ RPStartsAgain(rp.isk)

\* key_storage.json torn while login l saves its K_S: identity key and prekeys anew.
RPLosesKeys(l) ==
  /\ Tears
  /\ Fault
  /\ login[l].at = "authorized"
  /\ login' = [k \in Logins |-> IF k = l THEN [login[l] EXCEPT !.at = "refused"]
                                ELSE Dropped(login[k])]
  /\ UNCHANGED regFile
  /\ RPStartsAgain(rp.isk + 1)
  /\ sound' = FALSE

\* registration_data.json torn while it is saved.
RPLosesFile ==
  /\ Tears
  /\ Fault
  /\ load.at = "none"
  /\ \E w \in Runs : pc[w] = "named"
  /\ regFile' = NoFile
  /\ login'   = [l \in Logins |-> Dropped(login[l])]
  /\ RPStartsAgain(rp.isk)
  /\ sound' = FALSE

\* The IdP's key_storage.json torn while a login saves its K_S: all its keys anew.
IdPLosesKeys ==
  /\ Tears
  /\ Fault
  /\ \E l \in Logins :
       /\ login[l].at = "authorized"
       /\ ProofAccepted(login[l].sigma, rp.sigmaBar)
       /\ login' = [login EXCEPT ![l].at = "refused"]
  /\ ikey'  = ikey + 1
  /\ clean' = clean \ Active
  /\ sound' = FALSE
  /\ UNCHANGED <<runVars, bench, rpVars, brokerVars>>

\* restoreRPIdentities: the table is what the file holds.
BrokerRestart ==
  /\ Fault
  /\ table' = file
  /\ UNCHANGED <<runVars, bench, rpVars, ikey, file, nextTid, login, clean, sound>>

\* The broker's file torn while a registration is being saved.
BrokerLosesFile(w) ==
  /\ Tears
  /\ Fault
  /\ pc[w] = "posted"
  /\ Moves(w, AfterBrokerFailure(w))
  /\ table' = NoRecords
  /\ file'  = NoRecords
  /\ sound' = FALSE
  /\ UNCHANGED <<asked, hat, posted, got, loop, bench, rpVars, ikey, nextTid, login, clean>>

-----------------------------------------------------------------------------
RegistrationStep ==
  \E w \in Runs :
    \/ AskIdP(w) \/ IdPIssues(w)
    \/ EmptySigma(w) \/ StoreSigma(w) \/ EmptySigmaBar(w) \/ StoreBlinded(w)
    \/ ReadBlinded(w) \/ StoreUnblinded(w) \/ VerifySigma(w) \/ VerifySigmaBar(w)
    \/ PostToBroker(w) \/ BrokerEnrols(w) \/ TakeTid(w) \/ SaveRegistration(w)

LoadStep == StatusPage \/ LoadSigma \/ LoadSigmaBar

LoginStep ==
  \E l \in Logins : StartLogin(l) \/ RedirectToBroker(l) \/ Authorize(l) \/ Prove(l)

FaultStep ==
  \/ RPRestart \/ RPLosesFile \/ IdPLosesKeys \/ BrokerRestart
  \/ \E l \in Logins : RPLosesKeys(l)
  \/ \E w \in Runs : \/ IdPCallFails(w) \/ BrokerCallFails(w) \/ SaveFails(w)
                      \/ BrokerSaveFails(w) \/ UnblindPanics(w) \/ BrokerLosesFile(w)

Next == RegistrationStep \/ LoadStep \/ LoginStep \/ FaultStep

Spec == Init /\ [][Next]_vars

-----------------------------------------------------------------------------
(* Properties.                                                             *)

\* Every variable has its type (types of RPServer, BrokerRPInfo, RegistrationData).
TypeOK ==
  /\ pc \in [Runs -> {"idle", "verified", "done", "failed"} \cup InExchange \cup AtBroker]
  /\ asked \in [Runs -> [sk : Nat, key : Nat]]
  /\ hat \in [Runs -> SecretSigs]
  /\ posted \in [Runs -> BrokerRecord]
  /\ got \in [Runs -> Nat]
  /\ bench \in BOOLEAN /\ loop \in BOOLEAN
  /\ rp \in [isk : Nat, vk : Nat, sigma : Nat, sigmaBar : SecretSigs, tid : Nat]
  /\ regFile \in FileRecord
  /\ load \in Loads
  /\ ikey \in Nat
  /\ IsTable(table) /\ IsTable(file)
  /\ nextTid \in Nat \ {NoTid}
  /\ login \in [Logins -> [at : {"idle", "loading", "loaded", "started", "authorized",
                                 "accepted", "refused"},
                           tid : Nat, sigma : Nat]]
  /\ faults \in 0..MaxFaults
  /\ clean \subseteq Runs /\ calm \subseteq Logins /\ sound \in BOOLEAN

\* The registration in the RP's file serves a login now and after a restart of any
\* server: its tid is in the broker's table and file with a Sigma of the IdP's keys
\* and the RP's prekeys, and its SigmaBar is the one of the RP's identity key.
Works ==
  /\ \A f \in {table, file} :
       /\ regFile.tid \in DOMAIN f
       /\ f[regFile.tid].prekeys = rp.isk
       /\ ProofAccepted(f[regFile.tid].sigma, regFile.sigmaBar)

\* A registration whose two exchanges ran undisturbed keeps working, whatever other
\* registrations, loads, restarts, failed calls and failed writes follow, until another
\* one is saved or a server loses its keys or records (registerToIdP, registerToBroker
\* and loadRegistrationData share the server's credentials, saveRegistrationData of both
\* servers writes them down).  Undisturbed: no other exchange overlapped its own, no
\* load overlapped a step of getCredential, the reading of Sigma or the taking of the
\* tid, none brought back other credentials than the memory held, and no write failed.
UndisturbedRegistrationWorks == sound => Works

\* A login under such a registration that no registration step or fault overlaps is
\* refused for one reason only: geneatePoK read SigmaBar, without the mutex, just as
\* another login or the status page was loading it (handleLogin's load, the broker's tid
\* lookup and verifyPoK see three servers' copies of one registration).
QuietLoginsAccepted == \A l \in calm : login[l].at # "refused"

\* register.html says that re-registering is safe: a registration that was made
\* undisturbed is only ever replaced, in the RP's file, by one that works.
ReregistrationSafe == [][sound /\ regFile' # regFile => Works']_vars

=============================================================================
