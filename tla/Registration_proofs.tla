------------------------ MODULE Registration_proofs ------------------------
(***************************************************************************)
(* Theorems about Registration, for any numbers of registrations, logins   *)
(* and faults: type correctness, that an undisturbed registration keeps    *)
(* working, and that no quiet login is refused.                            *)
(***************************************************************************)
EXTENDS Registration, TLAPS

Stages == {"idle", "verified", "done", "failed"} \cup InExchange \cup AtBroker
RPs    == [isk : Nat, vk : Nat, sigma : Nat, sigmaBar : SecretSigs, tid : Nat]
LoginRecords == [at : {"idle", "loading", "loaded", "started", "authorized", "accepted", "refused"},
                 tid : Nat, sigma : Nat]

LEMMA NoFileType ==
  /\ UnsetBar \in SecretSigs /\ EmptyBar \in SecretSigs /\ NoFile \in FileRecord
  /\ IsTable(NoRecords) /\ NoLoad \in Loads /\ NewLogin \in LoginRecords
  BY DEF UnsetBar, EmptyBar, SecretSigs, NoFile, FileRecord, NoTid, Unset, Empty, IsTable, NoRecords,
         BrokerRecord, NoLoad, Loads, NewLogin, LoginRecords

\* A load takes from the file what the file has.
LEMMA LoadedType ==
  ASSUME NEW r \in RPs, NEW f \in FileRecord
  PROVE  /\ Loaded(r, f) \in RPs
         /\ Loaded(r, f).isk = r.isk /\ Loaded(r, f).vk = r.vk
         /\ Loaded(r, f).sigma = IF f.sigma = Unset THEN r.sigma ELSE f.sigma
         /\ Loaded(r, f).sigmaBar = IF f.sigmaBar = UnsetBar THEN r.sigmaBar ELSE f.sigmaBar
         /\ Loaded(r, f).tid = IF f.tid = NoTid THEN r.tid ELSE f.tid
  BY DEF Loaded, RPs, FileRecord

\* The stages of a load leave the keys alone, and of the rest each its own part.
LEMMA LoadingType ==
  ASSUME TypeOK
  PROVE  /\ \A by : LoadBegins(by) =>
              /\ rp' \in RPs /\ rp'.isk = rp.isk /\ rp'.vk = rp.vk
              /\ rp'.sigma = IF regFile.sigma = Unset THEN rp.sigma ELSE Empty
              /\ rp'.sigmaBar = rp.sigmaBar /\ rp'.tid = rp.tid
         /\ LoadSigma =>
              /\ rp' \in RPs /\ rp'.isk = rp.isk /\ rp'.vk = rp.vk
              /\ rp'.sigma = IF regFile.sigma = Unset THEN rp.sigma ELSE regFile.sigma
              /\ rp'.sigmaBar = IF regFile.sigmaBar = UnsetBar THEN rp.sigmaBar ELSE EmptyBar
              /\ rp'.tid = rp.tid
         /\ LoadSigmaBar =>
              /\ rp' \in RPs /\ rp'.isk = rp.isk /\ rp'.vk = rp.vk
              /\ rp'.sigma = rp.sigma
              /\ rp'.sigmaBar = IF regFile.sigmaBar = UnsetBar THEN rp.sigmaBar ELSE regFile.sigmaBar
              /\ rp'.tid = IF regFile.tid = NoTid THEN rp.tid ELSE regFile.tid
<1>1. rp \in RPs /\ regFile \in FileRecord
  BY DEF TypeOK, RPs
<1>2. /\ Loaded(rp, regFile) \in RPs
      /\ Loaded(rp, regFile).sigma = IF regFile.sigma = Unset THEN rp.sigma ELSE regFile.sigma
      /\ Loaded(rp, regFile).sigmaBar =
           IF regFile.sigmaBar = UnsetBar THEN rp.sigmaBar ELSE regFile.sigmaBar
      /\ Loaded(rp, regFile).tid = IF regFile.tid = NoTid THEN rp.tid ELSE regFile.tid
  BY <1>1, LoadedType
<1>3. ASSUME NEW by, LoadBegins(by)
      PROVE  /\ rp' \in RPs /\ rp'.isk = rp.isk /\ rp'.vk = rp.vk
             /\ rp'.sigma = IF regFile.sigma = Unset THEN rp.sigma ELSE Empty
             /\ rp'.sigmaBar = rp.sigmaBar /\ rp'.tid = rp.tid
  BY <1>1, <1>3 DEF LoadBegins, RPs, Empty
<1>4. ASSUME LoadSigma
      PROVE  /\ rp' \in RPs /\ rp'.isk = rp.isk /\ rp'.vk = rp.vk
             /\ rp'.sigma = IF regFile.sigma = Unset THEN rp.sigma ELSE regFile.sigma
             /\ rp'.sigmaBar = IF regFile.sigmaBar = UnsetBar THEN rp.sigmaBar ELSE EmptyBar
             /\ rp'.tid = rp.tid
  <2>1. PICK x \in Nat : x = Loaded(rp, regFile).sigma
    BY <1>2 DEF RPs
  <2>2. PICK y \in SecretSigs :
          y = IF regFile.sigmaBar = UnsetBar THEN rp.sigmaBar ELSE EmptyBar
    BY <1>1, NoFileType DEF RPs
  <2>3. rp' = [rp EXCEPT !.sigma = x, !.sigmaBar = y]
    BY <1>1, <1>4, <2>1, <2>2 DEF LoadSigma, RPs
  <2> QED
    BY <1>1, <1>2, <2>1, <2>2, <2>3 DEF RPs
<1>5. ASSUME LoadSigmaBar
      PROVE  /\ rp' \in RPs /\ rp'.isk = rp.isk /\ rp'.vk = rp.vk
             /\ rp'.sigma = rp.sigma
             /\ rp'.sigmaBar = IF regFile.sigmaBar = UnsetBar THEN rp.sigmaBar ELSE regFile.sigmaBar
             /\ rp'.tid = IF regFile.tid = NoTid THEN rp.tid ELSE regFile.tid
  <2>1. PICK y \in SecretSigs : y = Loaded(rp, regFile).sigmaBar
    BY <1>2 DEF RPs
  <2>2. PICK t \in Nat : t = Loaded(rp, regFile).tid
    BY <1>2 DEF RPs
  <2>3. rp' = [rp EXCEPT !.sigmaBar = y, !.tid = t]
    BY <1>5, <2>1, <2>2 DEF LoadSigmaBar
  <2> QED
    BY <1>1, <1>2, <2>1, <2>2, <2>3 DEF RPs
<1> QED
  BY <1>3, <1>4, <1>5

LEMMA StartedType ==
  ASSUME TypeOK, NEW isk \in Nat, regFile' \in FileRecord
  PROVE  Started(isk) \in RPs /\ Started(isk).isk = isk /\ Started(isk).vk = ikey
<1> DEFINE fresh == [isk |-> isk, vk |-> ikey, sigma |-> Empty, sigmaBar |-> EmptyBar,
                     tid |-> NoTid]
<1>1. fresh \in RPs /\ fresh.isk = isk /\ fresh.vk = ikey
  BY NoFileType DEF RPs, TypeOK, Empty, NoTid
<1>2. Started(isk) = IF bench THEN Loaded(fresh, regFile') ELSE fresh
  BY DEF Started
<1> HIDE DEF fresh
<1> QED
  BY <1>1, <1>2, LoadedType

LEMMA EnrolType ==
  ASSUME NEW f, IsTable(f), NEW t \in Nat \ {NoTid}, NEW r \in BrokerRecord
  PROVE  /\ IsTable(Enrol(f, t, r))
         /\ DOMAIN Enrol(f, t, r) = DOMAIN f \cup {t}
         /\ Enrol(f, t, r)[t] = r
         /\ \A u \in DOMAIN f \ {t} : Enrol(f, t, r)[u] = f[u]
  BY DEF IsTable, Enrol

\* What all steps of a registration leave alone of TypeOK.
LEMMA MovesType ==
  ASSUME TypeOK, NEW w \in Runs, NEW to \in Stages, Moves(w, to)
  PROVE  /\ pc' \in [Runs -> Stages] /\ pc'[w] = to
         /\ \A v \in Runs \ {w} : pc'[v] = pc[v]
  BY DEF TypeOK, Moves, Stages

LEMMA HandlerStepType ==
  ASSUME TypeOK, NEW w \in Runs, NEW from, NEW to \in Stages, NEW r \in RPs,
         HandlerStep(w, from, to, r), hat' \in [Runs -> SecretSigs], clean' \subseteq Runs
  PROVE  TypeOK'
<1>1. pc' \in [Runs -> Stages]
  BY MovesType DEF HandlerStep
<1> QED
  BY <1>1 DEF HandlerStep, TypeOK, Stages, RPs, brokerVars

LEMMA CredentialStepType ==
  ASSUME TypeOK, NEW w \in Runs, NEW from, NEW to \in Stages, NEW r \in RPs,
         CredentialStep(w, from, to, r)
  PROVE  TypeOK'
<1>1. hat' \in [Runs -> SecretSigs] /\ clean' \subseteq Runs
  BY DEF CredentialStep, TypeOK
<1> QED
  BY <1>1, HandlerStepType DEF CredentialStep

LEMMA InitType == Init => TypeOK
<1> SUFFICES ASSUME Init PROVE TypeOK
  OBVIOUS
<1>1. pc \in [Runs -> Stages] /\ asked \in [Runs -> [sk : Nat, key : Nat]]
  BY DEF Init, Stages
<1>2. posted \in [Runs -> BrokerRecord] /\ got \in [Runs -> Nat]
  BY DEF Init, BrokerRecord, Empty, NoTid
<1>3. /\ rp \in RPs /\ regFile \in FileRecord /\ load \in Loads /\ hat \in [Runs -> SecretSigs]
      /\ IsTable(table) /\ IsTable(file)
  BY NoFileType DEF Init, RPs, Empty, NoTid, FirstKey
<1>4. login \in [Logins -> LoginRecords]
  BY NoFileType DEF Init
<1>5. /\ ikey \in Nat /\ nextTid \in Nat \ {NoTid} /\ faults \in 0..MaxFaults
      /\ clean \subseteq Runs /\ calm \subseteq Logins
  BY BoundAssumption DEF Init, NoTid, FirstKey
<1>6. bench \in BOOLEAN /\ loop \in BOOLEAN /\ sound \in BOOLEAN
  BY DEF Init
<1> QED
  BY <1>1, <1>2, <1>3, <1>4, <1>5, <1>6 DEF TypeOK, Stages, RPs, LoginRecords

LEMMA RunTypes ==
  ASSUME TypeOK, NEW w \in Runs,
         \/ AskIdP(w) \/ IdPIssues(w)
         \/ EmptySigma(w) \/ StoreSigma(w) \/ EmptySigmaBar(w) \/ StoreBlinded(w)
         \/ ReadBlinded(w) \/ StoreUnblinded(w) \/ VerifySigma(w) \/ VerifySigmaBar(w)
         \/ PostToBroker(w) \/ BrokerEnrols(w) \/ TakeTid(w) \/ SaveRegistration(w)
  PROVE  TypeOK'
<1> USE DEF rpVars, brokerVars, ghostVars
<1>0. {"idle", "asked", "issued", "emptied", "stored", "cleared", "blinded", "unblinding", "unblinded",
       "checked", "verified", "posted", "enrolled", "named", "done", "failed"} \subseteq Stages
  BY DEF Stages, InExchange, AtIdP, Assembling, AtBroker
<1>1. CASE AskIdP(w)
  <2>1. pc' \in [Runs -> Stages]
    BY <1>0, <1>1, MovesType DEF AskIdP
  <2>2. asked' \in [Runs -> [sk : Nat, key : Nat]] /\ clean' \subseteq Runs
    BY <1>1 DEF AskIdP, TypeOK
  <2> QED
    BY <1>1, <2>1, <2>2 DEF AskIdP, TypeOK, Stages
<1>2. CASE IdPIssues(w)
  <2>1. PICK to \in {"issued", "failed"} : Moves(w, to)
    BY <1>2 DEF IdPIssues
  <2>2. pc' \in [Runs -> Stages]
    BY <1>0, <2>1, MovesType
  <2> QED
    BY <1>2, <2>2 DEF IdPIssues, TypeOK, Stages
<1>3. CASE EmptySigma(w)
  <2>1. [rp EXCEPT !.sigma = Empty] \in RPs
    BY DEF TypeOK, RPs, Empty
  <2>2. hat' \in [Runs -> SecretSigs] /\ clean' \subseteq Runs
    BY <1>3 DEF EmptySigma, TypeOK
  <2> QED
    BY <1>0, <1>3, <2>1, <2>2, HandlerStepType DEF EmptySigma
<1>4. CASE StoreSigma(w)
  <2>1. [rp EXCEPT !.sigma = asked[w].key] \in RPs
    BY DEF TypeOK, RPs
  <2> QED
    BY <1>0, <1>4, <2>1, CredentialStepType DEF StoreSigma
<1>5. CASE EmptySigmaBar(w)
  <2>1. [rp EXCEPT !.sigmaBar = EmptyBar] \in RPs
    BY NoFileType DEF TypeOK, RPs
  <2> QED
    BY <1>0, <1>5, <2>1, CredentialStepType DEF EmptySigmaBar
<1>6. CASE StoreBlinded(w)
  <2>1. Blinded(w) \in SecretSigs
    BY DEF Blinded, TypeOK, SecretSigs
  <2>2. [rp EXCEPT !.sigmaBar = Blinded(w)] \in RPs
    BY <2>1 DEF TypeOK, RPs
  <2> QED
    BY <1>0, <1>6, <2>2, CredentialStepType DEF StoreBlinded
<1>7. CASE ReadBlinded(w)
  <2>1. hat' \in [Runs -> SecretSigs] /\ clean' \subseteq Runs /\ rp \in RPs
    BY <1>7 DEF ReadBlinded, TypeOK, RPs
  <2> QED
    BY <1>0, <1>7, <2>1, HandlerStepType DEF ReadBlinded
<1>8. CASE StoreUnblinded(w)
  <2>1. Unblinded(w) \in SecretSigs
    BY DEF Unblinded, TypeOK, SecretSigs
  <2>2. [rp EXCEPT !.sigmaBar = Unblinded(w)] \in RPs
    BY <2>1 DEF TypeOK, RPs
  <2>3. hat' \in [Runs -> SecretSigs] /\ clean' \subseteq Runs
    BY <1>8, NoFileType DEF StoreUnblinded, TypeOK
  <2> QED
    BY <1>0, <1>8, <2>2, <2>3, HandlerStepType DEF StoreUnblinded
<1>9. CASE VerifySigma(w) \/ VerifySigmaBar(w)
  <2>1. rp \in RPs
    BY DEF TypeOK, RPs
  <2>2. CASE VerifySigma(w)
    <3>1. PICK to \in {"checked", "failed"} : CredentialStep(w, "unblinded", to, rp)
      BY <2>2 DEF VerifySigma
    <3> QED
      BY <1>0, <2>1, <3>1, CredentialStepType
  <2>3. CASE VerifySigmaBar(w)
    <3>1. PICK to \in {"verified", "failed"} : CredentialStep(w, "checked", to, rp)
      BY <2>3 DEF VerifySigmaBar
    <3> QED
      BY <1>0, <2>1, <3>1, CredentialStepType
  <2> QED
    BY <1>9, <2>2, <2>3
<1>10. CASE PostToBroker(w)
  <2>1. pc' \in [Runs -> Stages]
    BY <1>0, <1>10, MovesType DEF PostToBroker
  <2>2. rp.sigma \in Nat /\ rp.isk \in Nat
    BY DEF TypeOK
  <2>3. posted' \in [Runs -> BrokerRecord] /\ clean' \subseteq Runs
    BY <1>10, <2>2 DEF PostToBroker, TypeOK, BrokerRecord
  <2> QED
    BY <1>10, <2>1, <2>3 DEF PostToBroker, TypeOK, Stages
<1>11. CASE BrokerEnrols(w)
  <2>1. pc' \in [Runs -> Stages]
    BY <1>0, <1>11, MovesType DEF BrokerEnrols
  <2>2. nextTid \in Nat \ {NoTid} /\ posted[w] \in BrokerRecord
    BY DEF TypeOK
  <2>3. IsTable(table') /\ IsTable(file')
    BY <1>11, <2>2, EnrolType DEF BrokerEnrols, TypeOK
  <2>4. got' \in [Runs -> Nat] /\ nextTid' \in Nat \ {NoTid}
    BY <1>11, <2>2 DEF BrokerEnrols, TypeOK, NoTid
  <2> QED
    BY <1>11, <2>1, <2>3, <2>4 DEF BrokerEnrols, TypeOK, Stages
<1>12. CASE TakeTid(w)
  <2>1. [rp EXCEPT !.tid = got[w]] \in RPs
    BY DEF TypeOK, RPs
  <2>2. hat' \in [Runs -> SecretSigs] /\ clean' \subseteq Runs
    BY <1>12 DEF TakeTid, TypeOK
  <2> QED
    BY <1>0, <1>12, <2>1, <2>2, HandlerStepType DEF TakeTid
<1>13. CASE SaveRegistration(w)
  <2>1. pc' \in [Runs -> Stages]
    BY <1>0, <1>13, MovesType DEF SaveRegistration
  <2>2. regFile' \in FileRecord
    BY <1>13 DEF SaveRegistration, TypeOK, FileRecord
  <2>3. loop' \in BOOLEAN /\ sound' \in BOOLEAN /\ clean' \subseteq Runs
    BY <1>13 DEF SaveRegistration, TypeOK
  <2> QED
    BY <1>13, <2>1, <2>2, <2>3 DEF SaveRegistration, TypeOK, Stages
<1> QED
  BY <1>1, <1>2, <1>3, <1>4, <1>5, <1>6, <1>7, <1>8, <1>9, <1>10, <1>11, <1>12, <1>13

LEMMA LoadTypes ==
  ASSUME TypeOK, LoadStep
  PROVE  TypeOK'
<1> USE DEF runVars, brokerVars, ghostVars
<1>1. CASE StatusPage
  <2>1. rp' \in RPs /\ load' \in Loads /\ clean' \subseteq Runs
    <3>1. CASE LoadBegins(Page)
      <4>1. load' \in Loads /\ clean' \subseteq Runs
        BY <3>1 DEF LoadBegins, TypeOK, Loads
      <4> QED
        BY <3>1, <4>1, LoadingType
    <3>2. CASE NothingToLoad
      BY <3>2 DEF NothingToLoad, TypeOK, RPs
    <3> QED
      BY <1>1, <3>1, <3>2 DEF StatusPage
  <2> QED
    BY <1>1, <2>1 DEF StatusPage, TypeOK, RPs
<1>2. CASE LoadSigma
  <2>1. rp' \in RPs
    BY <1>2, LoadingType
  <2>2. load' \in Loads
    BY <1>2 DEF LoadSigma, TypeOK, Loads
  <2> QED
    BY <1>2, <2>1, <2>2 DEF LoadSigma, TypeOK, RPs
<1>3. CASE LoadSigmaBar
  <2>1. rp' \in RPs
    BY <1>3, LoadingType
  <2>2. load' \in Loads
    BY <1>3, NoFileType DEF LoadSigmaBar
  <2>3. login' \in [Logins -> LoginRecords]
    BY <1>3 DEF LoadSigmaBar, TypeOK, LoginRecords
  <2> QED
    BY <1>3, <2>1, <2>2, <2>3 DEF LoadSigmaBar, TypeOK, RPs, LoginRecords
<1> QED
  BY <1>1, <1>2, <1>3 DEF LoadStep

LEMMA LoginTypes ==
  ASSUME TypeOK, LoginStep
  PROVE  TypeOK'
<1> USE DEF runVars, rpVars, brokerVars, ghostVars
<1>1. ASSUME NEW l \in Logins, StartLogin(l) PROVE TypeOK'
  <2>1. rp' \in RPs /\ load' \in Loads /\ clean' \subseteq Runs
    <3>1. CASE LoadBegins(l)
      <4>1. load' \in Loads /\ clean' \subseteq Runs
        BY <3>1 DEF LoadBegins, TypeOK, Loads
      <4> QED
        BY <3>1, <4>1, LoadingType
    <3>2. CASE NothingToLoad
      BY <3>2 DEF NothingToLoad, TypeOK, RPs
    <3> QED
      BY <1>1, <3>1, <3>2 DEF StartLogin
  <2>2. login' \in [Logins -> LoginRecords]
    <3>1. PICK to \in {"loading", "loaded"} : login' = [login EXCEPT ![l].at = to]
      BY <1>1 DEF StartLogin
    <3> QED
      BY <3>1 DEF TypeOK, LoginRecords
  <2>3. calm' \subseteq Logins
    BY <1>1 DEF StartLogin, TypeOK
  <2>4. UNCHANGED <<pc, asked, hat, posted, got, loop, bench, regFile, ikey, table, file, nextTid,
                    faults, sound>>
    BY <1>1 DEF StartLogin
  <2> QED
    BY <2>1, <2>2, <2>3, <2>4 DEF TypeOK, RPs, LoginRecords
<1>2. ASSUME NEW l \in Logins, RedirectToBroker(l) PROVE TypeOK'
  <2>1. rp.tid \in Nat
    BY DEF TypeOK
  <2>2. login' \in [Logins -> LoginRecords]
    <3>1. login' = [login EXCEPT ![l].at = "started", ![l].tid = rp.tid]
      BY <1>2 DEF RedirectToBroker
    <3>2. login \in [Logins -> LoginRecords]
      BY DEF TypeOK, LoginRecords
    <3> HIDE DEF TypeOK
    <3> QED
      BY <2>1, <3>1, <3>2 DEF LoginRecords
  <2>3. UNCHANGED <<pc, asked, hat, posted, got, loop, bench, rp, regFile, load, ikey, table, file,
                    nextTid, faults, clean, calm, sound>>
    BY <1>2 DEF RedirectToBroker
  <2> QED
    BY <2>2, <2>3 DEF TypeOK, LoginRecords
<1>3. ASSUME NEW l \in Logins, Authorize(l) PROVE TypeOK'
  <2>1. PICK x \in LoginRecords : login' = [login EXCEPT ![l] = x]
    <3>1. login[l].tid \in Nat
      BY DEF TypeOK
    <3>2. Randomizable(login[l].tid) => table[login[l].tid].sigma \in Nat
      BY DEF Randomizable, TypeOK, IsTable, BrokerRecord
    <3>3. CASE Randomizable(login[l].tid)
      <4>1. login' = [login EXCEPT ![l] = [at |-> "authorized", tid |-> login[l].tid,
                                           sigma |-> table[login[l].tid].sigma]]
        BY <1>3, <3>3 DEF Authorize
      <4> QED
        BY <3>1, <3>2, <3>3, <4>1 DEF LoginRecords
    <3>4. CASE ~Randomizable(login[l].tid)
      <4>1. login' = [login EXCEPT ![l] = [at |-> "refused", tid |-> login[l].tid, sigma |-> 0]]
        BY <1>3, <3>4 DEF Authorize, Unset
      <4> QED
        BY <3>1, <4>1 DEF LoginRecords
    <3> QED
      BY <3>3, <3>4
  <2> QED
    BY <1>3, <2>1 DEF Authorize, TypeOK, LoginRecords
<1>4. ASSUME NEW l \in Logins, Prove(l) PROVE TypeOK'
  <2>1. calm' \subseteq Logins
    BY <1>4 DEF Prove, TypeOK
  <2> QED
    BY <1>4, <2>1 DEF Prove, TypeOK
<1> QED
  BY <1>1, <1>2, <1>3, <1>4 DEF LoginStep

LEMMA RPStartsType ==
  ASSUME TypeOK, NEW isk \in Nat, regFile' \in FileRecord, RPStartsAgain(isk)
  PROVE  /\ pc' \in [Runs -> Stages] /\ rp' \in RPs /\ rp'.isk = isk /\ rp'.vk = ikey
         /\ load' \in Loads /\ hat' \in [Runs -> SecretSigs]
         /\ loop' \in BOOLEAN /\ clean' \subseteq Runs
         /\ UNCHANGED <<asked, posted, got, bench, ikey, table, file, nextTid>>
<1>1. \A w \in Runs : AfterBrokerFailure(w) \in Stages
  BY DEF AfterBrokerFailure, Stages
<1>2. pc' \in [Runs -> Stages]
  BY <1>1 DEF RPStartsAgain, TypeOK, Stages
<1> QED
  BY <1>2, StartedType, NoFileType DEF RPStartsAgain, TypeOK, brokerVars

LEMMA FaultTypes == TypeOK /\ FaultStep => TypeOK'
<1> SUFFICES ASSUME TypeOK, FaultStep PROVE TypeOK'
  OBVIOUS
<1> USE DEF runVars, rpVars, brokerVars, ghostVars
<1>0. Fault => faults' \in 0..MaxFaults /\ calm' \subseteq Logins
  BY BoundAssumption DEF Fault, TypeOK
<1>d. \A l \in Logins : Dropped(login[l]) \in LoginRecords
  BY NoFileType DEF Dropped, TypeOK, LoginRecords
<1>1. CASE RPRestart
  <2>1. regFile' \in FileRecord /\ rp.isk \in Nat
    BY <1>1 DEF RPRestart, TypeOK
  <2>2. login' \in [Logins -> LoginRecords]
    BY <1>1, <1>d DEF RPRestart
  <2> QED
    BY <1>0, <1>1, <2>1, <2>2, RPStartsType DEF RPRestart, TypeOK, Stages, RPs, LoginRecords
<1>2. ASSUME NEW l \in Logins, RPLosesKeys(l) PROVE TypeOK'
  <2>1. regFile' \in FileRecord /\ rp.isk + 1 \in Nat
    BY <1>2 DEF RPLosesKeys, TypeOK
  <2>2. [login[l] EXCEPT !.at = "refused"] \in LoginRecords
    BY DEF TypeOK, LoginRecords
  <2>3. login' \in [Logins -> LoginRecords]
    BY <1>2, <1>d, <2>2 DEF RPLosesKeys
  <2> QED
    BY <1>0, <1>2, <2>1, <2>3, RPStartsType DEF RPLosesKeys, TypeOK, Stages, RPs, LoginRecords
<1>3. CASE RPLosesFile
  <2>1. regFile' \in FileRecord /\ rp.isk \in Nat
    BY <1>3, NoFileType DEF RPLosesFile, TypeOK
  <2>2. login' \in [Logins -> LoginRecords]
    BY <1>3, <1>d DEF RPLosesFile
  <2> QED
    BY <1>0, <1>3, <2>1, <2>2, RPStartsType DEF RPLosesFile, TypeOK, Stages, RPs, LoginRecords
<1>4. CASE IdPLosesKeys
  <2>1. login' \in [Logins -> LoginRecords]
    BY <1>4 DEF IdPLosesKeys, TypeOK, LoginRecords
  <2>2. ikey' \in Nat /\ clean' \subseteq Runs
    BY <1>4 DEF IdPLosesKeys, TypeOK
  <2> QED
    BY <1>0, <1>4, <2>1, <2>2 DEF IdPLosesKeys, TypeOK, LoginRecords
<1>5. CASE BrokerRestart
  BY <1>0, <1>5 DEF BrokerRestart, TypeOK
<1>6. ASSUME NEW w \in Runs, IdPCallFails(w) \/ BrokerCallFails(w) PROVE TypeOK'
  <2>1. PICK to \in {"failed", "verified"} : Moves(w, to)
    BY <1>6 DEF IdPCallFails, BrokerCallFails, AfterBrokerFailure
  <2>2. pc' \in [Runs -> Stages]
    BY <2>1, MovesType DEF Stages
  <2> QED
    BY <1>0, <1>6, <2>2 DEF IdPCallFails, BrokerCallFails, TypeOK, Stages
<1>7. ASSUME NEW w \in Runs, UnblindPanics(w) PROVE TypeOK'
  <2>1. regFile' \in FileRecord /\ rp.isk \in Nat
    BY <1>7 DEF UnblindPanics, TypeOK
  <2>2. login' \in [Logins -> LoginRecords]
    BY <1>7, <1>d DEF UnblindPanics
  <2> QED
    BY <1>7, <2>1, <2>2, RPStartsType DEF UnblindPanics, TypeOK, Stages, RPs, LoginRecords
<1>8. ASSUME NEW w \in Runs, BrokerLosesFile(w) PROVE TypeOK'
  <2>1. PICK to \in {"failed", "verified"} : Moves(w, to)
    BY <1>8 DEF BrokerLosesFile, AfterBrokerFailure
  <2>2. pc' \in [Runs -> Stages]
    BY <2>1, MovesType DEF Stages
  <2> QED
    BY <1>0, <1>8, <2>2, NoFileType DEF BrokerLosesFile, TypeOK, Stages
<1>9. ASSUME NEW w \in Runs, SaveFails(w) PROVE TypeOK'
  <2>1. pc' \in [Runs -> Stages]
    BY <1>9, MovesType DEF SaveFails, Stages
  <2>2. regFile' \in FileRecord /\ loop' \in BOOLEAN /\ sound' \in BOOLEAN /\ clean' \subseteq Runs
    BY <1>9, NoFileType DEF SaveFails, LeftOf, TypeOK
  <2> QED
    BY <1>0, <1>9, <2>1, <2>2 DEF SaveFails, TypeOK, Stages
<1>10. ASSUME NEW w \in Runs, BrokerSaveFails(w) PROVE TypeOK'
  <2>1. pc' \in [Runs -> Stages]
    BY <1>10, MovesType DEF BrokerSaveFails, Stages, AtBroker
  <2>2. nextTid \in Nat \ {NoTid} /\ posted[w] \in BrokerRecord
    BY DEF TypeOK
  <2>3. IsTable(table')
    BY <1>10, <2>2, EnrolType DEF BrokerSaveFails, TypeOK
  <2>4. IsTable(file') /\ sound' \in BOOLEAN /\ clean' \subseteq Runs
    BY <1>10, NoFileType DEF BrokerSaveFails, LeftOf, TypeOK
  <2>5. got' \in [Runs -> Nat] /\ nextTid' \in Nat \ {NoTid}
    BY <1>10, <2>2 DEF BrokerSaveFails, TypeOK, NoTid
  <2> QED
    BY <1>0, <1>10, <2>1, <2>3, <2>4, <2>5 DEF BrokerSaveFails, TypeOK, Stages
<1> QED
  BY <1>1, <1>2, <1>3, <1>4, <1>5, <1>6, <1>7, <1>8, <1>9, <1>10 DEF FaultStep

LEMMA NextType == TypeOK /\ [Next]_vars => TypeOK'
<1>1. TypeOK /\ UNCHANGED vars => TypeOK'
  BY DEF vars, runVars, rpVars, brokerVars, ghostVars, TypeOK
<1> QED
  BY <1>1, RunTypes, LoadTypes, LoginTypes, FaultTypes DEF Next, RegistrationStep

\* Every reachable state is well typed, for any instance (TypeOK).
THEOREM TypeCorrect == Spec => []TypeOK
  BY InitType, NextType, PTL DEF Spec


(***************************************************************************)
(* Undisturbed registrations and quiet logins.  An undisturbed run is the  *)
(* only one at the servers while it is there and no load meets its         *)
(* getCredential, so that at each stage the RP's memory holds what that    *)
(* stage has put there, or will hold it again when the load under way is   *)
(* done; what the run saves then serves logins, and goes on to.            *)
(***************************************************************************)

\* What the broker keeps of a registration that works, and its SigmaBar.
Record == [sigma |-> ikey, prekeys |-> rp.isk]
Secret == [key |-> ikey, sk |-> rp.isk, blind |-> Clear]

\* The RP's memory as it will be when the load under way is done.
SettledSigma == IF load.at = "none" \/ regFile.sigma = Unset THEN rp.sigma ELSE regFile.sigma
SettledBar   == IF load.at = "none" \/ regFile.sigmaBar = UnsetBar THEN rp.sigmaBar
                ELSE regFile.sigmaBar
SettledTid   == IF load.at = "none" \/ regFile.tid = NoTid THEN rp.tid ELSE regFile.tid

\* A load that has come to SigmaBar is done with Sigma.
Ready ==
  /\ rp.vk = ikey /\ SettledSigma = ikey /\ SettledBar = Secret
  /\ load.at = "sigmaBar" => rp.sigma = ikey

Enrolled(t) == /\ t \in DOMAIN table /\ table[t] = Record
               /\ t \in DOMAIN file /\ file[t] = Record

Good == Enrolled(regFile.tid) /\ regFile.sigmaBar = Secret /\ rp.vk = ikey

FreshTids == ikey > Empty /\ \A t \in DOMAIN table \cup DOMAIN file : t < nextTid

AloneRun(w) ==
  /\ pc[w] # "idle"
  /\ w \in Executing => \A v \in Executing : v = w
  /\ w \in Active => \A v \in Runs \ {w} : pc[v] \notin InExchange

RunOK(w) ==
  /\ pc[w] \in InExchange => asked[w] = [sk |-> rp.isk, key |-> rp.vk]
  /\ pc[w] \in InExchange \ {"asked"} => rp.vk = ikey
  /\ pc[w] \in Assembling => load.at = "none"
  /\ pc[w] \in Assembling \ {"emptied"} => rp.sigma = ikey
  /\ pc[w] = "blinded" => rp.sigmaBar = [key |-> ikey, sk |-> rp.isk, blind |-> w]
  /\ pc[w] = "unblinding" => hat[w] = [key |-> ikey, sk |-> rp.isk, blind |-> w]
  /\ pc[w] \in {"unblinded", "checked"} => rp.sigmaBar = Secret
  /\ pc[w] \in {"verified", "posted", "enrolled", "named"} => Ready
  /\ pc[w] = "posted" => posted[w] = Record
  /\ pc[w] \in {"enrolled", "named"} => Enrolled(got[w])
  /\ pc[w] = "named" => SettledTid = got[w]

\* A login after its load sees the registration of the file in memory, except for
\* SigmaBar while that is being loaded.
LoginOK(l) ==
  /\ sound /\ Executing = {}
  /\ login[l].at \in {"loading", "loaded", "started", "authorized", "accepted"}
  /\ login[l].at = "loading" <=> load.at # "none" /\ load.by = l
  /\ login[l].at # "loading" => /\ rp.tid = regFile.tid
                                /\ load.at = "sigmaBar" \/ rp.sigmaBar = regFile.sigmaBar
  /\ login[l].at = "started" => login[l].tid = regFile.tid
  /\ login[l].at = "authorized" => login[l].sigma = ikey

Alone    == \A w \in clean : AloneRun(w)
Progress == \A w \in clean : RunOK(w)
Sound    == sound => Good
Calm     == \A l \in calm : LoginOK(l)

IInv == TypeOK /\ FreshTids /\ Alone /\ Progress /\ Sound /\ Calm

LEMMA GoodWorks ==
  ASSUME TypeOK, Good
  PROVE  Works
  BY DEF Good, Works, Enrolled, Record, Secret, ProofAccepted, SigmaVerifies, SigmaBarVerifies

\* Such a registration is there, and not empty.
LEMMA GoodFile ==
  ASSUME TypeOK, FreshTids, Good
  PROVE  regFile.tid # NoTid /\ regFile.sigmaBar # UnsetBar /\ regFile # NoFile
<1>1. regFile.tid \in Nat \ {NoTid}
  BY DEF TypeOK, IsTable, Good, Enrolled
<1>2. regFile.sigmaBar.key = ikey /\ ikey > Empty /\ ikey \in Nat
  BY DEF Good, Secret, FreshTids, TypeOK
<1> QED
  BY <1>1, <1>2 DEF UnsetBar, Unset, Empty, NoFile

LEMMA InitIInv == Init => IInv
<1> SUFFICES ASSUME Init PROVE IInv
  OBVIOUS
<1>1. FreshTids
  BY DEF Init, FreshTids, NoRecords, FirstKey, Empty
<1> QED
  BY <1>1, InitType DEF Init, IInv, Alone, Progress, Sound, Calm

(***************************************************************************)
(* Runs.                                                                   *)
(***************************************************************************)

LEMMA Stage ==
  /\ AtIdP = {"asked", "issued"}
  /\ Assembling = {"emptied", "stored", "cleared", "blinded", "unblinding", "unblinded", "checked"}
  /\ AtBroker = {"posted", "enrolled", "named"}
  /\ InExchange = AtIdP \cup Assembling
  /\ \A w \in Runs : w \in Executing <=> pc[w] \in InExchange \cup AtBroker
  /\ \A w \in Runs : w \in Active <=> w \in Executing \/ pc[w] = "verified"
  BY DEF AtIdP, Assembling, AtBroker, InExchange, Executing, Active

\* A run at a server moves on: the undisturbed ones are still alone.
LEMMA StillAlone ==
  ASSUME TypeOK, Alone, NEW v \in Runs, v \in Executing, NEW to \in Stages \ {"idle"}, Moves(v, to),
         to \in InExchange => pc[v] \in InExchange, clean' \subseteq clean
  PROVE  Alone'
<1>1. /\ pc'[v] = to /\ \A u \in Runs \ {v} : pc'[u] = pc[u]
  BY MovesType
<1> SUFFICES ASSUME NEW w \in clean, w \in Runs PROVE AloneRun(w)'
  BY DEF Alone, TypeOK
<1>2. AloneRun(w)
  BY DEF Alone
<1>3. CASE w = v
  <2>1. \A u \in Runs \ {v} : u \notin Executing
    BY <1>2, <1>3 DEF AloneRun
  <2>2. \A u \in Runs \ {v} : u \notin Executing' /\ pc'[u] \notin InExchange
    BY <1>1, <2>1 DEF Executing
  <2> QED
    BY <1>1, <1>3, <2>2 DEF AloneRun, Executing
<1>4. CASE w # v
  <2>1. w \notin Executing /\ pc'[w] = pc[w]
    BY <1>1, <1>2, <1>4 DEF AloneRun
  <2>2. w \notin Executing' /\ (w \in Active' => w \in Active)
    BY <2>1 DEF Executing, Active
  <2>3. w \in Active => to \notin InExchange /\ \A u \in Runs \ {w} : pc'[u] \notin InExchange
    BY <1>1, <1>2, <1>4 DEF AloneRun
  <2> QED
    BY <1>2, <2>1, <2>2, <2>3 DEF AloneRun
<1> QED
  BY <1>3, <1>4

\* A run that is not at a server relies on the memory only between its exchanges.
LEMMA Waiting ==
  ASSUME NEW w \in Runs, RunOK(w), w \notin Executing, pc'[w] = pc[w],
         pc[w] = "verified" /\ Ready => Ready'
  PROVE  RunOK(w)'
<1>1. pc'[w] \notin InExchange \cup AtBroker
  BY Stage
<1>2. pc'[w] \notin {"posted", "enrolled", "named", "blinded", "unblinding", "unblinded", "checked"}
      /\ pc'[w] \notin InExchange /\ pc'[w] \notin Assembling
  BY <1>1, Stage
<1>3. pc'[w] = "verified" => Ready'
  BY DEF RunOK
<1> QED
  BY <1>2, <1>3 DEF RunOK

\* While one moves on the others are, if anything, between their two exchanges.
LEMMA OthersOK ==
  ASSUME TypeOK, Alone, Progress, NEW v \in Runs, v \in Executing, NEW to \in Stages, Moves(v, to),
         pc[v] \notin InExchange /\ Ready => Ready',
         NEW w \in clean, w # v
  PROVE  RunOK(w)'
<1>1. w \in Runs /\ pc'[w] = pc[w] /\ AloneRun(w) /\ RunOK(w)
  BY MovesType DEF TypeOK, Alone, Progress
<1>2. w \notin Executing /\ (pc[w] = "verified" => pc[v] \notin InExchange)
  BY <1>1 DEF AloneRun, Active
<1> QED
  BY <1>1, <1>2, Waiting

\* Runs no longer counted on need nothing.
LEMMA InactiveOK ==
  ASSUME TypeOK, Alone, Progress, clean' \subseteq clean \ Active,
         \A w \in Runs \ Active : pc'[w] = pc[w]
  PROVE  Alone' /\ Progress'
<1> SUFFICES ASSUME NEW w \in clean \ Active, w \in Runs PROVE AloneRun(w)' /\ RunOK(w)'
  BY DEF Alone, Progress, TypeOK
<1>1. pc'[w] = pc[w] /\ pc[w] # "idle" /\ RunOK(w)
  BY DEF Alone, AloneRun, Progress
<1>2. w \notin Executing /\ pc[w] # "verified"
  BY Stage
<1>3. w \notin Executing' /\ w \notin Active'
  BY <1>1, <1>2 DEF Executing, Active
<1> QED
  BY <1>1, <1>2, <1>3, Waiting DEF AloneRun

\* Nothing a run relies on has changed, but for records added or restored.
LEMMA UnchangedOK ==
  ASSUME Alone, Progress,
         UNCHANGED <<pc, asked, hat, posted, got, rp, regFile, load, ikey>>, clean' \subseteq clean,
         \A t : Enrolled(t) => Enrolled(t)'
  PROVE  Alone' /\ Progress'
<1>1. UNCHANGED <<Ready, Record, Secret, SettledTid>>
  BY DEF Ready, Record, Secret, SettledSigma, SettledBar, SettledTid
<1> SUFFICES ASSUME NEW w \in clean PROVE AloneRun(w)' /\ RunOK(w)'
  BY DEF Alone, Progress
<1>2. AloneRun(w)'
  BY DEF Alone, AloneRun, Executing, Active
<1>3. RunOK(w)
  BY DEF Progress
<1>4. RunOK(w)'
  BY <1>1, <1>3 DEF RunOK
<1> QED
  BY <1>2, <1>4

\* What the broker enrols is in its table and its file, under the tid it draws.
LEMMA EnrolsNew ==
  ASSUME TypeOK, NEW v \in Runs, BrokerEnrols(v)
  PROVE  /\ nextTid \in DOMAIN table' /\ table'[nextTid] = posted[v]
         /\ nextTid \in DOMAIN file' /\ file'[nextTid] = posted[v]
<1>1. /\ IsTable(table) /\ IsTable(file) /\ nextTid \in Nat \ {NoTid} /\ posted[v] \in BrokerRecord
      /\ table' = Enrol(table, nextTid, posted[v]) /\ file' = Enrol(file, nextTid, posted[v])
  BY DEF TypeOK, BrokerEnrols
<1>2. PICK n \in Nat \ {NoTid} : n = nextTid
  BY <1>1
<1>3. ASSUME NEW f, IsTable(f)
      PROVE  n \in DOMAIN Enrol(f, n, posted[v]) /\ Enrol(f, n, posted[v])[n] = posted[v]
  BY DEF Enrol
<1> QED
  BY <1>1, <1>2, <1>3

LEMMA AsksNext ==
  ASSUME IInv, NEW v \in Runs, AskIdP(v)
  PROVE  Alone' /\ Progress'
<1> USE DEF IInv
<1>1. /\ pc[v] = "idle" /\ pc'[v] = "asked" /\ \A u \in Runs \ {v} : pc'[u] = pc[u]
      /\ UNCHANGED <<rp, ikey>> /\ asked'[v] = [sk |-> rp.isk, key |-> rp.vk]
  BY MovesType DEF AskIdP, TypeOK, Stages, InExchange, AtIdP, rpVars
<1>2. v \notin clean
  BY <1>1 DEF Alone, AloneRun
<1>3. \A w \in clean' : (w = v /\ Executing = {}) \/ (w \in clean \ Active /\ w # v)
  <2>1. clean' = (clean \ Active) \cup (IF Executing = {} THEN {v} ELSE {})
    BY DEF AskIdP
  <2>2. CASE Executing = {}
    <3>1. clean' = (clean \ Active) \cup {v}
      BY <2>1, <2>2
    <3> QED
      BY <1>2, <2>2, <3>1
  <2>3. CASE Executing # {}
    BY <1>2, <2>1, <2>3
  <2> QED
    BY <2>2, <2>3
<1>4. ASSUME NEW w \in clean \ Active, w # v PROVE AloneRun(w)' /\ RunOK(w)'
  <2>1. w \in Runs /\ pc'[w] = pc[w] /\ pc[w] # "idle" /\ RunOK(w)
    BY <1>1, <1>4 DEF TypeOK, Alone, AloneRun, Progress
  <2>2. w \notin Executing /\ pc[w] # "verified"
    BY <1>4, <2>1, Stage
  <2>3. w \notin Executing' /\ w \notin Active'
    BY <2>1, <2>2 DEF Executing, Active
  <2> QED
    BY <2>1, <2>2, <2>3, Waiting DEF AloneRun
<1>5. ASSUME Executing = {} PROVE AloneRun(v)' /\ RunOK(v)'
  <2>1. \A u \in Runs \ {v} : u \notin Executing' /\ pc'[u] \notin InExchange
    BY <1>1, <1>5 DEF Executing
  <2> QED
    BY <1>1, <2>1, Stage DEF AloneRun, RunOK, Executing
<1> QED
  BY <1>3, <1>4, <1>5 DEF Alone, Progress

\* A step of getCredential: only the run itself relies on what it changes.
LEMMA CredentialNext ==
  ASSUME IInv, NEW v \in Runs, pc[v] \in InExchange, NEW to \in Stages \ {"idle"}, Moves(v, to),
         clean' \subseteq clean, v \in clean' => RunOK(v)'
  PROVE  Alone' /\ Progress'
<1>1. v \in Executing
  BY Stage
<1>2. Alone'
  BY <1>1, StillAlone DEF IInv
<1>3. \A w \in clean : w # v => RunOK(w)'
  BY <1>1, OthersOK DEF IInv
<1> QED
  BY <1>2, <1>3 DEF Progress

LEMMA GetCredentialNext ==
  ASSUME IInv, NEW v \in Runs,
         \/ IdPIssues(v)
         \/ EmptySigma(v) \/ StoreSigma(v) \/ EmptySigmaBar(v) \/ StoreBlinded(v)
         \/ ReadBlinded(v) \/ StoreUnblinded(v) \/ VerifySigma(v) \/ VerifySigmaBar(v)
  PROVE  Alone' /\ Progress'
<1>0. /\ TypeOK /\ rp \in RPs
      /\ {"asked", "issued", "emptied", "stored", "cleared", "blinded", "unblinding", "unblinded",
          "checked"} \subseteq InExchange
      /\ {"issued", "emptied", "stored", "cleared", "blinded", "unblinding", "unblinded", "checked",
          "verified", "failed"} \subseteq Stages \ {"idle"}
  BY DEF IInv, TypeOK, RPs, Stages, InExchange, AtIdP, Assembling
<1>p. v \in clean => RunOK(v)
  BY DEF IInv, Progress
<1> USE DEF rpVars, brokerVars, ghostVars
<1>1. CASE IdPIssues(v)
  <2>1. PICK to \in {"issued", "failed"} :
          /\ Moves(v, to) /\ (to = "issued" => asked[v].key = ikey)
          /\ pc[v] = "asked" /\ UNCHANGED <<asked, rp, ikey, clean>>
    BY <1>1 DEF IdPIssues
  <2>2. pc'[v] = to
    BY <1>0, <2>1, MovesType
  <2>3. v \in clean => RunOK(v)'
    BY <1>p, <2>1, <2>2, Stage DEF RunOK
  <2> QED
    BY <1>0, <2>1, <2>3, CredentialNext
<1>2. CASE EmptySigma(v)
  <2>1. /\ pc[v] = "issued" /\ Moves(v, "emptied") /\ pc'[v] = "emptied"
        /\ UNCHANGED <<asked, load, ikey>> /\ clean' \subseteq clean
        /\ (load.at # "none" => v \notin clean')
    BY <1>0, <1>2, MovesType DEF EmptySigma, HandlerStep
  <2>2. rp'.vk = rp.vk /\ rp'.isk = rp.isk
    BY <1>0, <1>2 DEF EmptySigma, HandlerStep, RPs
  <2>3. v \in clean' => RunOK(v)'
    BY <1>p, <2>1, <2>2, Stage DEF RunOK
  <2> QED
    BY <1>0, <2>1, <2>3, CredentialNext
<1>3. CASE StoreSigma(v)
  <2>1. /\ pc[v] = "emptied" /\ Moves(v, "stored") /\ pc'[v] = "stored"
        /\ UNCHANGED <<asked, load, ikey, clean>>
    BY <1>0, <1>3, MovesType DEF StoreSigma, CredentialStep, HandlerStep
  <2>2. rp'.vk = rp.vk /\ rp'.isk = rp.isk /\ rp'.sigma = asked[v].key
    BY <1>0, <1>3 DEF StoreSigma, CredentialStep, HandlerStep, RPs
  <2>3. v \in clean => RunOK(v)'
    BY <1>p, <2>1, <2>2, Stage DEF RunOK
  <2> QED
    BY <1>0, <2>1, <2>3, CredentialNext
<1>4. CASE EmptySigmaBar(v)
  <2>1. /\ pc[v] = "stored" /\ Moves(v, "cleared") /\ pc'[v] = "cleared"
        /\ UNCHANGED <<asked, load, ikey, clean>>
    BY <1>0, <1>4, MovesType DEF EmptySigmaBar, CredentialStep, HandlerStep
  <2>2. rp'.vk = rp.vk /\ rp'.isk = rp.isk /\ rp'.sigma = rp.sigma
    BY <1>0, <1>4 DEF EmptySigmaBar, CredentialStep, HandlerStep, RPs
  <2>3. v \in clean => RunOK(v)'
    BY <1>p, <2>1, <2>2, Stage DEF RunOK
  <2> QED
    BY <1>0, <2>1, <2>3, CredentialNext
<1>5. CASE StoreBlinded(v)
  <2>1. /\ pc[v] = "cleared" /\ Moves(v, "blinded") /\ pc'[v] = "blinded"
        /\ UNCHANGED <<asked, load, ikey, clean>>
    BY <1>0, <1>5, MovesType DEF StoreBlinded, CredentialStep, HandlerStep
  <2>2. rp'.vk = rp.vk /\ rp'.isk = rp.isk /\ rp'.sigma = rp.sigma /\ rp'.sigmaBar = Blinded(v)
    BY <1>0, <1>5 DEF StoreBlinded, CredentialStep, HandlerStep, RPs
  <2>3. v \in clean => Blinded(v) = [key |-> ikey, sk |-> rp.isk, blind |-> v]
    BY <1>p, <2>1, Stage DEF RunOK, Blinded
  <2>4. v \in clean => RunOK(v)'
    BY <1>p, <2>1, <2>2, <2>3, Stage DEF RunOK
  <2> QED
    BY <1>0, <2>1, <2>4, CredentialNext
<1>6. CASE ReadBlinded(v)
  <2>1. /\ pc[v] = "blinded" /\ Moves(v, "unblinding") /\ pc'[v] = "unblinding"
        /\ UNCHANGED <<asked, load, ikey, clean, rp>> /\ hat'[v] = rp.sigmaBar
    BY <1>0, <1>6, MovesType DEF ReadBlinded, HandlerStep, TypeOK
  <2>2. v \in clean => RunOK(v)'
    BY <1>p, <2>1, Stage DEF RunOK
  <2> QED
    BY <1>0, <2>1, <2>2, CredentialNext
<1>7. CASE StoreUnblinded(v)
  <2>1. /\ pc[v] = "unblinding" /\ Moves(v, "unblinded") /\ pc'[v] = "unblinded"
        /\ UNCHANGED <<asked, load, ikey, clean>>
    BY <1>0, <1>7, MovesType DEF StoreUnblinded, HandlerStep
  <2>2. rp'.vk = rp.vk /\ rp'.isk = rp.isk /\ rp'.sigma = rp.sigma /\ rp'.sigmaBar = Unblinded(v)
    BY <1>0, <1>7 DEF StoreUnblinded, HandlerStep, RPs
  <2>3. v \in clean => Unblinded(v) = Secret
    BY <1>p, <2>1, Stage DEF RunOK, Unblinded, Secret
  <2>4. v \in clean => rp'.sigmaBar = Secret'
    BY <2>1, <2>2, <2>3 DEF Secret
  <2>5. v \in clean => RunOK(v)'
    BY <1>p, <2>1, <2>2, <2>4, Stage DEF RunOK
  <2> QED
    BY <1>0, <2>1, <2>5, CredentialNext
<1>8. CASE VerifySigma(v)
  <2>1. PICK to \in {"checked", "failed"} :
          /\ pc[v] = "unblinded" /\ Moves(v, to) /\ UNCHANGED <<asked, load, ikey, clean, rp>>
    BY <1>8 DEF VerifySigma, CredentialStep, HandlerStep
  <2>2. pc'[v] = to
    BY <1>0, <2>1, MovesType
  <2>3. v \in clean => RunOK(v)'
    BY <1>p, <2>1, <2>2, Stage DEF RunOK, Secret
  <2> QED
    BY <1>0, <2>1, <2>3, CredentialNext
<1>9. CASE VerifySigmaBar(v)
  <2>1. PICK to \in {"verified", "failed"} :
          /\ pc[v] = "checked" /\ Moves(v, to)
          /\ UNCHANGED <<asked, load, ikey, clean, rp, regFile>>
    BY <1>9 DEF VerifySigmaBar, CredentialStep, HandlerStep
  <2>2. pc'[v] = to
    BY <1>0, <2>1, MovesType
  <2>3. v \in clean => Ready'
    BY <1>p, <2>1, Stage DEF RunOK, Ready, Secret, SettledSigma, SettledBar
  <2>4. v \in clean => RunOK(v)'
    BY <2>2, <2>3, Stage DEF RunOK
  <2> QED
    BY <1>0, <2>1, <2>4, CredentialNext
<1> QED
  BY <1>1, <1>2, <1>3, <1>4, <1>5, <1>6, <1>7, <1>8, <1>9

LEMMA PostsNext ==
  ASSUME IInv, NEW v \in Runs, PostToBroker(v)
  PROVE  Alone' /\ Progress'
<1> USE DEF IInv
<1>1. /\ pc[v] = "verified" /\ pc'[v] = "posted" /\ \A u \in Runs \ {v} : pc'[u] = pc[u]
      /\ UNCHANGED <<rp, regFile, load, ikey>>
      /\ posted'[v] = [sigma |-> rp.sigma, prekeys |-> rp.isk]
  BY MovesType DEF PostToBroker, TypeOK, Stages, AtBroker, rpVars
<1>2. Ready => Ready'
  BY <1>1 DEF Ready, Secret, SettledSigma, SettledBar
<1>3. CASE Executing # {}
  <2>1. clean' \subseteq clean \ Active /\ v \in Active
    BY <1>1, <1>3, Stage DEF PostToBroker
  <2> QED
    BY <1>1, <2>1, InactiveOK
<1>4. CASE Executing = {}
  <2>1. clean' \subseteq clean /\ (v \in clean' => load.at = "none")
    BY <1>4 DEF PostToBroker
  <2>2. \A u \in Runs : pc'[u] \notin InExchange /\ (u # v => u \notin Executing')
    BY <1>1, <1>4, Stage DEF Executing
  <2>3. Alone'
    <3>1. \A u \in Executing' : u = v
      BY <2>2 DEF Executing
    <3>2. \A w \in clean : w \in Runs /\ pc'[w] # "idle"
      BY <1>1 DEF Alone, AloneRun, TypeOK
    <3> QED
      BY <2>1, <2>2, <3>1, <3>2 DEF Alone, AloneRun
  <2>4. ASSUME NEW w \in clean, w # v PROVE RunOK(w)'
    <3>1. w \in Runs /\ pc'[w] = pc[w] /\ w \notin Executing /\ RunOK(w)
      BY <1>1, <1>4, <2>4 DEF TypeOK, Progress
    <3> QED
      BY <1>2, <3>1, Waiting
  <2>5. ASSUME v \in clean' PROVE RunOK(v)'
    <3>1. Ready /\ load.at = "none"
      BY <1>1, <2>1, <2>5 DEF Progress, RunOK
    <3>2. rp.sigma = ikey
      BY <3>1 DEF Ready, SettledSigma
    <3>3. posted'[v] = Record'
      BY <1>1, <3>2 DEF Record
    <3> QED
      BY <1>1, <1>2, <3>1, <3>3, Stage DEF RunOK
  <2> QED
    BY <2>1, <2>3, <2>4, <2>5 DEF Progress
<1> QED
  BY <1>3, <1>4

\* The steps from the broker's answer on change no credential.
LEMMA BrokerNext ==
  ASSUME IInv, NEW v \in Runs, BrokerEnrols(v) \/ TakeTid(v) \/ SaveRegistration(v)
  PROVE  Alone' /\ Progress'
<1> USE DEF IInv, rpVars, brokerVars, ghostVars
<1>0. /\ {"posted", "enrolled", "named", "done"} \subseteq Stages \ {"idle"}
      /\ {"posted", "enrolled", "named", "done"} \cap InExchange = {}
      /\ rp \in RPs
  BY DEF Stages, InExchange, AtIdP, Assembling, AtBroker, TypeOK, RPs
<1>1. CASE BrokerEnrols(v)
  <2>1. /\ v \in Executing /\ pc[v] = "posted" /\ Moves(v, "enrolled") /\ pc'[v] = "enrolled"
        /\ UNCHANGED <<clean, rp, regFile, load, ikey>> /\ got'[v] = nextTid
    BY <1>0, <1>1, Stage, MovesType DEF BrokerEnrols, TypeOK
  <2>2. Alone'
    BY <1>0, <2>1, StillAlone
  <2>3. Ready => Ready'
    BY <2>1 DEF Ready, Secret, SettledSigma, SettledBar
  <2>4. \A w \in clean : w # v => RunOK(w)'
    BY <1>0, <2>1, <2>3, OthersOK
  <2>5. ASSUME v \in clean PROVE RunOK(v)'
    <3>1. Ready /\ posted[v] = Record
      BY <2>1, <2>5 DEF Progress, RunOK
    <3>2. PICK n : n = nextTid
      OBVIOUS
    <3>3. /\ n \in DOMAIN table' /\ table'[n] = posted[v]
          /\ n \in DOMAIN file' /\ file'[n] = posted[v]
      BY <1>1, <3>2, EnrolsNew
    <3>4. Enrolled(n)'
      BY <2>1, <3>1, <3>3 DEF Enrolled, Record
    <3>5. Enrolled(got[v])'
      BY <2>1, <3>2, <3>4
    <3> QED
      BY <2>1, <2>3, <3>1, <3>5, Stage DEF RunOK
  <2> QED
    BY <2>1, <2>2, <2>4, <2>5 DEF Progress
<1>2. CASE TakeTid(v)
  <2>1. /\ v \in Executing /\ pc[v] = "enrolled" /\ Moves(v, "named") /\ pc'[v] = "named"
        /\ rp' = [rp EXCEPT !.tid = got[v]] /\ clean' \subseteq clean
        /\ (load.at # "none" => v \notin clean')
        /\ UNCHANGED <<got, regFile, load, ikey, table, file>>
    BY <1>0, <1>2, Stage, MovesType DEF TakeTid, HandlerStep
  <2>2. rp'.tid = got[v] /\ rp'.vk = rp.vk /\ rp'.isk = rp.isk /\ rp'.sigma = rp.sigma
        /\ rp'.sigmaBar = rp.sigmaBar
    BY <1>0, <2>1 DEF RPs
  <2>3. Ready => Ready'
    BY <2>1, <2>2 DEF Ready, Secret, SettledSigma, SettledBar
  <2>4. Alone'
    BY <1>0, <2>1, StillAlone
  <2>5. \A w \in clean : w # v => RunOK(w)'
    BY <1>0, <2>1, <2>3, OthersOK
  <2>6. ASSUME v \in clean' PROVE RunOK(v)'
    <3>1. Ready /\ Enrolled(got[v]) /\ load.at = "none"
      BY <2>1, <2>6 DEF Progress, RunOK
    <3>2. Enrolled(got[v])' /\ SettledTid' = got'[v]
      BY <2>1, <2>2, <3>1 DEF Enrolled, Record, SettledTid
    <3> QED
      BY <2>1, <2>3, <3>1, <3>2, Stage DEF RunOK
  <2> QED
    BY <2>1, <2>4, <2>5, <2>6 DEF Progress
<1>3. CASE SaveRegistration(v)
  <2>1. /\ v \in Executing /\ pc[v] = "named" /\ Moves(v, "done") /\ pc'[v] = "done"
        /\ clean' = clean \ {v} /\ UNCHANGED <<rp, load, ikey>> /\ load.at = "none"
    BY <1>0, <1>3, Stage, MovesType DEF SaveRegistration
  <2>2. Alone'
    BY <1>0, <2>1, StillAlone
  <2>3. Ready => Ready'
    BY <2>1 DEF Ready, Secret, SettledSigma, SettledBar
  <2>4. \A w \in clean : w # v => RunOK(w)'
    BY <1>0, <2>1, <2>3, OthersOK
  <2> QED
    BY <2>1, <2>2, <2>4 DEF Progress
<1> QED
  BY <1>1, <1>2, <1>3

LEMMA RunsNext ==
  ASSUME IInv, NEW v \in Runs,
         \/ AskIdP(v) \/ IdPIssues(v)
         \/ EmptySigma(v) \/ StoreSigma(v) \/ EmptySigmaBar(v) \/ StoreBlinded(v)
         \/ ReadBlinded(v) \/ StoreUnblinded(v) \/ VerifySigma(v) \/ VerifySigmaBar(v)
         \/ PostToBroker(v) \/ BrokerEnrols(v) \/ TakeTid(v) \/ SaveRegistration(v)
  PROVE  Alone' /\ Progress'
  BY AsksNext, GetCredentialNext, PostsNext, BrokerNext

\* A load that brings back what the memory holds leaves the runs that have assembled
\* their credentials undisturbed; any other disturbs them.
LEMMA LoadBeginsNext ==
  ASSUME IInv, NEW by, LoadBegins(by), UNCHANGED <<pc, asked, hat, posted, got, regFile, ikey, table, file>>
  PROVE  Alone' /\ Progress'
<1> USE DEF IInv
<1>0. /\ rp \in RPs /\ regFile \in FileRecord /\ load.at = "none" /\ load'.at = "sigma"
      /\ rp'.isk = rp.isk /\ rp'.vk = rp.vk /\ rp'.sigmaBar = rp.sigmaBar /\ rp'.tid = rp.tid
      /\ rp'.sigma = IF regFile.sigma = Unset THEN rp.sigma ELSE Empty
  BY LoadingType DEF TypeOK, RPs, LoadBegins
<1>1. CASE Loaded(rp, regFile) # rp
  <2>1. clean' \subseteq clean \ Active
    BY <1>1 DEF LoadBegins
  <2> QED
    BY <2>1, InactiveOK
<1>2. CASE Loaded(rp, regFile) = rp
  <2>1. clean' = clean \ {w \in Runs : pc[w] \in Assembling}
    BY <1>2 DEF LoadBegins
  <2>2. /\ rp.sigma = IF regFile.sigma = Unset THEN rp.sigma ELSE regFile.sigma
        /\ rp.sigmaBar = IF regFile.sigmaBar = UnsetBar THEN rp.sigmaBar ELSE regFile.sigmaBar
        /\ rp.tid = IF regFile.tid = NoTid THEN rp.tid ELSE regFile.tid
    BY <1>0, <1>2, LoadedType
  <2>3. SettledSigma' = SettledSigma /\ SettledBar' = SettledBar /\ SettledTid' = SettledTid
    BY <1>0, <2>2 DEF SettledSigma, SettledBar, SettledTid
  <2>4. (Ready => Ready') /\ UNCHANGED <<Record, Secret>>
    BY <1>0, <2>3 DEF Ready, Secret, Record
  <2>5. \A t : Enrolled(t) => Enrolled(t)'
    BY <2>4 DEF Enrolled
  <2> SUFFICES ASSUME NEW w \in clean' PROVE AloneRun(w)' /\ RunOK(w)'
    BY DEF Alone, Progress
  <2>6. w \in clean /\ w \in Runs /\ pc[w] \notin Assembling /\ RunOK(w)
    BY <2>1 DEF TypeOK, Progress
  <2>7. AloneRun(w)'
    BY <2>6 DEF Alone, AloneRun, Executing, Active
  <2>8. pc'[w] \notin Assembling /\ pc'[w] \notin Assembling \ {"emptied"}
        /\ pc'[w] \notin {"blinded", "unblinding", "unblinded", "checked"}
    BY <2>6, Stage
  <2>9. RunOK(w)'
    BY <1>0, <2>3, <2>4, <2>5, <2>6, <2>8 DEF RunOK
  <2> QED
    BY <2>7, <2>9
<1> QED
  BY <1>1, <1>2

\* The later stages of a load take the memory where it was going to be.
LEMMA LoadGoesOn ==
  ASSUME IInv, LoadSigma \/ LoadSigmaBar
  PROVE  Alone' /\ Progress'
<1> USE DEF IInv, runVars, brokerVars, ghostVars
<1>0. /\ load.at # "none" /\ rp'.isk = rp.isk /\ rp'.vk = rp.vk
      /\ UNCHANGED <<pc, asked, hat, posted, got, regFile, ikey, table, file, clean>>
  BY LoadingType DEF LoadSigma, LoadSigmaBar
<1>1. SettledBar' = SettledBar /\ SettledTid' = SettledTid
  <2>1. CASE LoadSigma
    <3>1. /\ load.at = "sigma" /\ load'.at = "sigmaBar" /\ rp'.tid = rp.tid
          /\ rp'.sigmaBar = IF regFile.sigmaBar = UnsetBar THEN rp.sigmaBar ELSE EmptyBar
      BY <2>1, LoadingType DEF LoadSigma, TypeOK, Loads
    <3> QED
      BY <1>0, <3>1 DEF SettledBar, SettledTid
  <2>2. CASE LoadSigmaBar
    <3>1. /\ load'.at = "none"
          /\ rp'.sigmaBar = IF regFile.sigmaBar = UnsetBar THEN rp.sigmaBar ELSE regFile.sigmaBar
          /\ rp'.tid = IF regFile.tid = NoTid THEN rp.tid ELSE regFile.tid
      BY <2>2, LoadingType DEF LoadSigmaBar, NoLoad
    <3> QED
      BY <1>0, <3>1 DEF SettledBar, SettledTid
  <2> QED
    BY <2>1, <2>2
<1>2. Ready => SettledSigma' = ikey /\ (load'.at = "sigmaBar" => rp'.sigma = ikey)
  <2>1. CASE LoadSigma
    <3>1. /\ load'.at = "sigmaBar"
          /\ rp'.sigma = IF regFile.sigma = Unset THEN rp.sigma ELSE regFile.sigma
      BY <2>1, LoadingType DEF LoadSigma, TypeOK, Loads
    <3> QED
      BY <1>0, <3>1 DEF Ready, SettledSigma
  <2>2. CASE LoadSigmaBar
    <3>1. load.at = "sigmaBar" /\ load'.at = "none" /\ rp'.sigma = rp.sigma
      BY <2>2, LoadingType DEF LoadSigmaBar, NoLoad
    <3> QED
      BY <1>0, <3>1 DEF Ready, SettledSigma
  <2> QED
    BY <2>1, <2>2
<1>3. (Ready => Ready') /\ UNCHANGED <<Record, Secret>>
  BY <1>0, <1>1, <1>2 DEF Ready, Secret, Record
<1>4. \A t : Enrolled(t) => Enrolled(t)'
  BY <1>0, <1>3 DEF Enrolled
<1> SUFFICES ASSUME NEW w \in clean PROVE AloneRun(w)' /\ RunOK(w)'
  BY <1>0 DEF Alone, Progress
<1>5. w \in Runs /\ RunOK(w) /\ pc[w] \notin Assembling
  BY <1>0 DEF TypeOK, Progress, RunOK
<1>6. AloneRun(w)'
  BY <1>0 DEF Alone, AloneRun, Executing, Active
<1>7. pc'[w] \notin Assembling /\ pc'[w] \notin Assembling \ {"emptied"}
      /\ pc'[w] \notin {"blinded", "unblinding", "unblinded", "checked"}
  BY <1>0, <1>5, Stage
<1>8. RunOK(w)'
  BY <1>0, <1>1, <1>3, <1>4, <1>5, <1>7 DEF RunOK
<1> QED
  BY <1>6, <1>8

LEMMA LoginRunsNext ==
  ASSUME IInv, LoadStep \/ LoginStep
  PROVE  Alone' /\ Progress'
<1> USE DEF IInv, runVars, rpVars, brokerVars, ghostVars
<1>1. ASSUME NothingToLoad, UNCHANGED <<pc, asked, hat, posted, got, regFile, ikey, table, file>>
      PROVE  Alone' /\ Progress'
  <2>1. \A t : Enrolled(t) => Enrolled(t)'
    BY <1>1 DEF Enrolled, Record, NothingToLoad
  <2> QED
    BY <1>1, <2>1, UnchangedOK DEF NothingToLoad
<1>2. CASE StatusPage
  BY <1>1, <1>2, LoadBeginsNext DEF StatusPage
<1>3. ASSUME NEW l \in Logins, StartLogin(l) PROVE Alone' /\ Progress'
  BY <1>1, <1>3, LoadBeginsNext DEF StartLogin
<1>4. ASSUME NEW l \in Logins, RedirectToBroker(l) \/ Authorize(l) \/ Prove(l)
      PROVE  Alone' /\ Progress'
  <2>1. UNCHANGED <<pc, asked, hat, posted, got, rp, regFile, load, ikey, clean, table, file>>
    BY <1>4 DEF RedirectToBroker, Authorize, Prove
  <2>2. \A t : Enrolled(t) => Enrolled(t)'
    BY <2>1 DEF Enrolled, Record
  <2> QED
    BY <2>1, <2>2, UnchangedOK
<1> QED
  BY <1>2, <1>3, <1>4, LoadGoesOn DEF LoadStep, LoginStep

LEMMA FaultRunsNext == IInv /\ FaultStep => Alone' /\ Progress'
<1> SUFFICES ASSUME IInv, FaultStep PROVE Alone' /\ Progress'
  OBVIOUS
<1> USE DEF IInv, runVars, rpVars, brokerVars
<1>1. ASSUME NEW isk, RPStartsAgain(isk) PROVE Alone' /\ Progress'
  <2>1. clean' \subseteq clean \ Active
    BY <1>1 DEF RPStartsAgain
  <2>2. \A w \in Runs \ Active : pc'[w] = pc[w]
    BY <1>1 DEF RPStartsAgain, Active
  <2> QED
    BY <2>1, <2>2, InactiveOK
<1>2. CASE \/ RPRestart \/ RPLosesFile \/ (\E l \in Logins : RPLosesKeys(l))
           \/ \E w \in Runs : UnblindPanics(w)
  BY <1>1, <1>2 DEF RPRestart, RPLosesKeys, RPLosesFile, UnblindPanics
<1>3. CASE IdPLosesKeys
  BY <1>3, InactiveOK DEF IdPLosesKeys
<1>4. CASE BrokerRestart
  <2>1. \A t : Enrolled(t) => Enrolled(t)'
    BY <1>4 DEF BrokerRestart, Enrolled, Record
  <2> QED
    BY <1>4, <2>1, UnchangedOK DEF BrokerRestart
<1>5. ASSUME NEW v \in Runs,
             \/ IdPCallFails(v) \/ BrokerCallFails(v) \/ BrokerLosesFile(v)
             \/ SaveFails(v) \/ BrokerSaveFails(v)
      PROVE  Alone' /\ Progress'
  <2>1. /\ pc[v] \in {"asked", "issued", "posted", "enrolled", "named"} /\ v \in Executing
        /\ UNCHANGED <<rp, load, ikey>> /\ (load.at = "none" \/ regFile' = regFile)
        /\ clean' \subseteq clean
    BY <1>5, Stage DEF IdPCallFails, BrokerCallFails, BrokerLosesFile, SaveFails, BrokerSaveFails
  <2>2. PICK to \in {"failed", "verified", "done", "enrolled"} :
          /\ Moves(v, to)
          /\ to = "verified" => pc[v] \in {"posted", "enrolled"}
          /\ to = "enrolled" => v \notin clean'
    BY <1>5 DEF IdPCallFails, BrokerCallFails, BrokerLosesFile, SaveFails, BrokerSaveFails,
                AfterBrokerFailure
  <2>3. to \in Stages \ {"idle"} /\ to \notin InExchange /\ pc'[v] = to
    BY <2>2, MovesType, Stage DEF Stages
  <2>4. Ready => Ready'
    BY <2>1 DEF Ready, Secret, SettledSigma, SettledBar
  <2>5. Alone'
    BY <2>1, <2>2, <2>3, StillAlone
  <2>6. \A w \in clean : w # v => RunOK(w)'
    BY <2>1, <2>2, <2>3, <2>4, OthersOK
  <2>7. ASSUME v \in clean' PROVE RunOK(v)'
    <3>1. pc'[v] \in {"failed", "verified", "done"} /\ (pc'[v] = "verified" => Ready')
      BY <2>1, <2>2, <2>3, <2>4, <2>7 DEF Progress, RunOK
    <3> QED
      BY <3>1, Stage DEF RunOK
  <2> QED
    BY <2>1, <2>5, <2>6, <2>7 DEF Progress
<1> QED
  BY <1>2, <1>3, <1>4, <1>5 DEF FaultStep

(***************************************************************************)
(* What the servers keep, and the logins that use it.                      *)
(***************************************************************************)

\* Whatever holds the same keys and records still serves the registration.
LEMMA StillGood ==
  ASSUME Sound, sound' => sound /\ regFile' = regFile, UNCHANGED ikey,
         rp'.isk = rp.isk, rp'.vk \in {rp.vk, ikey},
         \A t : sound' /\ Enrolled(t) => Enrolled(t)'
  PROVE  Sound'
<1> SUFFICES ASSUME sound' PROVE Good'
  BY DEF Sound
<1>1. Good
  BY DEF Sound
<1>2. PICK t : t = regFile.tid
  OBVIOUS
<1>3. Enrolled(t)' /\ regFile'.tid = t
  BY <1>1, <1>2 DEF Good
<1>4. Enrolled(regFile.tid)'
  BY <1>3
<1> QED
  BY <1>1, <1>4 DEF Good, Secret

\* A registration that is added takes a tid of its own, in the file too unless the
\* write of it fails.
LEMMA EnrolsKept ==
  ASSUME IInv, NEW v \in Runs, BrokerEnrols(v) \/ BrokerSaveFails(v)
  PROVE  FreshTids' /\ \A t : sound' /\ Enrolled(t) => Enrolled(t)'
<1>1. /\ IsTable(table) /\ IsTable(file) /\ nextTid \in Nat \ {NoTid} /\ posted[v] \in BrokerRecord
      /\ FreshTids
  BY DEF IInv, TypeOK
<1>2. PICK n \in Nat \ {NoTid} : n = nextTid
  BY <1>1
<1>3. /\ table' = Enrol(table, n, posted[v]) /\ nextTid' = n + 1 /\ UNCHANGED <<rp, ikey>>
      /\ file' = Enrol(file, n, posted[v]) \/ file' = file \/ (file' = NoRecords /\ ~sound')
  <2>1. CASE BrokerEnrols(v)
    BY <1>2, <2>1 DEF BrokerEnrols, rpVars
  <2>2. CASE BrokerSaveFails(v)
    <3>1. /\ file' \in {file, NoRecords}
          /\ sound' => file' = file
          /\ table' = Enrol(table, n, posted[v]) /\ nextTid' = n + 1 /\ UNCHANGED <<rp, ikey>>
      BY <1>2, <2>2 DEF BrokerSaveFails, LeftOf, rpVars
    <3> QED
      BY <3>1
  <2> QED
    BY <2>1, <2>2
<1>4. ASSUME NEW f, IsTable(f)
      PROVE  /\ DOMAIN Enrol(f, n, posted[v]) = DOMAIN f \cup {n}
             /\ \A u \in DOMAIN f \ {n} : Enrol(f, n, posted[v])[u] = f[u]
  BY ONLY TRUE DEF Enrol
<1>5. /\ DOMAIN table' = DOMAIN table \cup {n} /\ \A u \in DOMAIN table \ {n} : table'[u] = table[u]
      /\ DOMAIN table \subseteq Nat
  BY <1>1, <1>3, <1>4 DEF IsTable
<1>6. /\ DOMAIN file' \subseteq DOMAIN file \cup {n} /\ DOMAIN file \subseteq Nat
      /\ sound' => /\ DOMAIN file \subseteq DOMAIN file'
                   /\ \A u \in DOMAIN file \ {n} : file'[u] = file[u]
  <2>1. CASE file' = Enrol(file, n, posted[v])
    BY <1>1, <1>4, <2>1 DEF IsTable
  <2>2. CASE file' = file
    BY <1>1, <2>2 DEF IsTable
  <2>3. CASE file' = NoRecords /\ ~sound'
    BY <1>1, <2>3 DEF IsTable, NoRecords
  <2> QED
    BY <1>3, <2>1, <2>2, <2>3
<1>7. ikey > Empty /\ \A t \in DOMAIN table \cup DOMAIN file : t < n
  BY <1>1, <1>2 DEF FreshTids
<1>8. \A t \in DOMAIN table' \cup DOMAIN file' : t < n + 1
  BY <1>2, <1>5, <1>6, <1>7
<1>9. FreshTids'
  BY <1>3, <1>7, <1>8 DEF FreshTids
<1>10. ASSUME NEW t, sound', Enrolled(t) PROVE Enrolled(t)'
  <2>1. t \in DOMAIN table /\ t \in DOMAIN file /\ t # n
    BY <1>2, <1>5, <1>7, <1>10 DEF Enrolled
  <2> QED
    BY <1>3, <1>5, <1>6, <1>10, <2>1 DEF Enrolled, Record
<1> QED
  BY <1>9, <1>10

\* Steps that touch neither the broker's records nor anybody's keys.
LEMMA KeepsAll ==
  ASSUME IInv, UNCHANGED <<ikey, table, file, nextTid>>, sound' => sound /\ regFile' = regFile,
         rp'.isk = rp.isk, rp'.vk \in {rp.vk, ikey}
  PROVE  FreshTids' /\ Sound'
<1>1. \A t : Enrolled(t) => Enrolled(t)'
  BY DEF Enrolled, Record
<1> QED
  BY <1>1, StillGood DEF IInv, FreshTids

LEMMA RunsKeep ==
  ASSUME IInv, NEW v \in Runs,
         \/ AskIdP(v) \/ IdPIssues(v)
         \/ EmptySigma(v) \/ StoreSigma(v) \/ EmptySigmaBar(v) \/ StoreBlinded(v)
         \/ ReadBlinded(v) \/ StoreUnblinded(v) \/ VerifySigma(v) \/ VerifySigmaBar(v)
         \/ PostToBroker(v) \/ BrokerEnrols(v) \/ TakeTid(v) \/ SaveRegistration(v)
  PROVE  FreshTids' /\ Sound'
<1> USE DEF rpVars, brokerVars, ghostVars
<1>0. rp \in RPs /\ IInv
  BY DEF IInv, TypeOK, RPs
<1>1. CASE AskIdP(v) \/ IdPIssues(v) \/ PostToBroker(v)
  <2>1. UNCHANGED <<regFile, ikey, table, file, nextTid, sound, rp>>
    BY <1>1 DEF AskIdP, IdPIssues, PostToBroker
  <2> QED
    BY <2>1, KeepsAll
<1>2. ASSUME NEW from, NEW to, NEW r, HandlerStep(v, from, to, r), r.isk = rp.isk, r.vk = rp.vk
      PROVE  FreshTids' /\ Sound'
  BY <1>2, KeepsAll DEF HandlerStep
<1>3. CASE \/ EmptySigma(v) \/ StoreSigma(v) \/ EmptySigmaBar(v) \/ StoreBlinded(v)
           \/ StoreUnblinded(v) \/ TakeTid(v)
  BY <1>0, <1>2, <1>3 DEF EmptySigma, StoreSigma, EmptySigmaBar, StoreBlinded, StoreUnblinded, TakeTid,
                          CredentialStep, RPs
<1>4. CASE ReadBlinded(v) \/ VerifySigma(v) \/ VerifySigmaBar(v)
  BY <1>2, <1>4 DEF ReadBlinded, VerifySigma, VerifySigmaBar, CredentialStep
<1>5. CASE BrokerEnrols(v)
  <2>1. UNCHANGED <<regFile, ikey, sound, rp>>
    BY <1>5 DEF BrokerEnrols
  <2>2. FreshTids' /\ \A t : sound' /\ Enrolled(t) => Enrolled(t)'
    BY <1>5, EnrolsKept
  <2> QED
    BY <1>0, <2>1, <2>2, StillGood DEF IInv
<1>6. CASE SaveRegistration(v)
  <2>1. /\ UNCHANGED <<ikey, table, file, nextTid, rp>> /\ pc[v] = "named" /\ load.at = "none"
        /\ regFile' = [tid |-> rp.tid, sigma |-> rp.sigma, sigmaBar |-> rp.sigmaBar]
        /\ sound' => v \in clean
    BY <1>6 DEF SaveRegistration
  <2>2. FreshTids'
    BY <1>0, <2>1 DEF IInv, FreshTids
  <2>3. ASSUME v \in clean PROVE Good'
    <3>1. Ready /\ Enrolled(got[v]) /\ SettledTid = got[v]
      BY <1>0, <2>1, <2>3 DEF IInv, Progress, RunOK
    <3>2. rp.vk = ikey /\ rp.sigmaBar = Secret /\ rp.tid = got[v]
      BY <2>1, <3>1 DEF Ready, SettledBar, SettledTid
    <3>3. PICK t : t = rp.tid
      OBVIOUS
    <3>4. Enrolled(t)' /\ regFile'.tid = t
      BY <2>1, <3>1, <3>2, <3>3 DEF Enrolled, Record
    <3>5. Enrolled(regFile.tid)'
      BY <3>4
    <3> QED
      BY <2>1, <3>2, <3>5 DEF Good, Secret
  <2> QED
    BY <2>1, <2>2, <2>3 DEF Sound
<1> QED
  BY <1>1, <1>3, <1>4, <1>5, <1>6

LEMMA LoginsKeep ==
  ASSUME IInv, LoadStep \/ LoginStep
  PROVE  FreshTids' /\ Sound'
<1>1. TypeOK
  BY DEF IInv
<1>2. UNCHANGED <<regFile, ikey, table, file, nextTid, sound>>
  BY DEF LoadStep, LoginStep, StatusPage, LoadSigma, LoadSigmaBar, StartLogin, RedirectToBroker,
         Authorize, Prove, rpVars, brokerVars, ghostVars
<1>3. (\E by : LoadBegins(by)) \/ LoadSigma \/ LoadSigmaBar \/ rp' = rp
  BY DEF LoadStep, LoginStep, StatusPage, StartLogin, NothingToLoad, RedirectToBroker, Authorize,
         Prove, rpVars
<1>4. rp'.isk = rp.isk /\ rp'.vk = rp.vk
  BY <1>1, <1>3, LoadingType
<1> QED
  BY <1>2, <1>4, KeepsAll

LEMMA FaultsKeep ==
  ASSUME IInv, FaultStep
  PROVE  FreshTids' /\ Sound'
<1> USE DEF runVars, rpVars, brokerVars, ghostVars
<1>0. TypeOK /\ FreshTids /\ Sound
  BY DEF IInv
<1>1. ASSUME RPRestart \/ \E v \in Runs : UnblindPanics(v) PROVE FreshTids' /\ Sound'
  <2>1. UNCHANGED <<regFile, sound>> /\ RPStartsAgain(rp.isk) /\ rp.isk \in Nat /\ regFile' \in FileRecord
    BY <1>0, <1>1 DEF RPRestart, UnblindPanics, TypeOK
  <2>2. rp'.isk = rp.isk /\ rp'.vk = ikey /\ UNCHANGED <<ikey, table, file, nextTid>>
    BY <1>0, <2>1, RPStartsType
  <2> QED
    BY <2>1, <2>2, KeepsAll
<1>2. CASE RPLosesFile \/ \E l \in Logins : RPLosesKeys(l)
  BY <1>0, <1>2 DEF RPLosesKeys, RPLosesFile, RPStartsAgain, FreshTids, Sound
<1>3. CASE IdPLosesKeys
  <2>1. ikey' = ikey + 1 /\ ikey \in Nat /\ ~sound' /\ UNCHANGED <<table, file, nextTid>>
    BY <1>0, <1>3 DEF IdPLosesKeys, TypeOK
  <2> QED
    BY <1>0, <2>1 DEF FreshTids, Sound, Empty
<1>4. CASE BrokerRestart
  <2>1. UNCHANGED <<regFile, ikey, sound, rp, file, nextTid>> /\ table' = file
    BY <1>4 DEF BrokerRestart
  <2>2. \A t : Enrolled(t) => Enrolled(t)'
    BY <2>1 DEF Enrolled, Record
  <2> QED
    BY <1>0, <2>1, <2>2, StillGood DEF FreshTids
<1>5. ASSUME NEW v \in Runs, IdPCallFails(v) \/ BrokerCallFails(v) \/ SaveFails(v)
      PROVE  FreshTids' /\ Sound'
  <2>1. CASE IdPCallFails(v) \/ BrokerCallFails(v)
    <3>1. UNCHANGED <<ikey, rp, regFile, table, file, nextTid, sound>>
      BY <2>1 DEF IdPCallFails, BrokerCallFails
    <3> QED
      BY <3>1, KeepsAll
  <2>2. CASE SaveFails(v)
    <3>1. UNCHANGED <<ikey, rp, table, file, nextTid>> /\ (sound' => sound /\ regFile' = regFile)
      BY <2>2 DEF SaveFails
    <3> QED
      BY <3>1, KeepsAll
  <2> QED
    BY <1>5, <2>1, <2>2
<1>6. ASSUME NEW v \in Runs, BrokerSaveFails(v) PROVE FreshTids' /\ Sound'
  <2>1. UNCHANGED <<regFile, ikey, rp>> /\ (sound' => sound)
    BY <1>6 DEF BrokerSaveFails
  <2>2. FreshTids' /\ \A t : sound' /\ Enrolled(t) => Enrolled(t)'
    BY <1>6, EnrolsKept
  <2> QED
    BY <1>0, <2>1, <2>2, StillGood
<1>7. ASSUME NEW v \in Runs, BrokerLosesFile(v) PROVE FreshTids' /\ Sound'
  <2>1. ikey' = ikey /\ ~sound' /\ DOMAIN table' = {} /\ DOMAIN file' = {}
    BY <1>7 DEF BrokerLosesFile, NoRecords
  <2> QED
    BY <1>0, <2>1 DEF FreshTids, Sound
<1> QED
  BY <1>1, <1>2, <1>3, <1>4, <1>5, <1>6, <1>7 DEF FaultStep

LEMMA RunsCalm ==
  ASSUME IInv, NEW v \in Runs,
         \/ AskIdP(v) \/ IdPIssues(v)
         \/ EmptySigma(v) \/ StoreSigma(v) \/ EmptySigmaBar(v) \/ StoreBlinded(v)
         \/ ReadBlinded(v) \/ StoreUnblinded(v) \/ VerifySigma(v) \/ VerifySigmaBar(v)
         \/ PostToBroker(v) \/ BrokerEnrols(v) \/ TakeTid(v) \/ SaveRegistration(v)
  PROVE  Calm'
<1>1. CASE AskIdP(v) \/ PostToBroker(v) \/ SaveRegistration(v)
  <2>1. calm' = {}
    BY <1>1 DEF AskIdP, PostToBroker, SaveRegistration
  <2> QED
    BY <2>1 DEF Calm
<1>2. CASE \/ IdPIssues(v)
           \/ EmptySigma(v) \/ StoreSigma(v) \/ EmptySigmaBar(v) \/ StoreBlinded(v)
           \/ ReadBlinded(v) \/ StoreUnblinded(v) \/ VerifySigma(v) \/ VerifySigmaBar(v)
           \/ BrokerEnrols(v) \/ TakeTid(v)
  <2>1. calm' = calm /\ pc[v] \in {"asked", "issued", "emptied", "stored", "cleared", "blinded",
                                   "unblinding", "unblinded", "checked", "posted", "enrolled"}
    BY <1>2 DEF IdPIssues, EmptySigma, StoreSigma, EmptySigmaBar, StoreBlinded, ReadBlinded,
                StoreUnblinded, VerifySigma, VerifySigmaBar, BrokerEnrols, TakeTid, CredentialStep,
                HandlerStep, ghostVars
  <2>2. v \in Executing
    BY <2>1, Stage
  <2>3. calm = {}
    BY <2>2 DEF IInv, Calm, LoginOK
  <2> QED
    BY <2>1, <2>3 DEF Calm
<1> QED
  BY <1>1, <1>2

\* A load begins for somebody else.
LEMMA LoadBeginsCalm ==
  ASSUME IInv, NEW by, LoadBegins(by) \/ NothingToLoad, UNCHANGED <<regFile, ikey, pc, sound>>,
         NEW l \in calm, l # by, login'[l] = login[l]
  PROVE  LoginOK(l)'
<1>1. LoginOK(l) /\ TypeOK
  BY DEF IInv, Calm
<1>2. rp'.tid = rp.tid /\ rp'.sigmaBar = rp.sigmaBar
  BY <1>1, LoadingType DEF NothingToLoad
<1>3. load.at = "none" /\ (load' = load \/ load' = [at |-> "sigma", by |-> by])
  BY DEF LoadBegins, NothingToLoad
<1>4. Executing' = {}
  BY <1>1 DEF LoginOK, Executing
<1> QED
  BY <1>1, <1>2, <1>3, <1>4 DEF LoginOK

LEMMA LoadsCalm ==
  ASSUME IInv, LoadStep
  PROVE  Calm'
<1> USE DEF runVars, brokerVars, ghostVars
<1>0. /\ TypeOK /\ UNCHANGED <<regFile, ikey, pc, sound, calm>>
      /\ \A l \in calm : LoginOK(l) /\ l \in Logins
  BY DEF IInv, Calm, TypeOK, LoadStep, StatusPage, LoadSigma, LoadSigmaBar
<1> SUFFICES ASSUME NEW l \in calm PROVE LoginOK(l)'
  BY <1>0 DEF Calm
<1>1. LoginOK(l) /\ l \in Logins /\ Executing' = {}
  BY <1>0 DEF LoginOK, Executing
<1>2. CASE StatusPage
  BY <1>0, <1>1, <1>2, LoginAssumption, LoadBeginsCalm DEF StatusPage
<1>3. CASE LoadSigma
  <2>1. rp'.tid = rp.tid /\ load.at = "sigma" /\ load'.at = "sigmaBar" /\ load'.by = load.by
        /\ login' = login
    BY <1>0, <1>3, LoadingType DEF LoadSigma, TypeOK, Loads
  <2> QED
    BY <1>0, <1>1, <2>1 DEF LoginOK
<1>4. CASE LoadSigmaBar
  <2>1. regFile.tid # NoTid /\ regFile.sigmaBar # UnsetBar
    BY <1>1, GoodFile DEF IInv, Sound, LoginOK
  <2>2. /\ load.at = "sigmaBar" /\ load'.at = "none"
        /\ rp'.tid = regFile.tid /\ rp'.sigmaBar = regFile.sigmaBar
        /\ login'[l] = IF l = load.by THEN [login[l] EXCEPT !.at = "loaded"] ELSE login[l]
    BY <1>0, <1>1, <1>4, <2>1, LoadingType DEF LoadSigmaBar, NoLoad
  <2>3. login'[l].at = (IF l = load.by THEN "loaded" ELSE login[l].at)
        /\ login'[l].tid = login[l].tid /\ login'[l].sigma = login[l].sigma
    BY <1>0, <1>1, <2>2 DEF TypeOK
  <2>4. l = load.by <=> login[l].at = "loading"
    BY <1>1, <2>2 DEF LoginOK
  <2> QED
    BY <1>0, <1>1, <2>2, <2>3, <2>4 DEF LoginOK
<1> QED
  BY <1>2, <1>3, <1>4 DEF LoadStep

LEMMA LoginsCalm ==
  ASSUME IInv, LoginStep
  PROVE  Calm'
<1> USE DEF runVars, rpVars, brokerVars, ghostVars
<1>0. TypeOK /\ FreshTids /\ Sound /\ \A l \in calm : LoginOK(l) /\ l \in Logins
  BY DEF IInv, Calm, TypeOK
<1>1. UNCHANGED <<regFile, ikey, pc, sound>> /\ Executing' = Executing
  BY DEF LoginStep, StartLogin, RedirectToBroker, Authorize, Prove, Executing
<1>2. ASSUME NEW k \in Logins, StartLogin(k) PROVE Calm'
  <2>1. /\ login[k].at = "idle"
        /\ LoadBegins(k) \/ NothingToLoad
        /\ \A l \in Logins \ {k} : login'[l] = login[l]
        /\ \A l \in calm' : l \in calm \/ (l = k /\ sound /\ Executing = {})
    BY <1>0, <1>2 DEF StartLogin, TypeOK
  <2>2. ASSUME NEW l \in calm PROVE LoginOK(l)'
    <3>1. LoginOK(l) /\ l \in Logins
      BY <1>0
    <3>2. l # k
      BY <2>1, <3>1 DEF LoginOK
    <3> QED
      BY <1>1, <2>1, <3>1, <3>2, LoadBeginsCalm
  <2>3. ASSUME sound, Executing = {} PROVE LoginOK(k)'
    <3>1. regFile # NoFile
      BY <1>0, <2>3, GoodFile DEF Sound
    <3>2. LoadBegins(k) /\ login' = [login EXCEPT ![k].at = "loading"]
      BY <1>2, <3>1 DEF StartLogin, NothingToLoad
    <3>3. load' = [at |-> "sigma", by |-> k] /\ login'[k].at = "loading"
      BY <1>0, <3>2 DEF LoadBegins, TypeOK
    <3> QED
      BY <1>1, <2>3, <3>3 DEF LoginOK
  <2> QED
    BY <2>1, <2>2, <2>3 DEF Calm
<1>3. ASSUME NEW k \in Logins, RedirectToBroker(k) \/ Authorize(k) \/ Prove(k) PROVE Calm'
  <2>1. /\ UNCHANGED <<rp, load>> /\ calm' \subseteq calm
        /\ \A l \in Logins \ {k} : login'[l] = login[l]
    BY <1>0, <1>3 DEF RedirectToBroker, Authorize, Prove, TypeOK
  <2>2. ASSUME NEW l \in calm, l # k PROVE LoginOK(l)'
    BY <1>0, <1>1, <2>1, <2>2 DEF LoginOK
  <2>3. ASSUME k \in calm' PROVE LoginOK(k)'
    <3>1. LoginOK(k) /\ Good
      BY <1>0, <2>1, <2>3 DEF LoginOK, Sound
    <3>2. CASE RedirectToBroker(k)
      <4>1. /\ login[k].at = "loaded" /\ login'[k].at = "started" /\ login'[k].tid = rp.tid
        BY <1>0, <3>2 DEF RedirectToBroker, TypeOK
      <4> QED
        BY <1>1, <2>1, <3>1, <4>1 DEF LoginOK
    <3>3. CASE Authorize(k)
      <4>1. login[k].at = "started" /\ login[k].tid = regFile.tid
        BY <3>1, <3>3 DEF Authorize, LoginOK
      <4>2. Randomizable(login[k].tid) /\ table[login[k].tid].sigma = ikey
        BY <1>0, <3>1, <4>1 DEF Good, Enrolled, Record, Randomizable, FreshTids, Empty
      <4>3. login' = [login EXCEPT ![k] = [at |-> "authorized", tid |-> login[k].tid,
                                           sigma |-> table[login[k].tid].sigma]]
        BY <3>3, <4>2 DEF Authorize
      <4>4. login'[k] = [at |-> "authorized", tid |-> login[k].tid, sigma |-> ikey] /\ ikey' = ikey
        BY <1>0, <3>3, <4>2, <4>3 DEF TypeOK, Authorize
      <4> QED
        BY <1>1, <2>1, <3>1, <4>1, <4>4 DEF LoginOK
    <3>4. CASE Prove(k)
      <4>1. login[k].at = "authorized" /\ login[k].sigma = ikey /\ load.at # "sigmaBar"
        BY <2>3, <3>1, <3>4 DEF Prove, LoginOK
      <4>2. ProofAccepted(login[k].sigma, rp.sigmaBar)
        BY <1>0, <3>1, <4>1 DEF Good, Secret, LoginOK, ProofAccepted, SigmaVerifies, SigmaBarVerifies
      <4>3. login'[k].at = "accepted"
        BY <1>0, <3>4, <4>2 DEF Prove, TypeOK
      <4> QED
        BY <1>1, <2>1, <3>1, <4>1, <4>3 DEF LoginOK
    <3> QED
      BY <1>3, <3>2, <3>3, <3>4
  <2> QED
    BY <2>1, <2>2, <2>3 DEF Calm
<1> QED
  BY <1>2, <1>3 DEF LoginStep

LEMMA FaultsCalm == FaultStep => Calm'
<1> SUFFICES ASSUME FaultStep PROVE calm' = {}
  BY DEF Calm
<1> QED
  BY DEF FaultStep, RPRestart, RPLosesKeys, RPLosesFile, IdPLosesKeys, BrokerRestart, IdPCallFails,
         BrokerCallFails, SaveFails, BrokerSaveFails, UnblindPanics, BrokerLosesFile, Fault

LEMMA Stutters == IInv /\ UNCHANGED vars => IInv'
<1> SUFFICES ASSUME IInv, UNCHANGED vars PROVE IInv'
  OBVIOUS
<1> USE DEF vars, runVars, rpVars, brokerVars, ghostVars
<1>1. FreshTids' /\ Sound'
  BY KeepsAll
<1>2. \A t : Enrolled(t) => Enrolled(t)'
  BY DEF Enrolled, Record
<1>3. Alone' /\ Progress'
  BY <1>2, UnchangedOK DEF IInv
<1>4. Calm'
  BY DEF IInv, Calm, LoginOK, Executing
<1> QED
  BY <1>1, <1>3, <1>4, NextType DEF IInv

LEMMA StepIInv == IInv /\ [Next]_vars => IInv'
<1> SUFFICES ASSUME IInv, Next PROVE IInv'
  BY Stutters
<1>0. TypeOK'
  BY NextType DEF IInv
<1>1. CASE RegistrationStep
  BY <1>0, <1>1, RunsNext, RunsKeep, RunsCalm DEF RegistrationStep, IInv
<1>2. CASE LoadStep \/ LoginStep
  <2>1. Alone' /\ Progress'
    BY <1>2, LoginRunsNext
  <2>2. Calm'
    BY <1>2, LoadsCalm, LoginsCalm
  <2> QED
    BY <1>0, <1>2, <2>1, <2>2, LoginsKeep DEF IInv
<1>3. CASE FaultStep
  BY <1>0, <1>3, FaultRunsNext, FaultsKeep, FaultsCalm DEF IInv
<1> QED
  BY <1>1, <1>2, <1>3 DEF Next

LEMMA IInvAlways == Spec => []IInv
  BY InitIInv, StepIInv, PTL DEF Spec

\* An undisturbed registration goes on serving logins, for any number of
\* registrations, loads, logins, restarts, failed calls and failed writes
\* (UndisturbedRegistrationWorks).
THEOREM RegistrationsKeepWorking == Spec => []UndisturbedRegistrationWorks
<1>1. IInv => UndisturbedRegistrationWorks
  BY GoodWorks DEF IInv, Sound, UndisturbedRegistrationWorks
<1> QED
  BY <1>1, IInvAlways, PTL

\* A login that nothing overlaps, not even a load of SigmaBar when it makes its proof,
\* is not refused under such a registration (QuietLoginsAccepted).
THEOREM QuietLogins == Spec => []QuietLoginsAccepted
<1>1. IInv => QuietLoginsAccepted
  BY DEF IInv, Calm, LoginOK, QuietLoginsAccepted
<1> QED
  BY <1>1, IInvAlways, PTL

=============================================================================
