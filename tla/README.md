# A TLA+ verification of Orionlink

Orionlink is a single sign-on system in which the identity provider (IdP) does
not learn which relying party (RP) a user logs in at, and the broker between
them does not learn who the user is.  This directory holds TLA+ models of the
system's protocols, key material and stored state, TLC configurations that
check them on small instances, and theorems that TLAPS checks for every
instance.  Paths such as
`Broker/refresh.go:92` are relative to the repository's root.

## 1. The system

Three Go servers (fiber v2.52.9, default configuration) and a browser:

| Part | State it keeps | Operations |
|---|---|---|
| **RP** (`RP/`) | in memory: browser sessions (`state`, `rpuser`), `aakeStates` (OAuth state -> K_S), the refresh ratchet, 512 DH prekeys; on disk: credentials, K_S, prekeys | `/ssso/login`, `/ssso/aake/genpok`, `/ssso/aake/unblind`, `/ssso/callback`, `/ssso/refresh`, registration at IdP and broker |
| **Broker** (`Broker/`) | in memory: login sessions (t, k, acid, state), codes, users' tokens per RP, `(tid -> seq)` of the refresh relay, token-signing key; on disk: registered RPs | `/ssso/authorize`, `/ssso/login`, `/ssso/token_exchange`, `/ssso/token`, `/ssso/refresh`, registration |
| **IdP** (`IdP/`) | in memory: browser sessions (`uid`, `acid`), consent codes, authorization records, ephemeral key pool, **one** refresh ratchet for all RPs, token-signing key; on disk: long-term keys, K_S | `/ssso/login`, `/ssso/authorize`, consent (`/ssso/code`, OPRF), `/ssso/token`, `/ssso/refresh`, account page and revocation, credential issue |
| **TCA** (`tca/`) | nothing beyond the page | verifies in the browser that `acid` commits to the RP's domain; seals the record `D_enc` under a PIN-derived key |
| **Pages** (`*/static/`) | cookies shared by all tabs of the browser | relay page (broker), consent and account pages (IdP) |
| **lib** | none | PS signatures, credentials, proofs of knowledge, key exchange, AES-GCM, OPRF |

How they interact.  A *login* goes RP -> broker (randomizes the RP's
credential into `acid`) -> IdP consent page with the TCA frame (verification,
PIN, consent code) -> back to the broker's relay page, which posts the code;
the broker then calls the RP (proof, K_S), the IdP (tokens), the RP (unblind),
issues a code of its own and redirects to the RP's callback, which redeems it
and decrypts the claims with K_S.  A *refresh* goes RP -> broker (adds the
next prekey and the stored refresh token) -> IdP (ratchet, encrypted access
token) and back.  *Revocation* is a DELETE from the account page to the IdP.
Servers call each other over HTTP with a timeout of 100 s, install no recover
middleware (a panic in a handler ends the process) and are restarted by
`docker-compose.yml`.

What is hard: every handler runs concurrently with every other; most in-memory
state is read and written without locks or with a lock that is released
between a read and the write that depends on it; one browser session at each
server is shared by all tabs; a login is nine requests, any of which can be
repeated, lost or overtaken; a restart of one server forgets one side of state
that two servers must agree on.  `PROJECT.json` lists each of these hazards
with the line where it bites and the properties that watch it.

What makes each part correct:

| Part | Correct when |
|---|---|
| Refresh | two ratchets stay in step; no message key is used twice; a token is taken by the RP it was minted for, newest last; every click is answered |
| Login | the RP admits only a user who consented in this browser, once per consent; the user's page always ends somewhere |
| Records | one per authorization, listed under the acid that was proved and sealed for it |
| Key pool and K_S | RP and IdP end with one K_S or none; a login is refused only for a cause; a key is there when it is asked for |
| Registration | what RP, IdP and broker hold in memory and on disk fit together and survive a restart; a login under it is accepted |
| Credentials | what was issued honestly verifies and nothing else does; a pseudonym is one per user and RP |
| RP session | a sign-in lasts until it is replaced or expires; user and token belong together; an identity is accepted for a bounded time |

## 2. Modules

| Module | Models | Theorems |
|---|---|---|
| `RefreshService` | what a refresh promises (abstract) | |
| `RefreshRatchet` | RP, broker and IdP refresh, with what a login leaves behind for it | `RefreshRatchet_proofs`, `RefreshSerial_proofs` |
| `ConsentTicket` | what a login promises (abstract) | |
| `AakaLogin` | login, consent and records over RP, broker, IdP, pages and TCA | `AakaLogin_proofs` |
| `Registration` | registration at IdP and broker, the files of all servers, logins that reload them | `Registration_proofs` |
| `SessionKey` | the IdP's ephemeral key pool, X3DH and the key confirmation | `SessionKey_proofs` |
| `PSSignature` | PS signatures, blind issuance, showings and Schnorr proofs over any field | `PSSignature_proofs` |
| `Credential` | what registration and login compute with them | `Credential_proofs` |
| `HomeSession` | the browser session at the RP, tokens, their keys and lifetimes | `HomeSession_proofs` |
| `MC*` | instances for TLC | |

Each module looks at the same programs from one side, and they meet in values:

* `RefreshRatchet` has a login as four actions (`RPSaveSessionKS`,
  `IdPSaveSessionKS`, `BrokerStoresTokens`, `LoginCompletes`) where `AakaLogin`
  has `RPGenPoK`, `IdPRecord`, `BrokerRedeem` and `CallbackDone`: the K_S each
  side saves, the refresh token the broker stores, the RP's session.
* The K_S that `AakaLogin` names by its submission is the one `SessionKey`
  derives; the lookup that fails there is a failing call here.
* The `acid` that `AakaLogin` treats as opaque is `Credential`'s `Randomize`,
  the verification in the TCA its `AcidVerifies`, the proof that
  `Registration` accepts or refuses its `VerifyPoK`.
* `Credential` is built on `PSSignature`.  That a registration may take its
  blinding factor off another one's signature happens in `Registration`
  (`StoreUnblinded`); what that makes of the signature is decided in `Credential`
  (`TakeCredentials` with a factor of its own or not).
* `AakaLogin` follows several logins of one browser with unlimited lifetimes
  and one session write per handler; `HomeSession` follows the same logins at
  the RP only, with the clock and with every session read and write apart.

What would come next: abstract specifications of registration and of the key
agreement, as the login and the refresh have them, and the account page's
decryption dialog.

## 3. The refresh: `RefreshRatchet`

| Variables | Code |
|---|---|
| `rp[r]` = root, n, dhB | `RefreshTokenHelper` of `RP/refresh.go`: root key, chain, the IdP header last seen |
| `rpKS`, `idpKS` | `session_ks` of the two `key_storage.json` |
| `session` | the access token in the RP's session |
| `seq`, `tok` | `brokerRefreshState.seq`; the refresh token in the broker's `UserStore` |
| `idp` = root, n, dhA, ipk | the IdP's single ratchet; `ipk` numbers its key pairs |
| `valid` | refresh tokens that verify and have not expired |
| `req[q]` | where the handlers of request q are, and what they have read |
| `taken`, `failures` | history only |

*Steps.*  `IdPAnswer`/`IdPReject` and `RPOpen`/`RPCannotOpen`/
`RPSeqOutOfRange` are whole critical sections (`mu.Lock` .. `mu.Unlock`).  The
broker holds no lock while it tests and reads `state.seq`, so `BrokerCheck`,
`BrokerReadHdr` and `BrokerSend` each read it once; `BrokerPanic` is the index
out of range between the first two and takes the process down
(`BrokerStops`).  Keys are symbolic terms: two are equal exactly when they were
derived alike, and AES-GCM opens a ciphertext under its own key and additional
data only.

*Left out.*  An RP has one login at a time: in which order two logins of one RP
save their K_S on the two sides is not modelled.  `lastIdPHdr` of the broker is
written and never read.  Both sides
start from the same bootstrap K_S (number 0) when none was saved.  One user
per RP.  A second registration of an RP (a second tid) belongs to
`Registration`.  A broker's configuration names one RP, so `BrokerRestart` is
per RP.  The session write of overlapping refreshes is last-writer-wins, as in
the code; whose user and state it carries along is in `HomeSession`.

*Bounds.*  `N` prekeys per RP stand for 512; `MaxInFlight`, `MaxLogins`,
`MaxFaults` and the set `Requests` bound the run.

| Run | Instance | Shows |
|---|---|---|
| `refresh_serial` | 5 requests one at a time, 4 prekeys, 2 logins, 3 link faults | `RootsAgree`: roots never part by more than the step the broker will repeat; `DamageBounded`: a fault costs at most one refresh |
| `refresh_concurrent` | 2 RPs, 3 overlapping requests, 2 prekeys, 2 logins, any 1 of 8 faults | `MessageKeysDistinct`, `ServiceSpec`, with the IdP's ratchet shared |
| `refresh_live` | 2 requests race for 1 prekey, 1 fault | `EveryClickAnswered` |
| `refresh_prekey_race` | 2 requests, 1 prekey | finding: `PrekeyIndexInRange` fails, the index is out of range |

That the exhaustion test is enough as long as requests do not overlap is the
theorem `PrekeysSuffice` (section 10).

Why the bounds are enough: a race for a prekey needs two requests and the last
prekey; a reused header needs a failed request, a repeated one and a third to
see the effect; five serial requests with three faults let two faults hit one
header and a third the next.  `RootsAgree` and `DamageBounded` hold for the
faults between broker and IdP with one request at a time; each of a late
request, an RP timeout, and a restart of any server breaks `RootsAgree`, and a
timeout or a restart of broker or IdP breaks `DamageBounded` too, which is why
`refresh_serial` has only link faults and `refresh_concurrent` states what
still holds.

## 4. The login: `AakaLogin`

One browser with several tabs, one registered RP, several accounts.  Random
values are named by where they were made: state, broker session, acid and
consent code by the tab, K_S, tokens and the broker's code by the submission
(post) of the relay form.

| Variables | Code |
|---|---|
| `tab[f]` | what the pages of login f have read (session_id, uid, acid) and show |
| `rpSess` | the browser's session at the RP |
| `aake` | `aakeStates`: under which state whose K_S is kept |
| `bCookie`, `iCookie`, `idpSess` | cookies of broker and IdP, session at the IdP |
| `sdata` | `brokerSessionData`: its state, and whether it is still there |
| `codes`, `records`, `valid` | IdP `CodeStore`, `authorized_msgs`, refresh tokens that verify |
| `post[p]` | where `handleTokenFromIdP` and the handlers it calls are for one submission |
| `bcodes`, `users` | broker `CodeStore` and `UserStore` |
| `cb[p][i]` | the i-th load of the callback page |

*Steps.*  Each request of the browser and each call of `handleTokenFromIdP` is
an action; `handleToken` of the IdP is three (`IdPCheck`, `IdPRecord`,
`IdPBurn`) because it reads the code, lists the record and deletes the code
under separate locks.  The callback is split where the RP calls the broker.
`Interrupt` is what a stopping process does to requests in flight: those it
handled fail, those it waited for go on with nobody waiting.

*Cookies and sessions.*  Answers may reach the browser in another order than
the requests were handled (`ConsentCookies` is apart from `IdPAuthorize`), so
a page can read another tab's cookies.  `Commits` is what PSVerify decides: the
`(t, D)` a relay page read opens the acid made with it and no other.

*Fiber.*  Two behaviours of the library matter and are modelled from how the
code uses it.  Strings from `c.Query` point into the request's buffer, which a
later request overwrites (`StateReused`, `SealReused`); a D_enc that is not any more
what was sealed for its code is `NoSeal`.  And `c.Params` does
not decode percent escapes: an acid is JSON text, its encoded form is never
equal to it, so `handleRevokeAuthorized` never finds a record, changes no state,
and is no action here (section 11).

*Left out.*  The relay page is not reloaded (a tab is one login) and a callback
page is reloaded at most once (`Loads`).  Reading, changing and writing the
IdP session within one handler is one step.  What `handleLogin` of the RP
loads from the registration file, and that a proof may read it in the middle of
another load, is in `Registration`; here a proof that is refused for that is a
failed call.  `SaveUserState` of the RP is written and never read.
The OPRF call is part of `Consent`.  A user's record list is a set; records
hold posts, and their D_enc is that of the code, as in the code both share one
string.  The broker's session cookie expiry (5 min) is not modelled; its code expiry
(500 min) and token lifetimes are in `HomeSession`.  A record is listed under the uid of the
session while its D_enc was sealed for the uid of the page; no document says
which account is right after a switch between the two, so no property does.

*Bounds.*  `Tabs`, `Posts`, `Users`, `MaxFaults`, `Loads`.

| Run | Instance | Shows |
|---|---|---|
| `login_tabs` | 2 tabs, 2 posts, 2 users, 1 overwritten state | `RecordFaithful`; `TicketSpec`: the login implements `ConsentTicket` |
| `login_faults` | 1 tab, 2 posts, 2 users, any 2 of 8 faults | `TicketSpec`, `ConsentResolves`, `ConsentLogsIn` |
| `login_double_post` | 1 tab, 2 posts | finding: two records for one consent |

`RecordFaithful` rests on two checks in different programs, PSVerify in the TCA
(`Commits`) and the acid comparison at the token endpoint (`CodeOK`); dropping
either breaks it.  It is checked where D_enc stays what was sealed; overwritten
ones are among the faults of `login_faults`, and the theorem has both.  `TicketSpec` maps a tab to a consent, the uid its code was
made out to to who granted it, and successful callback loads to uses.

Why the bounds are enough: mixing up cookies needs two tabs, overtaking needs
two posts of one login, a switch of
account two users, and a redeemed code two loads of its callback.  Each
failure that the properties guard against is reached in these bounds when the
guard is removed: every property has a mutant of the code that breaks it in
the same run.

## 5. Registration and what is on disk: `Registration`

| Variables | Code |
|---|---|
| `rp` = isk, vk, sigma, sigmaBar, tid | `RPServer`: IdentitySk, the IdP's keys as fetched at start, DomainCred, SecretCred, the tid |
| `regFile` | the RP's `registration_data.json` |
| `load` | `registrationMutex`: the load that holds it, for a login or the status page, and how far it is |
| `ikey` | the IdP's credential keys of `key_storage.json`, by generation |
| `table`, `file` | the broker's `rpIdentity` and its registration file |
| `pc`, `asked`, `hat`, `posted`, `got` | where a registration is, what its two requests and answers carried, and the SigmaBar it is unblinding |
| `bench`, `loop` | whether the RP runs `AutoRegister`, and whether that is still trying |
| `login` | a login at the points where it uses the registration: load, redirect, `handleRandomizeRPID`, proof |
| `clean`, `calm`, `sound` | history only: what nothing has disturbed |

*A registration.*  `getCredential` works on memory that all handlers share, one
action for each assignment and check: it puts an empty Sigma there and fills it
in (`EmptySigma`, `StoreSigma`), the same with SigmaBar (`EmptySigmaBar`,
`StoreBlinded`), reads SigmaBar to unblind it, stores the result
(`ReadBlinded`, `StoreUnblinded`), and verifies both.  At the broker the record
goes into the table under a tid nobody knows yet, then under a lock into the
file, then the tid is answered: one step (`BrokerEnrols`).  The RP takes the tid
and, under the mutex, writes whatever memory holds by then (`TakeTid`,
`SaveRegistration`).

*A load.*  Every login and the status page load the file first.
`registrationMutex` keeps loads and saves apart, but the steps above and the
proof of a login read without it, so a load is three steps others can see
between: an empty Sigma (`LoadBegins`), Sigma filled in and an empty SigmaBar
(`LoadSigma`), SigmaBar filled in and the tid (`LoadSigmaBar`).  An empty
signature is `null` when it is posted (`PostToBroker`), refuses a login when it
is randomized (`Prove`), and brings the RP down when it is unblinded
(`UnblindPanics`).

*Signatures* are reduced to what later checks can tell: the generation of the
IdP key, the identity key covered, the blinding still on it.  That this is all
the checks can tell is `OnlyOwnFactorVerifies` and `AcceptedIffValid` of
`Credential`.

*Faults.*  A call that fails before or after it is handled; a write that fails,
which both servers only log and answer as a success (`SaveFails`,
`BrokerSaveFails`); a restart of RP or broker, after which an RP has what is on
disk only and under the bench profile reads the registration file at once
(`Started`); and with `Tears` a file that a failed write or a crash leaves torn:
each is written in place by the code, and each loader takes a file that does
not parse for a missing one and makes key material anew.  The torn key files
are written by the K_S of a login, which is why `RPLosesKeys` and
`IdPLosesKeys` need one under way.  A restart of the IdP alone changes nothing
the module has.

*Left out.*  SecretCred.IdentitySk moves in one step with SigmaBar, a save reads
its fields at one moment, and a redirect or a proof reads each field once.

*What "undisturbed" means.*  A registration leaves `clean` when another exchange
overlaps one of its own, when a load is under way at a step of `getCredential`,
at the reading of Sigma or at the taking of the tid, when a load brings back
other credentials than memory held, when a write of its own fails and when the
RP restarts.  `sound` is set by the save of a clean one, and reset by the next
save, a file that tears, and keys that are lost: what cannot work after that
(an IdP with new keys, a broker without records) no code could keep working.  A
login is in `calm` when it begins while `sound` holds and no exchange runs, and
until a registration step or a fault comes, or it reads SigmaBar in the middle
of a load.

*Bounds.*  `Manual`, `Attempts`, `Logins`, `Tears`, `MaxFaults`.

| Run | Instance | Shows |
|---|---|---|
| `registration` | 1 page, 1 start-up attempt, 1 login, the status page, torn files, any 2 faults | `UndisturbedRegistrationWorks`: a registration whose exchanges nothing disturbed keeps working through loads, restarts, failed calls and writes, and the beginnings of others; `QuietLoginsAccepted`: a login that no registration step or fault overlaps is refused only if its proof read SigmaBar in the middle of a load |
| `reregistration` | 2 pages, the status page, no fault | finding: re-registering can replace a working registration by none |

Why the bounds are enough: the page and an attempt overlap in every order, and a
load falls between any two of their steps; two faults let a loss come before and
a restart after the save, or a failed write before the restart that shows it;
the status page can load while the login proves.  A second attempt, a second login
(both measured apart: up to 7 million states, nothing new) and any more of
either are covered by the theorems of section 10.

## 6. The session key: `SessionKey`

| Variables | Code |
|---|---|
| `pool`, `idx` | `store.empkeys.keys`, `store.EmpKeyIdx` |
| `pc`, `fill`, `count`, `kid` | a handler of `/getempkey`: its place, loop counter, the index it read for `++` and for the id |
| `emp`, `agreed` | the key the RP got; the K_S the IdP accepted |
| `made` | names the keys generated |
| `shaken`, `crowded` | history only |

`handleGetIdPEmpKey` takes no lock: each read and write of the pool and of the
index is an action, from the test of the pool's length to the two halves of
`EmpKeyIdx++`.  (Fiber runs handlers in parallel; that the Go runtime may stop
the process at a concurrent map write is `IdPRestart`.)  `SessionKeyOfRP`,
`SessionKeyOfIdP`, `Confirmation` and `Confirms` follow `x3KeyExchangeRP`,
`x3KeyExchangeIdP`, `newSession` and `getSessionKey` term by term: a shared
secret is the set of its two keys, a derived key its inputs in order, so the
two sides agree only if they combine the same keys in the same order.

| Run | Instance | Shows |
|---|---|---|
| `session_key` | 3 sessions, pool of 2, 1 restart | `ConfirmedSameKey`, `RefusedOnlyIfShaken`, `LoneRequestServed` |

A pool of two for one hundred reaches the end, the wrap and a refill with three
sessions: the first fills and counts, and the other two can then take the test of
the index before either counts, so that one finds no key.  Two logins may be given the same ephemeral key
after a wrap or a race, in the code as here; K_S is still their own because
their RPs draw theirs, so no property forbids it.

## 7. Credentials: `PSSignature` and `Credential`

`PSSignature` has `lib/PSSig.go`, `lib/anonyCred.go` and `lib/NIZK.go` function
by function, over any field.  A group element is its discrete logarithm, so
adding points is addition, multiplying by a scalar and pairing are
multiplication.  This keeps every equation the code checks.  Random draws and
Fiat-Shamir challenges are parameters.  It says nothing about what cannot be
computed: hardness is not part of the model.

| Variables of `Credential` | Code |
|---|---|
| `key`, `domain`, `isk` | ServerCredKey, domainScalar, IdentitySk |
| `request` | what `getRegisterRequestToIdP` sends, and the factor kept |
| `sigma`, `sigmaBar`, `own` | DomainCred, SecretCred; whether its own factor was taken off |
| `acid`, `proof` | `generateSessionData`; `geneatePoK` |
| `shown`, `seen` | a showing of the library; history: uid and pseudonym of each login |

| Run | Instance | Shows |
|---|---|---|
| `credential` | the field of 5 elements, 2 key pairs, 3 draws (one zero), 2 users, 2 challenges | `RequestsGranted`, `OnlyOwnFactorVerifies`, `AcceptedIffValid`, `AcidVerifies`, `PseudonymStable`, `ShowingsVerify` |

The instance has a key pair with a zero part and draws with zero, for the k of
an acid too, which the library draws without a test: these are the cases where
a check passes for nothing, and the properties name each.  A login under a k of
zero has no pseudonym to speak of (`Admits` records it as `lost`).  The
theorems of section 10 need no bound.

## 8. The session at the RP: `HomeSession`

| Variables | Code |
|---|---|
| `cookie`, `sessions` | rp_session and the memory store: state and rpuser |
| `snap[h]` | what handler h has read of the session and will write back |
| `tokens`, `resigned` | the IdP's tokens of a login; the broker's re-signed ones |
| `codes`, `users` | the broker's `CodeStore` and `UserStore` |
| `idpKey`, `brokerKey` | signing keys, made at start: numbers of processes |
| `now` | the clock |
| `overlapped`, `disturbed`, `late`, `clean`, `expected` | history only |

`sessions.Get` reads the whole session, `Save` writes the whole of it, and the
call to the broker lies between: `LoginStarts`/`LoginSaves`,
`CallbackStarts`/`BrokerRedeems`/`CallbackSaves`, `RefreshStarts`/
`RefreshAnswered`/`RefreshSaves`.  A token is valid under the key of the process
that now answers and before its expiry (`Valid`).

*Left out.*  Broker and RP fetch the signer's keys for each check (`fetchJWKS`), so
keys kept from an earlier one are not a case.  The RP has no sign-out handler.  The ratchet that carries the refreshed token is
`RefreshRatchet`: here a refresh succeeds or fails.

*Bounds.*  `IdLife` 2, `RefreshLife` 3, `CodeLife` 4 ticks keep the order of 5,
120 and 500 minutes; `MaxTime` 5 lets each expire; `MaxFaults`.

| Run | Instance | Shows |
|---|---|---|
| `home_session` | 2 logins, 1 refresh, 2 users, 1 fault | `LoginFailsForCause`, `SignInSticks`, `TokenOfItsUser`, `IdentityFresh` |

Two logins and a refresh give every pair of overlapping handlers, and every
pair with a third to find what they left.

## 9. Fairness

`RefreshRatchet.FairSpec` is weak fairness of the handlers of each request:
goroutines are scheduled, a delivered request or answer is read, an HTTP call
ends (at the latest by its timeout).  `AakaLogin.FairSpec` adds that the
browser follows a redirect to the callback and that the relay page submits the
code it was given (`form.submit()` in its message handler).  Clicks, PIN
entries, logins, reloads and faults are never required to happen.  Symmetry is
used in safety runs only.  The other modules state safety only: what they would
need to progress is the scheduling already assumed here.

Deadlock checking is off in the runs of `RefreshRatchet`, `AakaLogin`,
`SessionKey` and `HomeSession`: users owe nothing and the bounds end the
behaviour; that no request is stuck is what `EveryClickAnswered` and
`ConsentResolves` say.  `Registration` (the status page can always be opened)
and `Credential` (an RP can always register again) run with it on.

## 10. Proofs

`RefreshRatchet_proofs` proves, for every set of RPs and requests, every number
of prekeys and every bound, from `BoundsAssumption` and from `NilAssumption` and
`AnswersAssumption`, which say that `Nil` is not one of the values it is told
from:

* `TypeCorrect`: `Spec => []TypeOK`.  `TypeOK` alone is not inductive: a handler
  step needs to know that a request in its state names an RP and holds the
  header, sequence number and answer it read.  `TInv` adds that as
  `RequestsOK`, one clause per handler state.
* `MessageKeysNeverReused`: `Spec => []MessageKeysDistinct`.  The strengthening
  `KeysOK` says where every answer's message key lies relative to the IdP's
  ratchet: its newest DH step is with a key pair no newer than the IdP's
  current one (`RatchetOK`), and an answer under the current root has a chain
  position the ratchet has passed (`AnswersPast`).  A new header takes a key
  pair with a new number, the same header the next position, and a restart
  starts a key pair numbered above all before, so the next message key is in
  every case one that no answer has.
* `RefreshImplementsService`: `Spec => ServiceSpec`, the refinement, under every
  fault of the model.  A click is an `Ask`, `IdPAnswer` a `Mint`, `RPOpen` a
  `Take`, and every other step stutters.  That a taken token is newer than all
  taken before is the hard part: an answer may be late, and the RP's ratchet may
  have been lost and seeded again.  `OInv` orders the answers: tokens are
  numbered as their message keys are ordered (`TokensOK`), by the IdP key pair
  of the last DH step and then by chain position; the key pairs along one root
  key never decrease (`IdPOrder`); and the RP is `Beyond` the key of every
  answer that may still reach it and is not newer than what it took
  (`StaleOK`): its root key holds a later key pair, or more DH steps, or its
  chain has passed that position.  None of these is undone by a further step of
  the RP, so such an answer never opens.

`RefreshSerial_proofs` takes refreshes one at a time: `MaxInFlight <= 1`, no
fault after which the RP stops waiting for an answer (`OneAtATime`).

* `PrekeysSuffice`: `Spec => []PrekeyIndexInRange` for any RPs and every other
  fault, restarts of broker and IdP and late requests included.  At most one
  request is waited for, and one that is not can only be at the IdP (`Alone`);
  so nothing moves `state.seq` between the test and the index.
* `RootKeysNeverPart`: `Spec => []RootsAgree`, for one RP, with lost messages and
  expired tokens as the only faults (`OnlyLinkFaults`): the conditions of the
  run `refresh_serial`, for any number of requests, logins and faults.  `RInv`
  holds inside a refresh too: the ends have made the same DH steps (`InStep`)
  or the IdP one more, with its current key pair and the prekey under way
  (`Ahead`), and an answer on its way is always for that step (`AnswerHeld`).
* `OneRefreshPerFault`: `Spec => []DamageBounded`, in the same circumstances.
  `DInv` is an amortized count: `failures + Cost <= faults`, where `Cost` is
  what the faults so far may still cost.  That is one for the ratchets being
  apart (`Debt`), and one for each expired token among the one in the request,
  the one the broker stores and the one a login is about to store that follows
  a step which would settle the debt before it (`DebtAsked`, `DebtStored`,
  `DebtIssued`).  Each fault raises `Cost` by one at most, each failure takes
  one from it, and no other step raises it; that a token never comes back
  (`TokensAge`) is what makes a login free.

`AakaLogin_proofs` proves, for every set of tabs, posts and accounts and every
bound, from `LoginAssumption`:

* `TypeCorrect`: `Spec => []TypeOK`.  Indexing `sdata[Sess(p)]` and
  `codes[post[p].tab]` is well typed only because a submission exists for a tab
  that has read a session_id and got a code (`TabOK`, `PostOK`).  `Steps` sorts
  the actions into pages that move towards consent (`Onward`), consent,
  submission, and all others, which leave what the pages have read and to whom
  codes are made out alone (`Later`); each invariant is then shown once per
  class.
* `RecordsFaithful`: `Spec => []RecordFaithful`, under every fault, reused
  request buffers included.  `FInv` follows the acid through the
  two checks: `VerifiedOK` after PSVerify, `SealOK` for a D_enc that is its
  code's own, `CheckOK` after the comparison at the token endpoint.  It needs that the
  session_id of a form never changes after consent, and that the acid of a code
  stays what it was when a submission was checked against it.
* `LoginImplementsTicket`: `Spec => TicketSpec`, the refinement.  Consent at the
  IdP is a grant, the callback that puts the user into the RP's session an
  admission (`ConsentGrants`, `DoneAdmits`); every other step, a form posted
  twice or a callback reloaded included, changes neither (`SameGrants`,
  `SameAdmissions`): of all callbacks of a consent one gets the tokens
  (`UsedOnce`).

`Registration_proofs`, for every set of registrations and logins and every
number of faults, from `RunAssumption`, `LoginAssumption` and `BoundAssumption`:

* `TypeCorrect`, from `TypeOK` alone, by kind of step.
* `RegistrationsKeepWorking` and `QuietLogins`, from one invariant, `IInv`.
  An undisturbed run is the only one at the servers while it is there
  (`Alone`), so the shared memory holds what its last step put there
  (`Progress`, one clause per stage), or what a load under way will put back
  (`SettledSigma`, `SettledBar`).  What it saves is therefore enrolled with
  the right keys, and stays so (`Sound`) because a tid is never drawn twice
  (`FreshTids`) and everything that loses keys or records is counted as a loss.
  A quiet login finds in memory what the file has, unless a load has emptied it
  (`Calm`).

`SessionKey_proofs`, for every pool size, number of sessions and restarts:

* `TypeCorrect`; a handler before the fill loop has its counter at zero.
* `AcceptedKeysAgree`: opening the confirmation ties the key found under the id
  to the one the RP was given.
* `RefusalsHaveACause`: the pool holds what it gave a session until somebody
  changes it, and whoever does shakes the session (`StillThere`).
* `LoneRequestsServed`: when nobody fills the pool it is empty or whole, and
  while somebody does, the handler that emptied it last fills it from the start
  (`PoolShape`); a handler alone therefore ends with the pool whole and an index
  inside it (`Alone`), wherever races left the index before.

`PSSignature_proofs` proves the algebra from the field laws, stated as four
assumptions that TLC evaluates on the field of five elements: signing,
randomizing, unblinding, showing, the Schnorr proof and the blind-signing
request each pass their verification, and randomized or unblinded signatures
only if they should.  `Credential_proofs` proves all seven invariants of the
run, from `DrawAssumption`: the induction (`CInv`) records how each signature
came about, and the algebra says what that makes of it.

`HomeSession_proofs`, for every set of logins, refreshes and users and all
lifetimes that `SessionAssumption` orders:

* `TypeCorrect`; it needs that a stored refresh token belongs to a login whose
  tokens it came with (`KeptOK`).
* `TokensMatchUsers` and `SignInsAreFresh`: whatever holds of the user in a
  session holds of the users that running handlers have read and may write back
  (`SessionsFit`, `HandlersFit`), and the broker re-signs only what has not
  expired (`ResignedFit`).
* `SignInsStick`: of the handlers that may write a session, at most one overlaps
  no other (`Solo`); while nothing has overlapped since the sign-in, the session
  shows what was signed in or refreshed last, and so does the one a running
  handler will write back (`CleanOK`).
* `LoginsFailForCause`: a login that has met none of the listed causes starts
  with no other handler at work (`StartsAlone`), finds its state in the session
  from then on, and so does every handler that may write it back (`StateHeld`);
  its token and code are the ones the current keys verify and the current
  process holds (`InOrder`), so each check it meets passes.

Every invariant that a passing run checks is thus a theorem, and so are both
refinements.  `PrekeyIndexInRange`, which overlapping refreshes violate, is one
under `OneAtATime`.  Only model-checked: the liveness properties `EveryClickAnswered`,
`ConsentResolves` and `ConsentLogsIn` (TLAPS does not prove temporal properties
under fairness).  The inductive invariants `KeysOK`, `OInv`, `WInv`, `RInv` and
`DInv` were checked on the instances of the refresh runs before they were
proved, the others likewise on theirs.  The theorems about one refresh at a time
exclude faults by their hypotheses, not by the model, and not more than needed:
each of the two that `OneAtATime` excludes breaks `PrekeyIndexInRange`, and each
of the five that `OnlyLinkFaults` excludes breaks `RootsAgree`.  No recursive
operators are used, so every module can be proved about.

## 11. Findings

Three disagreements between code and documents, each the counterexample of one
run (`expect: violation` in `PROJECT.json`):

* `refresh_prekey_race`: two refreshes read the prekey position without the
  lock; with one prekey left the second indexes past the list it was checked
  against, and the broker ends.
* `login_double_post`: two submissions of one consent code both pass, and the
  account page lists two records for one authorization.
* `reregistration`: the second step of the registration page sends the Sigma
  in memory, and saves; while the status page or a login is loading, that is an
  empty one, and it replaces the registration that worked.

Further observations.  No run is spent on these behaviours; except for the first,
which leaves no trace in any state, the models contain them, and the properties above
are stated so that they hold with them.

* Revocation has no effect.  README.md:538-540 says of it: "Expected result: the
  record disappears from the list and the status line reads "Authorization
  revoked." The RP's token for that session is no longer honoured."  The account
  page sends `encodeURIComponent(acid)` (`IdP/static/userinfo.html:248`), an acid
  is JSON text (`Broker/handler.go:175-176`), `handleRevokeAuthorized` compares
  the path segment as it came (`IdP/ssso.go:117-121`), and so deletes nothing and
  answers 204.  Nothing refuses the refresh token either: `ValidateRefreshToken`
  (`IdP/token.go:149-163`) checks signature and expiry only.
* A D_enc kept from `c.Query` (`IdP/ssso.go:137`) is overwritten when fiber
  reuses the buffer (`SealReused`), and its record then decrypts to another
  acid or not at all, against README.md:533-536.
* A restart of the RP between the two steps of the registration page, whose
  second button stays enabled, also makes the second step send an empty Sigma.
* A load, or another registration, that puts an empty SigmaBar in the place of
  the blinded one just before it is unblinded brings the RP down
  (`UnblindPanics`).
* A login is refused when its proof reads SigmaBar while another login or the
  status page is loading it (`RP/persist.go:446`, `RP/aaka.go:223`).
* A session with a uid and no acid makes `handleAuthorizeCode` panic
  (`IdP/ssso.go:133`); in `AakaLogin` its effect is the IdP's restart.
* The IdP's ratchet moves before the refresh token is validated
  (`IdP/refresh.go:98`); `RootsAgree` and `DamageBounded` count the refresh that
  is lost to it.

## 12. Not modelled

Configuration, main program, containers, benchmarks, load-test endpoints and
the OIDC baseline hold no protocol state.  The OPRF evaluation is stateless and
part of `Consent`.  The account page's decryption of a record
(`tca/dvf_authorize.js`) reads only; what it decrypts is the subject of
`RecordFaithful`.
Encodings (JSON, base64, points and scalars as bytes) are left out except where
a property is about one (the `null` of an empty signature), as are
the claims of tokens, page layout, logging, and writes of the key files that
fail without a crash.  Secrecy, unlinkability and the hardness of breaking signatures or
ciphertexts are not state properties of this kind: keys derived differently
differ, a ciphertext opens under its own key only, and a commitment opens to
its own value only.
