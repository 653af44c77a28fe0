----------------------------- MODULE HomeSession -----------------------------
(***************************************************************************)
(* A browser's session at the RP, and the age and keys of the tokens that  *)
(* sign a user in and keep the session's access token fresh.               *)
(*                                                                         *)
(* Three handlers write the session: the login link (a new state), the     *)
(* callback (the user) and the refresh (the user with a new access token). *)
(* Each reads the whole session when it starts and writes the whole of it  *)
(* back when it ends, calls to the broker in between.                      *)
(*                                                                         *)
(* The IdP signs the tokens of a login; the broker checks them, signs them *)
(* anew with lifetimes of its own, and keeps the refresh token as it is;   *)
(* the RP checks the ID token once more.  Signing keys live as long as     *)
(* their process: a key is the number of the process.                      *)
(***************************************************************************)
EXTENDS Integers, FiniteSets

CONSTANTS Logins,      \* logins of this browser, from the link to the home page
          Refreshes,   \* clicks on the home page's refresh button
          Users,       \* accounts at the IdP
          Nil,         \* "none"
          IdLife,      \* lifetime of an ID token: 5 minutes
          RefreshLife, \* of a refresh token: 2 hours
          CodeLife,    \* of the broker's code: 500 minutes
          MaxTime,     \* bound on the clock
          MaxFaults    \* bound on restarts and expired sessions

Handlers == Logins \cup Refreshes

ASSUME SessionAssumption ==
  /\ Logins \cap Refreshes = {} /\ Nil \notin Handlers \cup Users
  /\ {IdLife, RefreshLife, CodeLife} \subseteq Nat \ {0}
  /\ IdLife < RefreshLife /\ RefreshLife < CodeLife
  /\ MaxTime \in Nat /\ MaxFaults \in Nat

VARIABLES
  now,      \* the clock
  at,       \* where each login and refresh is
  cookie,   \* rp_session in the browser: the session of that login, or Nil
  sessions, \* sessions[s]: [live, state, user]; s is the login that opened it
  snap,     \* snap[h]: what running handler h holds of the session, and its id
  tokens,   \* tokens[l]: [who, iat, key] of the IdP's tokens of l
  resigned, \* resigned[l]: [at, key] of the broker's tokens of l
  codes,    \* CodeStore: logins whose code is in the store
  users,    \* UserStore: users[u], the refresh token kept for u
  idpKey, brokerKey,
  faults,
  overlapped, \* history: running handlers that another one has overlapped
  disturbed,  \* history: logins with an overlap at the start, replaced, or cut by a fault
  late,       \* history: logins whose first ID token has expired under way
  clean,      \* history: nothing has overlapped since the last sign-in or loss
  expected    \* history: the user of the last sign-in, with the last token

rpVars     == <<cookie, sessions, snap>>
brokerVars == <<resigned, codes, users, brokerKey>>
idpVars    == <<tokens, idpKey>>
ghosts     == <<overlapped, disturbed, late, clean, expected>>
vars == <<now, at, rpVars, brokerVars, idpVars, faults, ghosts>>

NoUser    == [who |-> Nil, login |-> Nil, since |-> 0, token |-> Nil]
NoSnap    == [sid |-> Nil, state |-> Nil, user |-> NoUser]
NoSession == [live |-> FALSE, state |-> Nil, user |-> NoUser]
NoRefreshToken == [via |-> Nil, iat |-> 0, key |-> 0]

\* Between reading and writing the session.
Writing == {"starting", "calling", "redeemed", "asked", "got"}
Running == {h \in Handlers : at[h] \in Writing}
Pending == {l \in Logins : at[l] \notin {"idle", "done", "failed"}}

\* sessions.Get: the session of the cookie, or a new one under a new id.
Read(h) ==
  IF cookie # Nil /\ sessions[cookie].live
  THEN [sid |-> cookie, state |-> sessions[cookie].state, user |-> sessions[cookie].user]
  ELSE [sid |-> h, state |-> Nil, user |-> NoUser]

\* requireLogin and handleHome: the user the home page shows, if any.
HomeUser == Read(Nil).user

SaveUserOnly(s, state, user) ==    \* mutant of Save: a signed-in user replaces the state
  /\ sessions' = [sessions EXCEPT ![s] =
       [live |-> TRUE, state |-> IF user = NoUser THEN state ELSE Nil, user |-> user]]
  /\ cookie'   = s

\* sess.Save: the whole session, and its cookie in the answer.
Save(s, state, user) ==
  /\ sessions' = [sessions EXCEPT ![s] = [live |-> TRUE, state |-> state, user |-> user]]
  /\ cookie'   = s

SignedByCurrent(iat, life, key, current) == key = current    \* mutant of Valid: no expiry

\* jwt: a token signed by the process that now answers /jwks, before its expiry.
Valid(iat, life, key, current) == key = current /\ now < iat + life

Go(h, to) == at' = [at EXCEPT ![h] = to]

\* A handler starts: it and the running ones overlap each other.
Starts(h) ==
  IF Running = {} THEN UNCHANGED <<overlapped, clean>>
  ELSE overlapped' = overlapped \cup Running \cup {h} /\ clean' = FALSE

Ends(h) == overlapped' = overlapped \ {h} /\ snap' = [snap EXCEPT ![h] = NoSnap]

Init ==
  /\ now = 0
  /\ at = [h \in Handlers |-> "idle"]
  /\ cookie = Nil
  /\ sessions = [l \in Logins |-> NoSession]
  /\ snap = [h \in Handlers |-> NoSnap]
  /\ tokens = [l \in Logins |-> [who |-> Nil, iat |-> 0, key |-> 0]]
  /\ resigned = [l \in Logins |-> [at |-> 0, key |-> 0]]
  /\ codes = {}
  /\ users = [u \in Users |-> NoRefreshToken]
  /\ idpKey = 1 /\ brokerKey = 1
  /\ faults = 0
  /\ overlapped = {} /\ disturbed = {} /\ late = {}
  /\ clean = TRUE /\ expected = NoUser

-----------------------------------------------------------------------------
(* A login: RP/handler.go handleLogin, the IdP, the broker, handleCallback. *)

LoginStarts(l) ==
  /\ at[l] = "idle"
  /\ Go(l, "starting")
  /\ snap' = [snap EXCEPT ![l] = Read(l)]
  /\ Starts(l)
  /\ disturbed' = disturbed \cup (Pending \ {l})
                    \cup (IF Running = {} THEN {} ELSE {l} \cup (Running \cap Logins))
  /\ UNCHANGED <<now, cookie, sessions, brokerVars, idpVars, faults, late, expected>>

LoginRenewsSession(l) ==         \* mutant of LoginSaves: the user is dropped from the session
  /\ at[l] = "starting"
  /\ Go(l, "away")
  /\ Save(snap[l].sid, l, NoUser)
  /\ Ends(l)
  /\ UNCHANGED <<now, brokerVars, idpVars, faults, disturbed, late, clean, expected>>

\* The redirect to the broker carries the state, named like the login.
LoginSaves(l) ==
  /\ at[l] = "starting"
  /\ Go(l, "away")
  /\ Save(snap[l].sid, l, snap[l].user)
  /\ Ends(l)
  /\ UNCHANGED <<now, brokerVars, idpVars, faults, disturbed, late, clean, expected>>

\* generateTokens, for the account that consented.
IdPIssues(l, u) ==
  /\ at[l] = "away"
  /\ Go(l, "issued")
  /\ tokens' = [tokens EXCEPT ![l] = [who |-> u, iat |-> now, key |-> idpKey]]
  /\ UNCHANGED <<now, rpVars, brokerVars, idpKey, faults, ghosts>>

\* resignTokensWithBrokerKey: access and ID token are checked under the IdP's present
\* keys; the latter has the shorter life.  Then IssueCode.
BrokerResigns(l) ==
  /\ at[l] = "issued"
  /\ IF Valid(tokens[l].iat, IdLife, tokens[l].key, idpKey)
     THEN /\ Go(l, "coded")
          /\ resigned' = [resigned EXCEPT ![l] = [at |-> now, key |-> brokerKey]]
          /\ codes' = codes \cup {l}
     ELSE Go(l, "failed") /\ UNCHANGED <<resigned, codes>>
  /\ UNCHANGED <<now, rpVars, users, brokerKey, idpVars, faults, ghosts>>

\* handleCallback up to its call to the broker: the state must be the session's.
CallbackStarts(l) ==
  /\ at[l] = "coded"
  /\ IF Read(l).state = l
     THEN /\ Go(l, "calling")
          /\ snap' = [snap EXCEPT ![l] = Read(l)]
          /\ Starts(l)
          /\ disturbed' = disturbed \cup (Running \cap Logins)
     ELSE Go(l, "failed") /\ UNCHANGED <<snap, overlapped, clean, disturbed>>
  /\ UNCHANGED <<now, cookie, sessions, brokerVars, idpVars, faults, late, expected>>

\* GetCode takes the code out; handleTokenFromBroker keeps the refresh token.
BrokerRedeems(l) ==
  /\ at[l] = "calling"
  /\ codes' = codes \ {l}
  /\ IF l \in codes /\ now <= resigned[l].at + CodeLife
     THEN /\ Go(l, "redeemed")
          /\ users' = [users EXCEPT ![tokens[l].who] =
               [via |-> l, iat |-> tokens[l].iat, key |-> tokens[l].key]]
          /\ UNCHANGED <<snap, overlapped>>
     ELSE Go(l, "failed") /\ Ends(l) /\ UNCHANGED users
  /\ UNCHANGED <<now, cookie, sessions, resigned, brokerKey, idpVars, faults, disturbed, late, clean, expected>>

\* VerifyIDToken under the broker's present keys.
IdTokenValid(l) == Valid(resigned[l].at, IdLife, resigned[l].key, brokerKey)

SignedIn(l) ==
  [who |-> tokens[l].who, login |-> l, since |-> now,
   token |-> [who |-> tokens[l].who, via |-> l, minted |-> tokens[l].iat]]

CallbackSaves(l) ==
  /\ at[l] = "redeemed"
  /\ IdTokenValid(l)
  /\ Go(l, "done")
  /\ Save(snap[l].sid, snap[l].state, SignedIn(l))
  /\ Ends(l)
  /\ clean' = (clean \/ l \notin overlapped)
  /\ expected' = SignedIn(l)
  /\ UNCHANGED <<now, brokerVars, idpVars, faults, disturbed, late>>

\* The code is gone all the same.
CallbackRefuses(l) ==
  /\ at[l] = "redeemed"
  /\ ~IdTokenValid(l)
  /\ Go(l, "failed")
  /\ Ends(l)
  /\ UNCHANGED <<now, cookie, sessions, brokerVars, idpVars, faults, disturbed, late, clean, expected>>

-----------------------------------------------------------------------------
(* A refresh: RP/handler.go handleRefresh.                                 *)

RefreshStartsAnyway(r) ==        \* mutant of RefreshStarts: no look at the user
  /\ at[r] = "idle" /\ cookie # Nil
  /\ Go(r, "asked")
  /\ snap' = [snap EXCEPT ![r] = Read(r)]
  /\ Starts(r)
  /\ UNCHANGED <<now, cookie, sessions, brokerVars, idpVars, faults, disturbed, late, expected>>

RefreshStarts(r) ==
  /\ at[r] = "idle"
  /\ HomeUser # NoUser
  /\ Go(r, "asked")
  /\ snap' = [snap EXCEPT ![r] = Read(r)]
  /\ Starts(r)
  /\ disturbed' = disturbed \cup {l \in Logins : at[l] = "starting"}
  /\ UNCHANGED <<now, cookie, sessions, brokerVars, idpVars, faults, late, expected>>

\* The broker looks the refresh token up by uid_rp, the IdP validates it and mints an
\* access token for its user, and the RP puts it into the user read at the start.
RefreshAnswered(r) ==
  LET t == users[snap[r].user.who]
  IN /\ at[r] = "asked"
     /\ Valid(t.iat, RefreshLife, t.key, idpKey)
     /\ Go(r, "got")
     /\ snap' = [snap EXCEPT ![r] = [snap[r] EXCEPT !.user = [snap[r].user EXCEPT !.token =
                   [who |-> tokens[t.via].who, via |-> t.via, minted |-> now]]]]
     /\ UNCHANGED <<now, cookie, sessions, brokerVars, idpVars, faults, ghosts>>

\* No token at the broker, a refusal of the IdP, or an answer that does not open.
RefreshFails(r) ==
  /\ at[r] = "asked"
  /\ Go(r, "failed")
  /\ Ends(r)
  /\ UNCHANGED <<now, cookie, sessions, brokerVars, idpVars, faults, disturbed, late, clean, expected>>

RefreshSavesToken(r) ==          \* mutant of RefreshSaves: the token goes to the user of now
  /\ at[r] = "got"
  /\ Go(r, "done")
  /\ Save(snap[r].sid, sessions[snap[r].sid].state,
          [sessions[snap[r].sid].user EXCEPT !.token = snap[r].user.token])
  /\ Ends(r)
  /\ UNCHANGED <<now, brokerVars, idpVars, faults, disturbed, late, clean, expected>>

RefreshSaves(r) ==
  /\ at[r] = "got"
  /\ Go(r, "done")
  /\ Save(snap[r].sid, snap[r].state, snap[r].user)
  /\ Ends(r)
  /\ expected' = IF clean THEN snap[r].user ELSE expected
  /\ UNCHANGED <<now, brokerVars, idpVars, faults, disturbed, late, clean>>

-----------------------------------------------------------------------------
(* Time, restarts, expired sessions.                                       *)

Tick ==
  /\ now < MaxTime
  /\ now' = now + 1
  /\ late' = late \cup {l \in Pending : at[l] \notin {"starting", "away"}
                                         /\ now' >= tokens[l].iat + IdLife}
  /\ UNCHANGED <<at, rpVars, brokerVars, idpVars, faults, overlapped, disturbed, clean, expected>>

Fault ==
  /\ faults < MaxFaults
  /\ faults' = faults + 1
  /\ disturbed' = disturbed \cup Pending

\* A memory store: all sessions end, and with them the handlers.
RPRestart ==
  /\ Fault
  /\ sessions' = [l \in Logins |-> NoSession]
  /\ at' = [h \in Handlers |-> IF h \in Running THEN "failed" ELSE at[h]]
  /\ snap' = [h \in Handlers |-> NoSnap]
  /\ overlapped' = {} /\ clean' = TRUE /\ expected' = NoUser
  /\ UNCHANGED <<now, cookie, brokerVars, idpVars, late>>

\* 24 hours without a Save: no handler of the session is running.
SessionEnds ==
  /\ Fault
  /\ Running = {} /\ cookie # Nil
  /\ sessions' = [sessions EXCEPT ![cookie] = NoSession]
  /\ clean' = TRUE /\ expected' = NoUser
  /\ UNCHANGED <<now, at, cookie, snap, brokerVars, idpVars, overlapped, late>>

\* Codes, users and the signing key go.
BrokerRestart ==
  /\ Fault
  /\ codes' = {}
  /\ users' = [u \in Users |-> NoRefreshToken]
  /\ brokerKey' = brokerKey + 1
  /\ UNCHANGED <<now, at, rpVars, resigned, idpVars, overlapped, late, clean, expected>>

IdPRestart ==
  /\ Fault
  /\ idpKey' = idpKey + 1
  /\ UNCHANGED <<now, at, rpVars, brokerVars, tokens, overlapped, late, clean, expected>>

Next ==
  \/ \E l \in Logins :
       \/ LoginStarts(l) \/ LoginSaves(l) \/ BrokerResigns(l)
       \/ \E u \in Users : IdPIssues(l, u)
       \/ CallbackStarts(l) \/ BrokerRedeems(l) \/ CallbackSaves(l) \/ CallbackRefuses(l)
  \/ \E r \in Refreshes :
       RefreshStarts(r) \/ RefreshAnswered(r) \/ RefreshFails(r) \/ RefreshSaves(r)
  \/ Tick \/ RPRestart \/ SessionEnds \/ BrokerRestart \/ IdPRestart

Spec == Init /\ [][Next]_vars

-----------------------------------------------------------------------------
(* Properties.                                                             *)

Tokens == [who : Users, via : Logins, minted : Nat]
SessionUsers == {NoUser} \cup [who : Users, login : Logins, since : Nat, token : Tokens]
LoginStages == {"idle", "starting", "away", "issued", "coded", "calling", "redeemed",
                "done", "failed"}
RefreshStages == {"idle", "asked", "got", "done", "failed"}

\* Every variable has its type (rpUser, the session, Tokens, AuthorizationCode, User),
\* and a refresh that runs has a user to refresh for.
TypeOK ==
  /\ now \in 0..MaxTime /\ faults \in 0..MaxFaults
  /\ DOMAIN at = Handlers
  /\ \A l \in Logins : at[l] \in LoginStages
  /\ \A r \in Refreshes : at[r] \in RefreshStages
  /\ cookie \in Logins \cup {Nil}
  /\ sessions \in [Logins -> [live : BOOLEAN, state : Logins \cup {Nil}, user : SessionUsers]]
  /\ snap \in [Handlers -> [sid : Handlers \cup {Nil}, state : Logins \cup {Nil},
                            user : SessionUsers]]
  /\ \A h \in Running : snap[h].sid \in Logins
  /\ \A r \in Refreshes : at[r] \in {"asked", "got"} => snap[r].user # NoUser
  /\ tokens \in [Logins -> [who : Users \cup {Nil}, iat : Nat, key : Nat]]
  /\ \A l \in Logins :
       at[l] \in {"issued", "coded", "calling", "redeemed", "done"} =>
         tokens[l].who \in Users
  /\ resigned \in [Logins -> [at : Nat, key : Nat]]
  /\ codes \subseteq Logins
  /\ users \in [Users -> [via : Logins \cup {Nil}, iat : Nat, key : Nat]]
  /\ idpKey \in Nat \ {0} /\ brokerKey \in Nat \ {0}
  /\ overlapped \subseteq Handlers /\ disturbed \subseteq Logins /\ late \subseteq Logins
  /\ clean \in BOOLEAN /\ expected \in SessionUsers

\* A login fails only if its start overlapped another handler, another login of the
\* browser or a fault came in between, or five minutes passed on the way (the state
\* check of handleCallback, a session that three handlers write back whole, and codes
\* that outlive the ID tokens behind them).
LoginFailsForCause == \A l \in Logins : at[l] = "failed" => l \in disturbed \cup late

\* As long as handlers do not overlap, the home page shows the user who signed in last
\* with the access token refreshed last: no login link, failed callback or failed
\* refresh takes that back (handleLogin, handleCallback and handleRefresh).
SignInSticks == clean /\ Running = {} => HomeUser = expected

\* However the handlers overlap, the access token in a session is one of the session's
\* user (handleRefresh writes the user and the token of one request).
TokenOfItsUser ==
  \A s \in Logins : sessions[s].user # NoUser =>
    sessions[s].user.token.who = sessions[s].user.who

\* Nobody is signed in later than two ID-token lifetimes after the IdP vouched for
\* him, though the broker starts the lifetime anew, and no access token is minted
\* later than a refresh token's lifetime after it (resignTokensWithBrokerKey,
\* VerifyIDToken, ValidateRefreshToken), wherever processes restart.
IdentityFresh ==
  \A s \in Logins :
    LET user == sessions[s].user
    IN user # NoUser =>
         /\ user.since < tokens[user.login].iat + 2 * IdLife
         /\ user.token.minted < tokens[user.token.via].iat + RefreshLife

=============================================================================
