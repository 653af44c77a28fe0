------------------------- MODULE HomeSession_proofs -------------------------
(***************************************************************************)
(* Theorems about HomeSession, for any logins, refreshes and accounts, any *)
(* lifetimes in the code's order and any number of faults: type            *)
(* correctness, what belongs together in a session, how old it may be, how *)
(* long a sign-in lasts, and why a login may fail.                         *)
(***************************************************************************)
EXTENDS HomeSession, TLAPS

(***************************************************************************)
(* Type correctness.  The broker keeps a refresh token under the account   *)
(* the IdP issued it for.                                                  *)
(***************************************************************************)

Stages == LoginStages \cup RefreshStages

\* A login for which the IdP has been asked, whatever became of it.
After == LoginStages \ {"idle", "starting", "away"}

Snaps    == [sid : Handlers \cup {Nil}, state : Logins \cup {Nil}, user : SessionUsers]
Contents == [live : BOOLEAN, state : Logins \cup {Nil}, user : SessionUsers]

KeptOK ==
  \A u \in Users : users[u].key # 0 =>
    /\ users[u].via \in Logins
    /\ at[users[u].via] \in After
    /\ tokens[users[u].via] = [who |-> u, iat |-> users[u].iat, key |-> users[u].key]

TInv == TypeOK /\ KeptOK

LEMMA NoUserType == NoUser \in SessionUsers /\ NoSnap \in Snaps /\ NoSession \in Contents
  BY DEF NoUser, NoSnap, NoSession, SessionUsers, Snaps, Contents

\* A user of the session, when it is one, has an account.
LEMMA UserFields ==
  ASSUME NEW x \in SessionUsers, x # NoUser
  PROVE  x \in [who : Users, login : Logins, since : Nat, token : Tokens]
  BY DEF SessionUsers

LEMMA ReadType ==
  ASSUME TypeOK, NEW h
  PROVE  /\ Read(h) = IF cookie # Nil /\ sessions[cookie].live
                      THEN [sid |-> cookie, state |-> sessions[cookie].state,
                            user |-> sessions[cookie].user]
                      ELSE [sid |-> h, state |-> Nil, user |-> NoUser]
         /\ Read(h).sid \in Logins \cup {h}
         /\ Read(h).state \in Logins \cup {Nil}
         /\ Read(h).user \in SessionUsers
         /\ Read(h).state # Nil \/ Read(h).user # NoUser => Read(h).sid \in Logins
         /\ Read(h).user = HomeUser
<1>1. CASE cookie # Nil /\ sessions[cookie].live
  BY <1>1, NoUserType DEF TypeOK, Read, HomeUser
<1>2. CASE ~(cookie # Nil /\ sessions[cookie].live)
  BY <1>2, NoUserType DEF TypeOK, Read, HomeUser
<1> QED
  BY <1>1, <1>2

LEMMA InitTInv == Init => TInv
<1> SUFFICES ASSUME Init PROVE TInv
  OBVIOUS
<1>1. TypeOK
  BY NoUserType, SessionAssumption
  DEF Init, TypeOK, LoginStages, RefreshStages, Handlers, Running, Writing, Snaps, Contents,
      NoRefreshToken
<1>2. KeptOK
  BY DEF Init, KeptOK, NoRefreshToken
<1> QED
  BY <1>1, <1>2 DEF TInv

\* A handler that ends writes the whole session, or nothing.
LEMMA SaveType ==
  ASSUME TypeOK, NEW s \in Logins, NEW state \in Logins \cup {Nil}, NEW user \in SessionUsers,
         Save(s, state, user)
  PROVE  /\ sessions' \in [Logins -> Contents]
         /\ cookie' \in Logins
         /\ \A t \in Logins : sessions'[t].user \in {sessions[t].user, user}
  BY DEF Save, TypeOK, Contents

\* The parts of TypeOK that speak of running handlers.
RunningOK ==
  /\ \A l \in Logins : at[l] \in LoginStages
  /\ \A r \in Refreshes : at[r] \in RefreshStages
  /\ \A h \in Running : snap[h].sid \in Logins
  /\ \A r \in Refreshes : at[r] \in {"asked", "got"} => snap[r].user # NoUser
  /\ \A l \in Logins :
       at[l] \in {"issued", "coded", "calling", "redeemed", "done"} => tokens[l].who \in Users

\* A step that moves handler h alone.
LEMMA OneMoves ==
  ASSUME TypeOK, NEW h \in Handlers, NEW to, Go(h, to),
         h \in Logins => to \in LoginStages,
         h \in Refreshes => to \in RefreshStages,
         snap' \in [Handlers -> Snaps],
         \A g \in Handlers \ {h} : snap'[g] = snap[g],
         to \in Writing => snap'[h].sid \in Logins,
         to \in {"asked", "got"} => snap'[h].user # NoUser,
         \A l \in Logins \ {h} : tokens'[l] = tokens[l],
         to \in {"issued", "coded", "calling", "redeemed", "done"} /\ h \in Logins
           => tokens'[h].who \in Users
  PROVE  /\ DOMAIN at' = Handlers
         /\ RunningOK'
<1> USE SessionAssumption DEF TypeOK, Go, Handlers
<1>1. DOMAIN at' = Handlers /\ at'[h] = to /\ \A g \in Handlers \ {h} : at'[g] = at[g]
  OBVIOUS
<1>2. \A l \in Logins : at'[l] \in LoginStages
  BY <1>1
<1>3. \A r \in Refreshes : at'[r] \in RefreshStages
  BY <1>1
<1>4. \A g \in Running' : snap'[g].sid \in Logins
  BY <1>1 DEF Running
<1>5. \A r \in Refreshes : at'[r] \in {"asked", "got"} => snap'[r].user # NoUser
  BY <1>1
<1>6. \A l \in Logins :
        at'[l] \in {"issued", "coded", "calling", "redeemed", "done"} => tokens'[l].who \in Users
  BY <1>1
<1> QED
  BY <1>1, <1>2, <1>3, <1>4, <1>5, <1>6 DEF RunningOK

LEMMA LoginTypes ==
  ASSUME TInv, NEW l \in Logins,
         \/ LoginStarts(l) \/ LoginSaves(l) \/ BrokerResigns(l)
         \/ \E u \in Users : IdPIssues(l, u)
         \/ CallbackStarts(l) \/ BrokerRedeems(l) \/ CallbackSaves(l) \/ CallbackRefuses(l)
  PROVE  TypeOK'
<1> USE SessionAssumption, NoUserType DEF TInv, Handlers, Snaps, Contents, rpVars, brokerVars, idpVars
<1>1. CASE LoginStarts(l)
  <2>1. Read(l) \in Snaps /\ Read(l).sid \in Logins
    BY ReadType DEF Snaps
  <2>2. snap' = [snap EXCEPT ![l] = Read(l)] /\ snap' \in [Handlers -> Snaps]
    BY <1>1, <2>1 DEF LoginStarts, TypeOK
  <2>3. DOMAIN at' = Handlers /\ RunningOK'
    BY <1>1, <2>1, <2>2, OneMoves DEF LoginStarts, TypeOK, LoginStages
  <2>4. overlapped' \subseteq Handlers /\ disturbed' \subseteq Logins /\ clean' \in BOOLEAN
    <3>1. overlapped' \subseteq Handlers /\ clean' \in BOOLEAN
      <4>1. Starts(l) /\ overlapped \subseteq Handlers /\ clean \in BOOLEAN
        BY <1>1 DEF LoginStarts, TypeOK
      <4>2. Running \subseteq Handlers /\ l \in Handlers
        BY DEF Running
      <4> QED
        BY <4>1, <4>2, Zenon DEF Starts
    <3>2. disturbed' \subseteq Logins
      BY <1>1 DEF LoginStarts, TypeOK, Pending
    <3> QED
      BY <3>1, <3>2
  <2> QED
    BY <1>1, <2>2, <2>3, <2>4 DEF LoginStarts, TypeOK, RunningOK
<1>2. CASE LoginSaves(l)
  <2>1. snap[l].sid \in Logins /\ snap[l] \in Snaps
    BY <1>2 DEF LoginSaves, TypeOK, Running, Writing
  <2>2. sessions' \in [Logins -> Contents] /\ cookie' \in Logins
    BY <1>2, <2>1, SaveType DEF LoginSaves
  <2>3. snap' = [snap EXCEPT ![l] = NoSnap] /\ snap' \in [Handlers -> Snaps]
    BY <1>2 DEF LoginSaves, Ends, TypeOK
  <2>4. DOMAIN at' = Handlers /\ RunningOK'
    BY <1>2, <2>3, OneMoves DEF LoginSaves, TypeOK, LoginStages, Writing
  <2> QED
    BY <1>2, <2>2, <2>3, <2>4 DEF LoginSaves, Ends, TypeOK, RunningOK
<1>3. ASSUME NEW u \in Users, IdPIssues(l, u) PROVE TypeOK'
  <2>1. tokens' \in [Logins -> [who : Users \cup {Nil}, iat : Nat, key : Nat]]
    BY <1>3 DEF IdPIssues, TypeOK
  <2>2. DOMAIN at' = Handlers /\ RunningOK'
    BY <1>3, OneMoves DEF IdPIssues, TypeOK, LoginStages, Writing
  <2> QED
    BY <1>3, <2>1, <2>2 DEF IdPIssues, TypeOK, RunningOK, ghosts
<1>4. CASE BrokerResigns(l)
  <2>1. PICK to \in {"coded", "failed"} : Go(l, to)
    BY <1>4 DEF BrokerResigns
  <2>2. DOMAIN at' = Handlers /\ RunningOK'
    BY <1>4, <2>1, OneMoves DEF BrokerResigns, TypeOK, LoginStages, Writing
  <2>3. resigned' \in [Logins -> [at : Nat, key : Nat]] /\ codes' \subseteq Logins
    <3>1. \/ UNCHANGED <<resigned, codes>>
          \/ /\ resigned' = [resigned EXCEPT ![l] = [at |-> now, key |-> brokerKey]]
             /\ codes' = codes \cup {l}
      BY <1>4 DEF BrokerResigns
    <3>2. [at |-> now, key |-> brokerKey] \in [at : Nat, key : Nat]
      BY DEF TypeOK
    <3>3. resigned \in [Logins -> [at : Nat, key : Nat]] /\ codes \subseteq Logins
      BY DEF TypeOK
    <3> QED
      BY <3>1, <3>2, <3>3
  <2> QED
    BY <1>4, <2>2, <2>3 DEF BrokerResigns, TypeOK, RunningOK, ghosts
<1>5. CASE CallbackStarts(l)
  <2>1. CASE Read(l).state = l
    <3>1. Read(l) \in Snaps /\ Read(l).sid \in Logins
      BY <2>1, ReadType DEF Snaps
    <3>2. snap' = [snap EXCEPT ![l] = Read(l)] /\ snap' \in [Handlers -> Snaps] /\ Go(l, "calling")
      BY <1>5, <2>1, <3>1 DEF CallbackStarts, TypeOK
    <3>3. DOMAIN at' = Handlers /\ RunningOK'
      BY <1>5, <3>1, <3>2, OneMoves DEF CallbackStarts, TypeOK, LoginStages
    <3>4. overlapped' \subseteq Handlers /\ disturbed' \subseteq Logins /\ clean' \in BOOLEAN
      <4>1. Starts(l) /\ disturbed' = disturbed \cup (Running \cap Logins)
        BY <1>5, <2>1 DEF CallbackStarts
      <4> QED
        BY <4>1 DEF Starts, TypeOK, Running
    <3> QED
      BY <1>5, <3>2, <3>3, <3>4 DEF CallbackStarts, TypeOK, RunningOK
  <2>2. CASE Read(l).state # l
    <3>1. Go(l, "failed") /\ UNCHANGED <<snap, overlapped, clean, disturbed>>
      BY <1>5, <2>2 DEF CallbackStarts
    <3>2. DOMAIN at' = Handlers /\ RunningOK'
      BY <1>5, <3>1, OneMoves DEF CallbackStarts, TypeOK, LoginStages, Writing
    <3> QED
      BY <1>5, <3>1, <3>2 DEF CallbackStarts, TypeOK, RunningOK
  <2> QED
    BY <2>1, <2>2
<1>6. CASE BrokerRedeems(l)
  <2>1. snap[l].sid \in Logins /\ tokens[l].who \in Users
    BY <1>6 DEF BrokerRedeems, TypeOK, Running, Writing
  <2>2. users' \in [Users -> [via : Logins \cup {Nil}, iat : Nat, key : Nat]]
    BY <1>6, <2>1 DEF BrokerRedeems, TypeOK
  <2>3. codes' \subseteq Logins /\ overlapped' \subseteq Handlers
    BY <1>6 DEF BrokerRedeems, TypeOK, Ends
  <2>4. snap' \in [Handlers -> Snaps] /\ \A g \in Handlers \ {l} : snap'[g] = snap[g]
    <3>1. snap' = snap \/ snap' = [snap EXCEPT ![l] = NoSnap]
      BY <1>6 DEF BrokerRedeems, Ends
    <3>2. snap \in [Handlers -> Snaps]
      BY DEF TypeOK
    <3> HIDE DEF TInv, Snaps, Handlers
    <3>3. l \in Handlers
      BY DEF Handlers
    <3> QED
      BY <3>1, <3>2, <3>3
  <2>5. PICK to \in {"redeemed", "failed"} : Go(l, to) /\ (to = "redeemed" => snap' = snap)
    BY <1>6 DEF BrokerRedeems
  <2>6. DOMAIN at' = Handlers /\ RunningOK'
    BY <1>6, <2>1, <2>4, <2>5, OneMoves DEF BrokerRedeems, TypeOK, LoginStages, Writing
  <2> QED
    BY <1>6, <2>2, <2>3, <2>4, <2>6 DEF BrokerRedeems, TypeOK, RunningOK
<1>7. CASE CallbackSaves(l)
  <2>1. snap[l].sid \in Logins /\ snap[l] \in Snaps /\ tokens[l].who \in Users
    BY <1>7 DEF CallbackSaves, TypeOK, Running, Writing
  <2>2. SignedIn(l) \in SessionUsers
    BY <2>1 DEF SignedIn, SessionUsers, Tokens, TypeOK
  <2>3. sessions' \in [Logins -> Contents] /\ cookie' \in Logins
    BY <1>7, <2>1, <2>2, SaveType DEF CallbackSaves
  <2>4. snap' = [snap EXCEPT ![l] = NoSnap] /\ snap' \in [Handlers -> Snaps]
    BY <1>7 DEF CallbackSaves, Ends, TypeOK
  <2>5. DOMAIN at' = Handlers /\ RunningOK'
    BY <1>7, <2>1, <2>4, OneMoves DEF CallbackSaves, TypeOK, LoginStages, Writing
  <2> QED
    BY <1>7, <2>2, <2>3, <2>4, <2>5
    DEF CallbackSaves, Ends, TypeOK, RunningOK
<1>8. CASE CallbackRefuses(l)
  <2>1. snap' = [snap EXCEPT ![l] = NoSnap] /\ snap' \in [Handlers -> Snaps]
    BY <1>8 DEF CallbackRefuses, Ends, TypeOK
  <2>2. DOMAIN at' = Handlers /\ RunningOK'
    BY <1>8, <2>1, OneMoves DEF CallbackRefuses, TypeOK, LoginStages, Writing
  <2> QED
    BY <1>8, <2>1, <2>2 DEF CallbackRefuses, Ends, TypeOK, RunningOK
<1> QED
  BY <1>1, <1>2, <1>3, <1>4, <1>5, <1>6, <1>7, <1>8

\* The token a refresh gets is one of the user it read at its start.
LEMMA AnswerFits ==
  ASSUME TInv, NEW r \in Refreshes, RefreshAnswered(r)
  PROVE  \E x \in Tokens :
           /\ x.who = snap[r].user.who /\ x.minted = now
           /\ x.via \in Logins /\ at[x.via] \in After
           /\ now < tokens[x.via].iat + RefreshLife
           /\ snap' = [snap EXCEPT ![r] = [sid |-> snap[r].sid, state |-> snap[r].state,
                          user |-> [snap[r].user EXCEPT !.token = x]]]
<1> USE SessionAssumption DEF TInv, Handlers
<1>1. PICK u \in Users : u = snap[r].user.who
  <2>1. snap[r].user \in SessionUsers /\ snap[r].user # NoUser
    BY DEF RefreshAnswered, TypeOK
  <2> QED
    BY <2>1, UserFields
<1>2. PICK t : t = users[u]
  OBVIOUS
<1>3. Valid(t.iat, RefreshLife, t.key, idpKey)
  BY <1>1, <1>2 DEF RefreshAnswered
<1>4. t.key # 0 /\ now < t.iat + RefreshLife
  BY <1>3 DEF Valid, TypeOK
<1>5. /\ t.via \in Logins /\ at[t.via] \in After
      /\ tokens[t.via] = [who |-> u, iat |-> t.iat, key |-> t.key]
  BY <1>2, <1>4 DEF KeptOK
<1>6. PICK x : x = [who |-> tokens[t.via].who, via |-> t.via, minted |-> now]
  OBVIOUS
<1>7. x \in Tokens
  BY <1>5, <1>6 DEF Tokens, TypeOK
<1>8. snap' = [snap EXCEPT ![r] = [snap[r] EXCEPT !.user = [snap[r].user EXCEPT !.token = x]]]
  BY <1>1, <1>2, <1>6 DEF RefreshAnswered
<1>9. ASSUME NEW old \in Snaps, NEW y
      PROVE  [old EXCEPT !.user = y] = [sid |-> old.sid, state |-> old.state, user |-> y]
  BY DEF Snaps
<1>10. snap[r] \in Snaps
  BY DEF TypeOK, Snaps
<1>11. snap' = [snap EXCEPT ![r] = [sid |-> snap[r].sid, state |-> snap[r].state,
                          user |-> [snap[r].user EXCEPT !.token = x]]]
  BY <1>8, <1>9, <1>10
<1>12. /\ x.who = snap[r].user.who /\ x.minted = now
       /\ x.via \in Logins /\ at[x.via] \in After
       /\ now < tokens[x.via].iat + RefreshLife
  BY <1>1, <1>4, <1>5, <1>6
<1> QED
  BY <1>7, <1>11, <1>12

LEMMA RefreshTypes ==
  ASSUME TInv, NEW r \in Refreshes,
         RefreshStarts(r) \/ RefreshAnswered(r) \/ RefreshFails(r) \/ RefreshSaves(r)
  PROVE  TypeOK'
<1> USE SessionAssumption, NoUserType
    DEF TInv, Handlers, Snaps, Contents, rpVars, brokerVars, idpVars
<1>1. CASE RefreshStarts(r)
  <2>1. Read(r) \in Snaps /\ Read(r).sid \in Logins /\ Read(r).user # NoUser
    BY <1>1, ReadType DEF RefreshStarts
  <2>2. snap' = [snap EXCEPT ![r] = Read(r)] /\ snap' \in [Handlers -> Snaps]
    BY <1>1, <2>1 DEF RefreshStarts, TypeOK
  <2>3. DOMAIN at' = Handlers /\ RunningOK'
    BY <1>1, <2>1, <2>2, OneMoves DEF RefreshStarts, TypeOK, RefreshStages
  <2>4. overlapped' \subseteq Handlers /\ disturbed' \subseteq Logins /\ clean' \in BOOLEAN
    BY <1>1 DEF RefreshStarts, Starts, TypeOK, Running
  <2> QED
    BY <1>1, <2>2, <2>3, <2>4 DEF RefreshStarts, TypeOK, RunningOK
<1>2. CASE RefreshAnswered(r)
  <2>1. PICK x \in Tokens :
          /\ x.who = snap[r].user.who
          /\ snap' = [snap EXCEPT ![r] = [sid |-> snap[r].sid, state |-> snap[r].state,
                         user |-> [snap[r].user EXCEPT !.token = x]]]
    BY <1>2, AnswerFits
  <2>2. snap[r] \in Snaps /\ snap[r].sid \in Logins /\ snap[r].user # NoUser
    BY <1>2 DEF RefreshAnswered, TypeOK, Running, Writing
  <2>3. [snap[r].user EXCEPT !.token = x] \in SessionUsers \ {NoUser}
    BY <2>2, UserFields DEF SessionUsers, NoUser
  <2>4. /\ snap' \in [Handlers -> Snaps] /\ \A g \in Handlers \ {r} : snap'[g] = snap[g]
        /\ snap'[r].sid = snap[r].sid /\ snap'[r].user # NoUser
    BY <2>1, <2>2, <2>3 DEF TypeOK
  <2>5. DOMAIN at' = Handlers /\ RunningOK'
    BY <1>2, <2>2, <2>4, OneMoves DEF RefreshAnswered, TypeOK, RefreshStages
  <2> QED
    BY <1>2, <2>4, <2>5 DEF RefreshAnswered, TypeOK, RunningOK, ghosts
<1>3. CASE RefreshFails(r)
  <2>1. snap' = [snap EXCEPT ![r] = NoSnap] /\ snap' \in [Handlers -> Snaps]
    BY <1>3 DEF RefreshFails, Ends, TypeOK
  <2>2. DOMAIN at' = Handlers /\ RunningOK'
    BY <1>3, <2>1, OneMoves DEF RefreshFails, TypeOK, RefreshStages, Writing
  <2> QED
    BY <1>3, <2>1, <2>2 DEF RefreshFails, Ends, TypeOK, RunningOK
<1>4. CASE RefreshSaves(r)
  <2>1. snap[r].sid \in Logins /\ snap[r] \in Snaps
    BY <1>4 DEF RefreshSaves, TypeOK, Running, Writing
  <2>2. sessions' \in [Logins -> Contents] /\ cookie' \in Logins
    BY <1>4, <2>1, SaveType DEF RefreshSaves
  <2>3. snap' = [snap EXCEPT ![r] = NoSnap] /\ snap' \in [Handlers -> Snaps]
    BY <1>4 DEF RefreshSaves, Ends, TypeOK
  <2>4. DOMAIN at' = Handlers /\ RunningOK'
    BY <1>4, <2>3, OneMoves DEF RefreshSaves, TypeOK, RefreshStages, Writing
  <2>5. expected' \in SessionUsers
    BY <1>4, <2>1 DEF RefreshSaves, TypeOK
  <2> QED
    BY <1>4, <2>2, <2>3, <2>4, <2>5 DEF RefreshSaves, Ends, TypeOK, RunningOK
<1> QED
  BY <1>1, <1>2, <1>3, <1>4

LEMMA WorldTypes ==
  ASSUME TInv, Tick \/ RPRestart \/ SessionEnds \/ BrokerRestart \/ IdPRestart \/ UNCHANGED vars
  PROVE  TypeOK'
<1> USE SessionAssumption, NoUserType
    DEF TInv, Handlers, Snaps, Contents, rpVars, brokerVars, idpVars, ghosts
<1>1. CASE Tick
  BY <1>1 DEF Tick, TypeOK, Running, Pending
<1>2. CASE RPRestart
  <2>1. DOMAIN at' = Handlers /\ \A h \in Handlers : at'[h] = IF h \in Running THEN "failed" ELSE at[h]
    BY <1>2 DEF RPRestart
  <2>2. Running' = {}
    BY <2>1 DEF Running, Writing
  <2>3. snap' \in [Handlers -> Snaps] /\ sessions' \in [Logins -> Contents]
    BY <1>2 DEF RPRestart
  <2>4. /\ \A l \in Logins : at'[l] \in LoginStages
        /\ \A r \in Refreshes : at'[r] \in RefreshStages
    BY <2>1 DEF TypeOK, LoginStages, RefreshStages
  <2>5. /\ \A r \in Refreshes : at'[r] \notin {"asked", "got"}
        /\ \A l \in Logins :
             at'[l] \in {"issued", "coded", "calling", "redeemed", "done"} =>
               tokens[l].who \in Users
    BY <2>1 DEF TypeOK, Running, Writing
  <2>6. disturbed' \subseteq Logins /\ faults' \in 0..MaxFaults
    BY <1>2 DEF RPRestart, Fault, TypeOK, Pending
  <2> QED
    BY <1>2, <2>1, <2>2, <2>3, <2>4, <2>5, <2>6 DEF RPRestart, TypeOK
<1>3. CASE SessionEnds
  BY <1>3 DEF SessionEnds, Fault, TypeOK, Running, Pending
<1>4. CASE BrokerRestart
  BY <1>4 DEF BrokerRestart, Fault, TypeOK, Running, Pending, NoRefreshToken
<1>5. CASE IdPRestart
  BY <1>5 DEF IdPRestart, Fault, TypeOK, Running, Pending
<1>6. CASE UNCHANGED vars
  BY <1>6 DEF vars, TypeOK, Running
<1> QED
  BY <1>1, <1>2, <1>3, <1>4, <1>5, <1>6

\* The tokens of a login are made once: an issued login stays one, with its tokens.
LEMMA AfterKept ==
  ASSUME TInv, [Next]_vars, NEW k \in Logins, at[k] \in After
  PROVE  at'[k] \in After /\ tokens'[k] = tokens[k]
<1> USE SessionAssumption
    DEF TInv, Handlers, After, LoginStages, rpVars, brokerVars, idpVars, ghosts, Go
<1>1. ASSUME NEW l \in Logins, NEW to \in After, Go(l, to), UNCHANGED tokens
      PROVE  at'[k] \in After /\ tokens'[k] = tokens[k]
  BY <1>1 DEF TypeOK
<1>2. ASSUME NEW l \in Logins, LoginStarts(l) \/ LoginSaves(l)
      PROVE  at'[k] \in After /\ tokens'[k] = tokens[k]
  BY <1>2 DEF LoginStarts, LoginSaves, TypeOK
<1>3. ASSUME NEW l \in Logins, NEW u \in Users, IdPIssues(l, u)
      PROVE  at'[k] \in After /\ tokens'[k] = tokens[k]
  BY <1>3 DEF IdPIssues, TypeOK
<1>4. ASSUME NEW l \in Logins, \/ BrokerResigns(l) \/ CallbackStarts(l) \/ BrokerRedeems(l)
                               \/ CallbackSaves(l) \/ CallbackRefuses(l)
      PROVE  at'[k] \in After /\ tokens'[k] = tokens[k]
  <2>1. {"coded", "failed", "calling", "redeemed", "done"} \subseteq After
    OBVIOUS
  <2>2. PICK to \in After : Go(l, to)
    BY <1>4, <2>1 DEF BrokerResigns, CallbackStarts, BrokerRedeems, CallbackSaves, CallbackRefuses
  <2>3. UNCHANGED tokens
    BY <1>4 DEF BrokerResigns, CallbackStarts, BrokerRedeems, CallbackSaves, CallbackRefuses
  <2> QED
    BY <1>1, <2>2, <2>3
<1>5. ASSUME NEW r \in Refreshes, \/ RefreshStarts(r) \/ RefreshAnswered(r)
                                  \/ RefreshFails(r) \/ RefreshSaves(r)
      PROVE  at'[k] \in After /\ tokens'[k] = tokens[k]
  <2>1. PICK to : Go(r, to)
    BY <1>5 DEF RefreshStarts, RefreshAnswered, RefreshFails, RefreshSaves
  <2>2. UNCHANGED tokens
    BY <1>5 DEF RefreshStarts, RefreshAnswered, RefreshFails, RefreshSaves
  <2> QED
    BY <2>1, <2>2 DEF TypeOK
<1>6. CASE RPRestart
  BY <1>6 DEF RPRestart
<1>7. CASE Tick \/ SessionEnds \/ BrokerRestart \/ IdPRestart \/ UNCHANGED vars
  BY <1>7 DEF Tick, SessionEnds, BrokerRestart, IdPRestart, vars
<1> QED
  BY <1>2, <1>3, <1>4, <1>5, <1>6, <1>7 DEF Next

LEMMA NextKept == TInv /\ [Next]_vars => KeptOK'
<1> SUFFICES ASSUME TInv, [Next]_vars PROVE KeptOK'
  OBVIOUS
<1> USE SessionAssumption DEF TInv, Handlers, rpVars, brokerVars, idpVars, ghosts
<1>1. ASSUME NEW l \in Logins, BrokerRedeems(l) PROVE KeptOK'
  <2>1. at[l] \in After /\ tokens[l].who \in Users
    BY <1>1 DEF BrokerRedeems, TypeOK, After, LoginStages
  <2>2. \/ users' = users
        \/ users' = [users EXCEPT ![tokens[l].who] =
                       [via |-> l, iat |-> tokens[l].iat, key |-> tokens[l].key]]
    BY <1>1 DEF BrokerRedeems
  <2>3. CASE users' = users
    BY <2>3, AfterKept DEF KeptOK
  <2>4. CASE users' # users
    <3>1. users'[tokens[l].who] = [via |-> l, iat |-> tokens[l].iat, key |-> tokens[l].key]
      BY <2>1, <2>2, <2>4 DEF TypeOK
    <3>2. \A u \in Users \ {tokens[l].who} : users'[u] = users[u]
      BY <2>1, <2>2, <2>4 DEF TypeOK
    <3>3. tokens[l] = [who |-> tokens[l].who, iat |-> tokens[l].iat, key |-> tokens[l].key]
      BY DEF TypeOK
    <3> QED
      BY <2>1, <3>1, <3>2, <3>3, AfterKept DEF KeptOK
  <2> QED
    BY <2>3, <2>4
<1>2. CASE BrokerRestart
  BY <1>2 DEF BrokerRestart, KeptOK, NoRefreshToken
<1>3. CASE users' = users
  BY <1>3, AfterKept DEF KeptOK
<1>4. ASSUME ~BrokerRestart, \A l \in Logins : ~BrokerRedeems(l)
      PROVE  users' = users
  BY <1>4 DEF Next, LoginStarts, LoginSaves, IdPIssues, BrokerResigns, CallbackStarts, CallbackSaves,
              CallbackRefuses, RefreshStarts, RefreshAnswered, RefreshFails, RefreshSaves, Tick,
              RPRestart, SessionEnds, IdPRestart, vars
<1> QED
  BY <1>1, <1>2, <1>3, <1>4

LEMMA NextTInv == TInv /\ [Next]_vars => TInv'
  BY LoginTypes, RefreshTypes, WorldTypes, NextKept DEF Next, TInv

LEMMA TInvInvariant == Spec => []TInv
  BY InitTInv, NextTInv, PTL DEF Spec

\* Every reachable state is well typed: every handler that writes a session holds one
\* that exists, and every refresh has a user to refresh for (TypeOK).
THEOREM TypeCorrect == Spec => []TypeOK
  BY TInvInvariant, PTL DEF TInv

(***************************************************************************)
(* Whose token it is, and how old: what holds of the users in the session  *)
(* holds of those the handlers have read, which they may write back.       *)
(***************************************************************************)

\* User x of a session or a handler, given where the logins are and their tokens.
Fit(x, where, toks) ==
  x # NoUser =>
    /\ x.token.who = x.who
    /\ where[x.login] \in After /\ where[x.token.via] \in After
    /\ x.since < toks[x.login].iat + 2 * IdLife
    /\ x.token.minted < toks[x.token.via].iat + RefreshLife

SessionsFit  == \A s \in Logins : Fit(sessions[s].user, at, tokens)
HandlersFit  == \A h \in Handlers : Fit(snap[h].user, at, tokens)
ResignedFit  ==
  \A l \in Logins : at[l] \in {"coded", "calling", "redeemed"} =>
    resigned[l].at < tokens[l].iat + IdLife

FInv == TInv /\ SessionsFit /\ HandlersFit /\ ResignedFit

LEMMA InitFInv == Init => FInv
  BY InitTInv, SessionAssumption
  DEF Init, FInv, SessionsFit, HandlersFit, ResignedFit, Fit, NoSession, NoSnap

\* A user that fits goes on to fit.
LEMMA FitKept ==
  ASSUME TInv, [Next]_vars, NEW x \in SessionUsers, Fit(x, at, tokens)
  PROVE  Fit(x, at', tokens')
<1>1. CASE x = NoUser
  BY <1>1 DEF Fit
<1>2. CASE x # NoUser
  <2>1. x.login \in Logins /\ x.token.via \in Logins
    BY <1>2, UserFields DEF Tokens
  <2> QED
    BY <1>2, <2>1, AfterKept DEF Fit
<1> QED
  BY <1>1, <1>2

LEMMA NextResigned == FInv /\ [Next]_vars => ResignedFit'
<1> SUFFICES ASSUME FInv, [Next]_vars, NEW l \in Logins,
                    at'[l] \in {"coded", "calling", "redeemed"}
             PROVE  resigned'[l].at < tokens'[l].iat + IdLife
  BY DEF ResignedFit
<1> USE SessionAssumption DEF FInv, TInv, Handlers, rpVars, brokerVars, idpVars, ghosts
<1>1. ASSUME BrokerResigns(l) PROVE resigned'[l].at < tokens'[l].iat + IdLife
  <2>1. /\ Valid(tokens[l].iat, IdLife, tokens[l].key, idpKey)
        /\ resigned' = [resigned EXCEPT ![l] = [at |-> now, key |-> brokerKey]]
        /\ tokens' = tokens
    BY <1>1 DEF BrokerResigns, Go, TypeOK
  <2> QED
    BY <2>1 DEF Valid, TypeOK
<1>2. ASSUME ~BrokerResigns(l)
      PROVE  at[l] \in {"coded", "calling", "redeemed"} /\ resigned'[l] = resigned[l]
  <2>1. ASSUME NEW k \in Logins, BrokerResigns(k), k # l
        PROVE  at[l] \in {"coded", "calling", "redeemed"} /\ resigned'[l] = resigned[l]
    BY <2>1 DEF BrokerResigns, Go, TypeOK
  <2>2. ASSUME NEW k \in Logins, LoginStarts(k) \/ LoginSaves(k) \/ \E u \in Users : IdPIssues(k, u)
        PROVE  at[l] \in {"coded", "calling", "redeemed"} /\ resigned'[l] = resigned[l]
    BY <2>2 DEF LoginStarts, LoginSaves, IdPIssues, Go, TypeOK
  <2>3. ASSUME NEW k \in Logins, CallbackStarts(k)
        PROVE  at[l] \in {"coded", "calling", "redeemed"} /\ resigned'[l] = resigned[l]
    BY <2>3 DEF CallbackStarts, Go, TypeOK
  <2>4. ASSUME NEW k \in Logins, BrokerRedeems(k) \/ CallbackSaves(k) \/ CallbackRefuses(k)
        PROVE  at[l] \in {"coded", "calling", "redeemed"} /\ resigned'[l] = resigned[l]
    BY <2>4 DEF BrokerRedeems, CallbackSaves, CallbackRefuses, Go, TypeOK
  <2>5. ASSUME NEW r \in Refreshes, \/ RefreshStarts(r) \/ RefreshAnswered(r)
                                    \/ RefreshFails(r) \/ RefreshSaves(r)
        PROVE  at[l] \in {"coded", "calling", "redeemed"} /\ resigned'[l] = resigned[l]
    BY <2>5 DEF RefreshStarts, RefreshAnswered, RefreshFails, RefreshSaves, Go, TypeOK
  <2>6. CASE RPRestart
    BY <2>6 DEF RPRestart
  <2>7. CASE Tick \/ SessionEnds \/ BrokerRestart \/ IdPRestart \/ UNCHANGED vars
    BY <2>7 DEF Tick, SessionEnds, BrokerRestart, IdPRestart, vars
  <2> QED
    BY <1>2, <2>1, <2>2, <2>3, <2>4, <2>5, <2>6, <2>7 DEF Next
<1>3. CASE ~BrokerResigns(l)
  <2>1. at[l] \in After
    BY <1>2, <1>3 DEF After, LoginStages
  <2> QED
    BY <1>2, <1>3, <2>1, AfterKept DEF ResignedFit
<1> QED
  BY <1>1, <1>3

\* What a sign-in puts into the session fits.
LEMMA SignedInFits ==
  ASSUME FInv, NEW l \in Logins, CallbackSaves(l)
  PROVE  SignedIn(l) \in SessionUsers /\ Fit(SignedIn(l), at', tokens')
<1> USE SessionAssumption DEF FInv, TInv, Handlers, idpVars
<1>1. tokens[l].who \in Users /\ at'[l] \in After /\ tokens' = tokens
  BY DEF CallbackSaves, TypeOK, Go, After, LoginStages
<1>2. now < resigned[l].at + IdLife /\ resigned[l].at < tokens[l].iat + IdLife
  BY DEF CallbackSaves, IdTokenValid, Valid, ResignedFit
<1>3. now < tokens[l].iat + 2 * IdLife /\ tokens[l].iat < tokens[l].iat + RefreshLife
  BY <1>2 DEF TypeOK
<1>4. SignedIn(l) \in SessionUsers
  BY <1>1 DEF SignedIn, SessionUsers, Tokens, TypeOK
<1> QED
  BY <1>1, <1>3, <1>4 DEF Fit, SignedIn

LEMMA NextFits == FInv /\ [Next]_vars => SessionsFit' /\ HandlersFit'
<1> SUFFICES ASSUME FInv, [Next]_vars PROVE SessionsFit' /\ HandlersFit'
  OBVIOUS
<1> USE SessionAssumption DEF FInv, Handlers, rpVars, brokerVars, idpVars
<1>0. /\ \A s \in Logins : sessions[s].user \in SessionUsers /\ Fit(sessions[s].user, at', tokens')
      /\ \A h \in Handlers : snap[h].user \in SessionUsers /\ Fit(snap[h].user, at', tokens')
  BY FitKept DEF SessionsFit, HandlersFit, TInv, TypeOK
<1>1. Fit(NoUser, at', tokens') /\ NoSnap.user = NoUser /\ NoSession.user = NoUser
  BY DEF Fit, NoSnap, NoSession
<1>2. Fit(HomeUser, at', tokens')
  BY <1>0, <1>1 DEF HomeUser, Read, TInv, TypeOK
<1>3. ASSUME NEW h \in Handlers, snap' = [snap EXCEPT ![h] = NoSnap]
      PROVE  HandlersFit'
  BY <1>0, <1>1, <1>3 DEF HandlersFit, TInv, TypeOK
<1>4. ASSUME NEW h \in Handlers, snap' = [snap EXCEPT ![h] = Read(h)]
      PROVE  HandlersFit'
  BY <1>0, <1>2, <1>4, ReadType DEF HandlersFit, TInv, TypeOK
<1>5. ASSUME NEW s \in Logins, NEW state \in Logins \cup {Nil}, NEW user \in SessionUsers,
             Save(s, state, user), Fit(user, at', tokens')
      PROVE  SessionsFit'
  BY <1>0, <1>5, SaveType DEF SessionsFit, TInv
<1>6. /\ UNCHANGED sessions => SessionsFit'
      /\ UNCHANGED snap => HandlersFit'
  BY <1>0 DEF SessionsFit, HandlersFit
<1>7. ASSUME NEW l \in Logins, LoginStarts(l) \/ CallbackStarts(l) PROVE SessionsFit' /\ HandlersFit'
  BY <1>4, <1>6, <1>7 DEF LoginStarts, CallbackStarts
<1>8. ASSUME NEW r \in Refreshes, RefreshStarts(r) PROVE SessionsFit' /\ HandlersFit'
  BY <1>4, <1>6, <1>8 DEF RefreshStarts
<1>9. ASSUME NEW l \in Logins, LoginSaves(l) PROVE SessionsFit' /\ HandlersFit'
  <2>1. snap[l].sid \in Logins
    BY <1>9 DEF LoginSaves, TInv, TypeOK, Running, Writing
  <2> QED
    BY <1>0, <1>3, <1>5, <1>9, <2>1 DEF LoginSaves, Ends
<1>10. ASSUME NEW r \in Refreshes, RefreshSaves(r) PROVE SessionsFit' /\ HandlersFit'
  <2>1. snap[r].sid \in Logins /\ snap[r].state \in Logins \cup {Nil}
    BY <1>10 DEF RefreshSaves, TInv, TypeOK, Running, Writing
  <2> QED
    BY <1>0, <1>3, <1>5, <1>10, <2>1 DEF RefreshSaves, Ends
<1>11. ASSUME NEW l \in Logins, CallbackSaves(l) PROVE SessionsFit' /\ HandlersFit'
  <2>1. snap[l].sid \in Logins /\ snap[l].state \in Logins \cup {Nil}
    BY <1>11 DEF CallbackSaves, TInv, TypeOK, Running, Writing
  <2> QED
    BY <1>3, <1>5, <1>11, <2>1, SignedInFits DEF CallbackSaves, Ends
<1>12. ASSUME NEW r \in Refreshes, RefreshAnswered(r) PROVE SessionsFit' /\ HandlersFit'
  <2>1. PICK x \in Tokens :
          /\ x.who = snap[r].user.who /\ x.minted = now
          /\ x.via \in Logins /\ at[x.via] \in After
          /\ now < tokens[x.via].iat + RefreshLife
          /\ snap' = [snap EXCEPT ![r] = [sid |-> snap[r].sid, state |-> snap[r].state,
                         user |-> [snap[r].user EXCEPT !.token = x]]]
    BY <1>12, AnswerFits
  <2>2. PICK y \in SessionUsers \ {NoUser} : y = snap[r].user
    BY <1>0, <1>12 DEF RefreshAnswered, TInv, TypeOK
  <2>3. at'[x.via] \in After /\ tokens'[x.via] = tokens[x.via]
    BY <2>1, AfterKept
  <2>4. Fit(y, at', tokens') /\ x.who = y.who
    BY <1>0, <2>1, <2>2
  <2>5. y \in [who : Users, login : Logins, since : Nat, token : Tokens]
    BY <2>2, UserFields
  <2>6. Fit([y EXCEPT !.token = x], at', tokens')
    BY <2>1, <2>2, <2>3, <2>4, <2>5 DEF Fit
  <2>7. /\ snap'[r].user = [y EXCEPT !.token = x]
        /\ \A h \in Handlers \ {r} : snap'[h].user = snap[h].user
    BY <2>1, <2>2 DEF TInv, TypeOK
  <2>8. HandlersFit'
    BY <1>0, <2>6, <2>7 DEF HandlersFit
  <2> QED
    BY <1>6, <1>12, <2>8 DEF RefreshAnswered
<1>13. ASSUME NEW l \in Logins, \/ \E u \in Users : IdPIssues(l, u)
                                \/ BrokerResigns(l) \/ BrokerRedeems(l) \/ CallbackRefuses(l)
       PROVE  SessionsFit' /\ HandlersFit'
  <2>1. UNCHANGED sessions /\ (UNCHANGED snap \/ snap' = [snap EXCEPT ![l] = NoSnap])
    BY <1>13 DEF IdPIssues, BrokerResigns, BrokerRedeems, CallbackRefuses, Ends
  <2> QED
    BY <1>3, <1>6, <2>1
<1>14. ASSUME NEW r \in Refreshes, RefreshFails(r) PROVE SessionsFit' /\ HandlersFit'
  BY <1>3, <1>6, <1>14 DEF RefreshFails, Ends
<1>15. CASE RPRestart
  BY <1>1, <1>15 DEF RPRestart, SessionsFit, HandlersFit
<1>16. CASE SessionEnds
  <2>1. \A s \in Logins : sessions'[s].user \in {sessions[s].user, NoUser}
    BY <1>1, <1>16 DEF SessionEnds, TInv, TypeOK
  <2> QED
    BY <1>0, <1>1, <1>6, <1>16, <2>1 DEF SessionEnds, SessionsFit
<1>17. CASE Tick \/ BrokerRestart \/ IdPRestart \/ UNCHANGED vars
  BY <1>6, <1>17 DEF Tick, BrokerRestart, IdPRestart, vars
<1> QED
  BY <1>7, <1>8, <1>9, <1>10, <1>11, <1>12, <1>13, <1>14, <1>15, <1>16, <1>17 DEF Next

LEMMA FInvInvariant == Spec => []FInv
<1>1. FInv /\ [Next]_vars => FInv'
  BY NextTInv, NextResigned, NextFits DEF FInv
<1> QED
  BY <1>1, InitFInv, PTL DEF Spec

\* However logins, callbacks and refreshes overlap, the access token of a session is
\* one of the session's user (TokenOfItsUser; handleRefresh, handleCallback).
THEOREM TokensMatchUsers == Spec => []TokenOfItsUser
<1>1. FInv => TokenOfItsUser
  BY DEF FInv, SessionsFit, Fit, TokenOfItsUser
<1> QED
  BY <1>1, FInvInvariant, PTL

\* Across expiries, restarts and overlaps, no session outlives by more than the stated
\* lifetimes the moment its user was vouched for (IdentityFresh; resignTokensWithBrokerKey,
\* VerifyIDToken, ValidateRefreshToken).
THEOREM SignInsAreFresh == Spec => []IdentityFresh
<1>1. FInv => IdentityFresh
  BY DEF FInv, SessionsFit, Fit, IdentityFresh
<1> QED
  BY <1>1, FInvInvariant, PTL

(***************************************************************************)
(* Sign-ins stick.  Three handlers write back whole sessions, so a sign-in *)
(* is lost when a handler that read the session before it writes after it. *)
(* overlapped and clean record when that can happen: a running handler     *)
(* that is not overlapped is alone, and while the session is clean what    *)
(* the one running handler holds is what the home page shows.              *)
(***************************************************************************)

Solo == \A g, h \in Running : h \notin overlapped => g = h

CleanOK ==
  clean => /\ \A g, h \in Running : g = h
           /\ HomeUser = expected
           /\ \A l \in Logins : at[l] = "starting" => snap[l].user = expected

SInv == TInv /\ Solo /\ CleanOK

LEMMA InitSInv == Init => SInv
<1> SUFFICES ASSUME Init PROVE SInv
  OBVIOUS
<1>1. Running = {} /\ HomeUser = NoUser
  BY SessionAssumption DEF Init, Running, Writing, HomeUser, Read
<1>2. \A l \in Logins : at[l] # "starting"
  BY DEF Init, Handlers
<1> QED
  BY <1>1, <1>2, InitTInv DEF SInv, Solo, CleanOK, Init

\* Which handlers run after one of them has moved.
LEMMA Moves ==
  ASSUME TypeOK, NEW h \in Handlers, NEW to, Go(h, to)
  PROVE  /\ at'[h] = to /\ \A g \in Handlers \ {h} : at'[g] = at[g]
         /\ to \in Writing => Running' = Running \cup {h}
         /\ to \notin Writing => Running' = Running \ {h}
<1>1. at'[h] = to /\ \A g \in Handlers \ {h} : at'[g] = at[g]
  BY DEF Go, TypeOK
<1> QED
  BY <1>1 DEF Running

LEMMA SavedUserShown ==
  ASSUME NEW s \in Logins, NEW state, NEW user, Save(s, state, user), TypeOK
  PROVE  HomeUser' = user /\ cookie' = s /\ sessions'[s] = [live |-> TRUE, state |-> state, user |-> user]
<1>1. cookie' = s /\ sessions'[s] = [live |-> TRUE, state |-> state, user |-> user]
  BY DEF Save, TypeOK
<1>2. s # Nil
  BY SessionAssumption DEF Handlers
<1> QED
  BY <1>1, <1>2 DEF HomeUser, Read

\* A handler reads the session and runs.
LEMMA StartKeepsSign ==
  ASSUME SInv, NEW h \in Handlers, NEW to \in Writing, Go(h, to),
         snap' = [snap EXCEPT ![h] = Read(h)], Starts(h),
         UNCHANGED <<cookie, sessions, expected>>
  PROVE  Solo' /\ CleanOK'
<1> USE DEF SInv, TInv
<1>1. Running' = Running \cup {h} /\ HomeUser' = HomeUser
  BY Moves DEF HomeUser, Read
<1>2. CASE Running = {}
  <2>1. Running' = {h} /\ clean' = clean
    BY <1>1, <1>2 DEF Starts
  <2>2. snap'[h].user = HomeUser
    BY ReadType DEF TypeOK
  <2>3. ASSUME NEW l \in Logins, at'[l] = "starting"
        PROVE  l = h
    BY <2>1, <2>3 DEF Running, Writing, Handlers
  <2>4. Solo'
    BY <2>1 DEF Solo
  <2>5. CleanOK'
    BY <1>1, <2>1, <2>2, <2>3 DEF CleanOK
  <2> QED
    BY <2>4, <2>5
<1>3. CASE Running # {}
  <2>1. Running' \subseteq overlapped' /\ ~clean'
    BY <1>1, <1>3 DEF Starts
  <2> QED
    BY <2>1 DEF Solo, CleanOK
<1> QED
  BY <1>2, <1>3

\* A handler ends and has written nothing.
LEMMA EndKeepsSign ==
  ASSUME SInv, NEW h \in Handlers, Go(h, "failed"), Ends(h),
         UNCHANGED <<cookie, sessions, expected, clean>>
  PROVE  Solo' /\ CleanOK'
<1> USE DEF SInv, TInv
<1>1. Running' = Running \ {h} /\ HomeUser' = HomeUser /\ overlapped' = overlapped \ {h}
  BY Moves DEF HomeUser, Read, Ends, Writing
<1>2. ASSUME NEW l \in Logins, at'[l] = "starting"
      PROVE  at[l] = "starting" /\ snap'[l] = snap[l]
  <2>1. l # h
    BY <1>2, Moves
  <2> QED
    BY <1>2, <2>1, Moves DEF Ends, TypeOK, Handlers
<1>3. Solo'
  BY <1>1 DEF Solo
<1>4. CleanOK'
  BY <1>1, <1>2 DEF CleanOK
<1> QED
  BY <1>3, <1>4

\* Steps that start, end or write nothing.
LEMMA OtherKeepsSign ==
  ASSUME SInv, Running' = Running,
         \A l \in Logins : at'[l] = "starting" => at[l] = "starting" /\ snap'[l] = snap[l],
         UNCHANGED <<cookie, sessions, expected, clean, overlapped>>
  PROVE  Solo' /\ CleanOK'
<1>1. HomeUser' = HomeUser
  BY DEF HomeUser, Read
<1> QED
  BY <1>1 DEF SInv, Solo, CleanOK

LEMMA SaveKeepsSign ==
  ASSUME SInv, NEW h \in Handlers, NEW s \in Logins, NEW state, NEW user,
         h \in Running, Go(h, "away") \/ Go(h, "done"), Save(s, state, user), Ends(h),
         clean' => (clean \/ h \notin overlapped) /\ expected' = user
  PROVE  Solo' /\ CleanOK'
<1> USE DEF SInv, TInv
<1>1. Running' = Running \ {h} /\ HomeUser' = user /\ overlapped' = overlapped \ {h}
  <2>1. Running' = Running \ {h}
    BY Moves DEF Writing
  <2>2. HomeUser' = user
    BY SavedUserShown
  <2> QED
    BY <2>1, <2>2 DEF Ends
<1>2. Solo'
  BY <1>1 DEF Solo
<1>3. ASSUME clean' PROVE Running' = {}
  BY <1>1, <1>3 DEF Solo, CleanOK
<1>4. clean' => \A l \in Logins : at'[l] # "starting"
  BY <1>3 DEF Running, Writing, Handlers
<1>5. CleanOK'
  BY <1>1, <1>3, <1>4 DEF CleanOK
<1> QED
  BY <1>2, <1>5

LEMMA LoginKeepsSign ==
  ASSUME SInv, NEW l \in Logins,
         \/ LoginStarts(l) \/ LoginSaves(l) \/ BrokerResigns(l)
         \/ \E u \in Users : IdPIssues(l, u)
         \/ CallbackStarts(l) \/ BrokerRedeems(l) \/ CallbackSaves(l) \/ CallbackRefuses(l)
  PROVE  Solo' /\ CleanOK'
<1>0. TypeOK /\ l \in Handlers /\ {"starting", "calling", "redeemed"} \subseteq Writing
      /\ "away" \notin Writing /\ "issued" \notin Writing /\ "coded" \notin Writing
      /\ "failed" \notin Writing
  BY DEF SInv, TInv, Handlers, Writing
<1>1. CASE LoginStarts(l)
  BY <1>0, <1>1, StartKeepsSign DEF LoginStarts
<1>2. CASE LoginSaves(l)
  <2>1. l \in Running /\ snap[l].sid \in Logins
    BY <1>0, <1>2 DEF LoginSaves, Running, TypeOK
  <2>2. clean' => clean /\ expected' = snap[l].user
    BY <1>2 DEF LoginSaves, SInv, CleanOK
  <2> QED
    BY <1>0, <1>2, <2>1, <2>2, SaveKeepsSign DEF LoginSaves
<1>3. ASSUME NEW to, to \notin Writing, to # "starting", l \notin Running, Go(l, to),
             UNCHANGED <<rpVars, ghosts>>
      PROVE  Solo' /\ CleanOK'
  <2>1. Running' = Running
    BY <1>0, <1>3, Moves
  <2>2. \A k \in Logins : at'[k] = "starting" => at[k] = "starting" /\ snap'[k] = snap[k]
    BY <1>0, <1>3, Moves DEF rpVars, Handlers
  <2> QED
    BY <1>3, <2>1, <2>2, OtherKeepsSign DEF rpVars, ghosts
<1>4. CASE BrokerResigns(l)
  <2>1. l \notin Running
    BY <1>4 DEF BrokerResigns, Running, Writing
  <2>2. CASE Go(l, "coded")
    BY <1>0, <1>3, <1>4, <2>1, <2>2 DEF BrokerResigns
  <2>3. CASE Go(l, "failed")
    BY <1>0, <1>3, <1>4, <2>1, <2>3 DEF BrokerResigns
  <2> QED
    BY <1>4, <2>2, <2>3 DEF BrokerResigns
<1>5. CASE \E u \in Users : IdPIssues(l, u)
  <2>1. l \notin Running
    BY <1>5 DEF IdPIssues, Running, Writing
  <2> QED
    BY <1>0, <1>3, <1>5, <2>1 DEF IdPIssues
<1>6. CASE CallbackStarts(l)
  <2>1. CASE Read(l).state = l
    BY <1>0, <1>6, <2>1, StartKeepsSign DEF CallbackStarts
  <2>2. CASE Read(l).state # l
    <3>1. l \notin Running
      BY <1>6 DEF CallbackStarts, Running, Writing
    <3>2. UNCHANGED <<rpVars, ghosts>> /\ Go(l, "failed")
      BY <1>6, <2>2 DEF CallbackStarts, rpVars, ghosts
    <3> QED
      BY <1>0, <1>3, <3>1, <3>2
  <2> QED
    BY <2>1, <2>2
<1>7. CASE BrokerRedeems(l)
  <2>1. CASE Go(l, "redeemed") /\ UNCHANGED <<snap, overlapped>>
    <3>1. Running' = Running
      BY <1>0, <1>7, <2>1, Moves DEF BrokerRedeems, Running
    <3>2. \A k \in Logins : at'[k] = "starting" => at[k] = "starting" /\ snap'[k] = snap[k]
      BY <1>0, <2>1, Moves DEF Handlers
    <3> QED
      BY <1>7, <2>1, <3>1, <3>2, OtherKeepsSign DEF BrokerRedeems
  <2>2. CASE Go(l, "failed") /\ Ends(l)
    BY <1>0, <1>7, <2>2, EndKeepsSign DEF BrokerRedeems
  <2> QED
    BY <1>7, <2>1, <2>2 DEF BrokerRedeems
<1>8. CASE CallbackSaves(l)
  <2>1. l \in Running /\ snap[l].sid \in Logins
    BY <1>0, <1>8 DEF CallbackSaves, Running, TypeOK
  <2> QED
    BY <1>0, <1>8, <2>1, SaveKeepsSign DEF CallbackSaves
<1>9. CASE CallbackRefuses(l)
  BY <1>0, <1>9, EndKeepsSign DEF CallbackRefuses
<1> QED
  BY <1>1, <1>2, <1>4, <1>5, <1>6, <1>7, <1>8, <1>9

LEMMA RefreshKeepsSign ==
  ASSUME SInv, NEW r \in Refreshes,
         RefreshStarts(r) \/ RefreshAnswered(r) \/ RefreshFails(r) \/ RefreshSaves(r)
  PROVE  Solo' /\ CleanOK'
<1>0. TypeOK /\ r \in Handlers /\ r \notin Logins /\ {"asked", "got"} \subseteq Writing
  BY SessionAssumption DEF SInv, TInv, Handlers, Writing
<1>1. CASE RefreshStarts(r)
  BY <1>0, <1>1, StartKeepsSign DEF RefreshStarts
<1>2. CASE RefreshAnswered(r)
  <2>1. Running' = Running
    BY <1>0, <1>2, Moves DEF RefreshAnswered, Running
  <2>2. \A k \in Logins : at'[k] = "starting" => at[k] = "starting" /\ snap'[k] = snap[k]
    BY <1>0, <1>2, Moves DEF RefreshAnswered, Handlers, TypeOK
  <2> QED
    BY <1>2, <2>1, <2>2, OtherKeepsSign DEF RefreshAnswered, ghosts
<1>3. CASE RefreshFails(r)
  BY <1>0, <1>3, EndKeepsSign DEF RefreshFails
<1>4. CASE RefreshSaves(r)
  <2>1. r \in Running /\ snap[r].sid \in Logins
    BY <1>0, <1>4 DEF RefreshSaves, Running, TypeOK
  <2> QED
    BY <1>0, <1>4, <2>1, SaveKeepsSign DEF RefreshSaves
<1> QED
  BY <1>1, <1>2, <1>3, <1>4

LEMMA WorldKeepsSign ==
  ASSUME SInv, Tick \/ RPRestart \/ SessionEnds \/ BrokerRestart \/ IdPRestart \/ UNCHANGED vars
  PROVE  Solo' /\ CleanOK'
<1>1. CASE Tick \/ BrokerRestart \/ IdPRestart \/ UNCHANGED vars
  <2>1. UNCHANGED <<at, cookie, sessions, snap, expected, clean, overlapped>>
    BY <1>1 DEF Tick, BrokerRestart, IdPRestart, rpVars, vars, ghosts
  <2> QED
    BY <2>1, OtherKeepsSign DEF Running
<1>2. CASE RPRestart
  <2>1. Running' = {}
    BY <1>2 DEF RPRestart, Running, Writing
  <2>2. \A l \in Logins : at'[l] # "starting"
    BY <2>1 DEF Running, Writing, Handlers
  <2>3. HomeUser' = NoUser
    BY <1>2 DEF RPRestart, HomeUser, Read, NoSession, SInv, TInv, TypeOK
  <2> QED
    BY <1>2, <2>1, <2>2, <2>3 DEF RPRestart, Solo, CleanOK
<1>3. CASE SessionEnds
  <2>1. Running' = {}
    BY <1>3 DEF SessionEnds, Running
  <2>2. \A l \in Logins : at'[l] # "starting"
    BY <2>1 DEF Running, Writing, Handlers
  <2>3. HomeUser' = NoUser
    BY <1>3 DEF SessionEnds, HomeUser, Read, NoSession, SInv, TInv, TypeOK
  <2> QED
    BY <1>3, <2>1, <2>2, <2>3 DEF SessionEnds, Solo, CleanOK
<1> QED
  BY <1>1, <1>2, <1>3

\* Once a sign-in is done, the home page shows it with the access token refreshed last
\* until handlers overlap or the session is lost (SignInSticks; handleLogin,
\* handleCallback and handleRefresh, which all write back the session they read).
THEOREM SignInsStick == Spec => []SignInSticks
<1>1. SInv /\ [Next]_vars => SInv'
  BY NextTInv, LoginKeepsSign, RefreshKeepsSign, WorldKeepsSign DEF Next, SInv
<1>2. SInv => SignInSticks
  BY DEF SInv, CleanOK, SignInSticks
<1> QED
  BY <1>1, <1>2, InitSInv, PTL DEF Spec

(***************************************************************************)
(* Why logins fail.  A login that nothing has disturbed was alone when it  *)
(* wrote its state, and from then on the state is in the session of the    *)
(* cookie and in the hands of every handler that may write the session     *)
(* back; and its tokens are signed with keys in use and young enough.      *)
(***************************************************************************)

Undisturbed == Pending \ disturbed

StartsAlone ==
  \A m \in Logins, l \in Undisturbed :
    at[m] = "starting" => m = l /\ \A h \in Running : h = l

Holds(l) ==
  /\ cookie # Nil /\ sessions[cookie].live /\ sessions[cookie].state = l
  /\ \A h \in Running : snap[h].sid = cookie /\ snap[h].state = l

StateHeld == \A l \in Undisturbed : at[l] # "starting" => Holds(l)

InOrder(l) ==
  l \notin disturbed \cup late =>
    /\ at[l] # "failed"
    /\ at[l] \in {"issued", "coded", "calling", "redeemed"} =>
         tokens[l].key = idpKey /\ tokens[l].iat <= now /\ now < tokens[l].iat + IdLife
    /\ at[l] \in {"coded", "calling", "redeemed"} =>
         resigned[l].key = brokerKey /\ tokens[l].iat <= resigned[l].at
    /\ at[l] \in {"coded", "calling"} => l \in codes

CInv == TInv /\ StartsAlone /\ StateHeld /\ \A l \in Logins : InOrder(l)

LEMMA InitCInv == Init => CInv
<1> SUFFICES ASSUME Init PROVE CInv
  OBVIOUS
<1>1. \A l \in Logins : at[l] = "idle"
  BY DEF Init, Handlers
<1>2. Undisturbed = {}
  BY <1>1 DEF Undisturbed, Pending
<1> QED
  BY <1>1, <1>2, InitTInv DEF CInv, StartsAlone, StateHeld, InOrder

\* Steps that write no session and start no handler.
LEMMA QuietStepHolds ==
  ASSUME CInv, Running' \subseteq Running, UNCHANGED <<cookie, sessions>>,
         disturbed \subseteq disturbed', Pending' \subseteq Pending,
         \A h \in Running' : snap'[h].sid = snap[h].sid /\ snap'[h].state = snap[h].state,
         \A l \in Logins : at'[l] = "starting" => at[l] = "starting",
         \A l \in Pending' : at[l] = "starting" => at'[l] = "starting"
  PROVE  StartsAlone' /\ StateHeld'
<1>1. Undisturbed' \subseteq Undisturbed
  BY DEF Undisturbed
<1>2. StartsAlone'
  BY <1>1 DEF CInv, StartsAlone
<1>3. ASSUME NEW l \in Undisturbed', at'[l] # "starting" PROVE Holds(l)'
  <2>1. l \in Undisturbed /\ at[l] # "starting"
    BY <1>1, <1>3 DEF Undisturbed
  <2> QED
    BY <2>1 DEF CInv, StateHeld, Holds
<1> QED
  BY <1>2, <1>3 DEF StateHeld

\* A callback or a refresh reads the session; the logins that start are disturbed.
LEMMA ReadStepHolds ==
  ASSUME CInv, NEW h \in Handlers, Running' = Running \cup {h},
         snap' = [snap EXCEPT ![h] = Read(h)], UNCHANGED <<cookie, sessions>>,
         disturbed \subseteq disturbed', Pending' \subseteq Pending,
         \A l \in Logins : at[l] = "starting" => l \in disturbed',
         \A l \in Logins : at'[l] = "starting" => at[l] = "starting"
  PROVE  StartsAlone' /\ StateHeld'
<1>1. ASSUME NEW l \in Undisturbed' PROVE l \in Undisturbed /\ at[l] # "starting"
  BY <1>1 DEF Undisturbed, Pending
<1>2. StartsAlone'
  BY <1>1 DEF CInv, StartsAlone
<1>3. ASSUME NEW l \in Undisturbed' PROVE Holds(l)'
  <2>1. Holds(l)
    BY <1>1, <1>3 DEF CInv, StateHeld
  <2>2. snap'[h] = [sid |-> cookie, state |-> l, user |-> sessions[cookie].user]
    BY <2>1 DEF Holds, Read, CInv, TInv, TypeOK
  <2>3. \A g \in Running : g # h => snap'[g] = snap[g]
    BY DEF CInv, TInv, TypeOK, Running
  <2> QED
    BY <2>1, <2>2, <2>3 DEF Holds
<1> QED
  BY <1>2, <1>3 DEF StateHeld

LEMMA LoginStartsHolds ==
  ASSUME CInv, NEW l \in Logins, LoginStarts(l)
  PROVE  StartsAlone' /\ StateHeld'
<1>1. at'[l] = "starting" /\ Running' = Running \cup {l} /\ \A k \in Logins \ {l} : at'[k] = at[k]
  BY Moves DEF LoginStarts, CInv, TInv, Handlers, Writing
<1>2. \A k \in Undisturbed' : k = l /\ Running = {}
  BY <1>1 DEF LoginStarts, Undisturbed, Pending
<1>3. StartsAlone'
  <2> SUFFICES ASSUME NEW m \in Logins, NEW k \in Undisturbed', at'[m] = "starting"
               PROVE  m = k /\ \A h \in Running' : h = k
    BY DEF StartsAlone
  <2>1. Running' = {k} /\ k = l
    BY <1>1, <1>2
  <2>2. m \in Running'
    BY DEF Running, Writing, Handlers
  <2> QED
    BY <2>1, <2>2
<1>4. StateHeld'
  BY <1>1, <1>2 DEF StateHeld
<1> QED
  BY <1>3, <1>4

LEMMA LoginSavesHolds ==
  ASSUME CInv, NEW l \in Logins, LoginSaves(l)
  PROVE  StartsAlone' /\ StateHeld'
<1>1. at'[l] = "away" /\ Running' = Running \ {l} /\ \A k \in Logins \ {l} : at'[k] = at[k]
  BY Moves DEF LoginSaves, CInv, TInv, Handlers, Writing
<1>2. Undisturbed' \subseteq Undisturbed
  BY <1>1 DEF LoginSaves, Undisturbed, Pending
<1>3. ASSUME NEW k \in Undisturbed'
      PROVE  k = l /\ Running' = {}
  BY <1>1, <1>2, <1>3 DEF CInv, StartsAlone, LoginSaves
<1>4. StartsAlone'
  BY <1>3 DEF StartsAlone, Running, Writing, Handlers
<1>5. /\ l \in Handlers /\ snap[l].sid \in Logins
  BY DEF LoginSaves, CInv, TInv, TypeOK, Running, Writing, Handlers
<1>6. /\ cookie' = snap[l].sid
      /\ sessions'[snap[l].sid] = [live |-> TRUE, state |-> l, user |-> snap[l].user]
  BY <1>5, SavedUserShown DEF LoginSaves, CInv, TInv
<1>7. cookie' # Nil /\ sessions'[cookie'].live /\ sessions'[cookie'].state = l
  BY <1>5, <1>6, SessionAssumption DEF Handlers
<1>8. StateHeld'
  BY <1>3, <1>7 DEF StateHeld, Holds
<1> QED
  BY <1>4, <1>8

\* A callback or a refresh writes the session back.
LEMMA SaveStepHolds ==
  ASSUME CInv, NEW h \in Handlers, NEW user, h \in Running, Running' = Running \ {h},
         Save(snap[h].sid, snap[h].state, user), snap' = [snap EXCEPT ![h] = NoSnap],
         at[h] # "starting", disturbed \subseteq disturbed', Pending' \subseteq Pending,
         \A l \in Logins : at'[l] = "starting" => at[l] = "starting"
  PROVE  StartsAlone' /\ StateHeld'
<1>1. ASSUME NEW l \in Undisturbed'
      PROVE  l \in Undisturbed /\ at[l] # "starting"
  <2>1. l \in Undisturbed /\ l \in Logins
    BY <1>1 DEF Undisturbed, Pending
  <2>2. at[l] # "starting"
    BY <2>1 DEF CInv, StartsAlone
  <2> QED
    BY <2>1, <2>2
<1>2. StartsAlone'
  BY <1>1 DEF CInv, StartsAlone
<1>3. ASSUME NEW l \in Undisturbed' PROVE Holds(l)'
  <2>1. Holds(l)
    BY <1>1, <1>3 DEF CInv, StateHeld
  <2>2. snap[h].sid = cookie /\ snap[h].state = l /\ cookie \in Logins
    BY <2>1 DEF Holds, CInv, TInv, TypeOK
  <2>3. cookie' = cookie /\ sessions'[cookie] = [live |-> TRUE, state |-> l, user |-> user]
    BY <2>2, SavedUserShown DEF CInv, TInv
  <2>4. \A g \in Running' : g \in Running /\ snap'[g] = snap[g]
    BY DEF CInv, TInv, TypeOK, Running
  <2> QED
    BY <2>1, <2>3, <2>4 DEF Holds
<1> QED
  BY <1>2, <1>3 DEF StateHeld

LEMMA LoginHolds ==
  ASSUME CInv, NEW l \in Logins,
         \/ BrokerResigns(l) \/ \E u \in Users : IdPIssues(l, u)
         \/ CallbackStarts(l) \/ BrokerRedeems(l) \/ CallbackSaves(l) \/ CallbackRefuses(l)
  PROVE  StartsAlone' /\ StateHeld'
<1>0. TypeOK /\ l \in Handlers
  BY DEF CInv, TInv, Handlers
<1>1. PICK to \in {"issued", "coded", "calling", "redeemed", "done", "failed"} : Go(l, to)
  BY DEF IdPIssues, BrokerResigns, CallbackStarts, BrokerRedeems, CallbackSaves, CallbackRefuses
<1>2. /\ at[l] \notin {"idle", "starting", "done", "failed"}
      /\ at'[l] = to /\ \A k \in Logins \ {l} : at'[k] = at[k]
  BY <1>0, <1>1, Moves DEF IdPIssues, BrokerResigns, CallbackStarts, BrokerRedeems,
                           CallbackSaves, CallbackRefuses, Handlers
<1>3. /\ Pending' \subseteq Pending
      /\ \A k \in Logins : at'[k] = "starting" <=> at[k] = "starting"
  BY <1>2 DEF Pending
<1>4. ASSUME at[l] \notin Writing, to \notin Writing,
             UNCHANGED <<snap, cookie, sessions, disturbed>>
      PROVE  StartsAlone' /\ StateHeld'
  <2>1. Running' \subseteq Running
    BY <1>0, <1>1, <1>4, Moves
  <2> QED
    BY <1>3, <1>4, <2>1, QuietStepHolds DEF Pending
<1>5. CASE CallbackStarts(l) /\ Read(l).state = l
  <2>1. Running' = Running \cup {l}
    BY <1>0, <1>5, Moves DEF CallbackStarts, Writing
  <2>2. \A k \in Logins : at[k] = "starting" => k \in disturbed'
    BY <1>5 DEF CallbackStarts, Running, Writing, Handlers
  <2>3. snap' = [snap EXCEPT ![l] = Read(l)] /\ disturbed \subseteq disturbed'
        /\ UNCHANGED <<cookie, sessions>>
    BY <1>5 DEF CallbackStarts
  <2> QED
    BY <1>0, <1>3, <2>1, <2>2, <2>3, ReadStepHolds
<1>6. CASE BrokerRedeems(l) \/ CallbackRefuses(l)
  <2>1. l \in Running /\ UNCHANGED <<cookie, sessions, disturbed>>
    BY <1>0, <1>6 DEF BrokerRedeems, CallbackRefuses, Running, Writing
  <2>2. \/ to \in Writing /\ UNCHANGED snap
        \/ to \notin Writing /\ snap' = [snap EXCEPT ![l] = NoSnap]
    BY <1>0, <1>1, <1>2, <1>6, Moves DEF BrokerRedeems, CallbackRefuses, Ends, Writing
  <2>3. Running' \subseteq Running /\ \A h \in Running' : snap'[h] = snap[h]
    BY <1>0, <1>1, <2>1, <2>2, Moves DEF TypeOK, Running
  <2> QED
    BY <1>3, <2>1, <2>3, QuietStepHolds DEF Pending
<1>7. CASE CallbackSaves(l)
  <2>1. l \in Running /\ Running' = Running \ {l} /\ UNCHANGED disturbed
    BY <1>0, <1>7, Moves DEF CallbackSaves, Running, Writing
  <2>2. snap' = [snap EXCEPT ![l] = NoSnap] /\ Save(snap[l].sid, snap[l].state, SignedIn(l))
    BY <1>7 DEF CallbackSaves, Ends
  <2> QED
    BY <1>0, <1>2, <1>3, <2>1, <2>2, SaveStepHolds
<1>8. CASE BrokerResigns(l)
  BY <1>0, <1>1, <1>2, <1>4, <1>8 DEF BrokerResigns, rpVars, ghosts, Writing, Go, TypeOK
<1>9. CASE CallbackStarts(l)
  <2>1. CASE Read(l).state # l
    BY <1>0, <1>1, <1>2, <1>4, <1>9, <2>1 DEF CallbackStarts, Writing, Go, TypeOK
  <2> QED
    BY <1>5, <1>9, <2>1
<1>10. CASE \E u \in Users : IdPIssues(l, u)
  BY <1>0, <1>1, <1>2, <1>4, <1>10 DEF IdPIssues, rpVars, ghosts, Writing, Go, TypeOK
<1> QED
  BY <1>6, <1>7, <1>8, <1>9, <1>10

LEMMA RefreshHolds ==
  ASSUME CInv, NEW r \in Refreshes,
         RefreshStarts(r) \/ RefreshAnswered(r) \/ RefreshFails(r) \/ RefreshSaves(r)
  PROVE  StartsAlone' /\ StateHeld'
<1>0. TypeOK /\ r \in Handlers /\ r \notin Logins
  BY SessionAssumption DEF CInv, TInv, Handlers
<1>1. PICK to \in {"asked", "got", "done", "failed"} : Go(r, to)
  BY DEF RefreshStarts, RefreshAnswered, RefreshFails, RefreshSaves
<1>2. (\A k \in Logins : at'[k] = at[k]) /\ at'[r] = to
  BY <1>0, <1>1, Moves DEF Handlers
<1>3. Pending' = Pending /\ disturbed \subseteq disturbed'
  BY <1>2 DEF Pending, RefreshStarts, RefreshAnswered, RefreshFails, RefreshSaves, ghosts
<1>4. CASE RefreshStarts(r)
  <2>1. Running' = Running \cup {r}
    BY <1>0, <1>4, Moves DEF RefreshStarts, Writing
  <2>2. \A k \in Logins : at[k] = "starting" => k \in disturbed'
    BY <1>4 DEF RefreshStarts
  <2>3. snap' = [snap EXCEPT ![r] = Read(r)] /\ UNCHANGED <<cookie, sessions>>
    BY <1>4 DEF RefreshStarts
  <2> QED
    BY <1>0, <1>2, <1>3, <2>1, <2>2, <2>3, ReadStepHolds
<1>5. CASE RefreshAnswered(r)
  <2>1. Running' = Running /\ UNCHANGED <<cookie, sessions>>
    BY <1>0, <1>5, Moves DEF RefreshAnswered, Running, Writing
  <2>2. PICK user : snap' = [snap EXCEPT ![r] = [snap[r] EXCEPT !.user = user]]
    BY <1>5 DEF RefreshAnswered
  <2>3. \A h \in Handlers : snap'[h].sid = snap[h].sid /\ snap'[h].state = snap[h].state
    BY <1>0, <2>2 DEF TypeOK
  <2>4. \A h \in Running' : snap'[h].sid = snap[h].sid /\ snap'[h].state = snap[h].state
    BY <2>3 DEF Running
  <2> QED
    BY <1>2, <1>3, <2>1, <2>4, QuietStepHolds DEF Pending
<1>6. CASE RefreshFails(r)
  <2>1. Running' = Running \ {r} /\ UNCHANGED <<cookie, sessions>>
    BY <1>0, <1>6, Moves DEF RefreshFails, Writing
  <2>2. \A h \in Running' : snap'[h] = snap[h]
    BY <1>0, <1>6, <2>1 DEF RefreshFails, Ends, TypeOK, Running
  <2> QED
    BY <1>2, <1>3, <2>1, <2>2, QuietStepHolds DEF Pending
<1>7. CASE RefreshSaves(r)
  <2>1. r \in Running /\ Running' = Running \ {r} /\ at[r] # "starting"
    BY <1>0, <1>7, Moves DEF RefreshSaves, Running, Writing
  <2>2. snap' = [snap EXCEPT ![r] = NoSnap] /\ Save(snap[r].sid, snap[r].state, snap[r].user)
    BY <1>7 DEF RefreshSaves, Ends
  <2> QED
    BY <1>0, <1>2, <1>3, <2>1, <2>2, SaveStepHolds
<1> QED
  BY <1>4, <1>5, <1>6, <1>7

\* A restart or a lost session disturbs whatever login is under way.
LEMMA WorldHolds ==
  ASSUME CInv, Tick \/ RPRestart \/ SessionEnds \/ BrokerRestart \/ IdPRestart \/ UNCHANGED vars
  PROVE  StartsAlone' /\ StateHeld'
<1>1. CASE Tick \/ UNCHANGED vars
  <2>1. UNCHANGED <<at, cookie, sessions, snap, disturbed>>
    BY <1>1 DEF Tick, rpVars, vars, ghosts
  <2> QED
    BY <2>1, QuietStepHolds DEF Running, Pending
<1>2. CASE Fault
  <2>1. Pending' \subseteq Pending
    BY <1>2 DEF RPRestart, SessionEnds, BrokerRestart, IdPRestart, Tick, Fault, vars,
                Pending, Running, Writing, Handlers
  <2>2. Undisturbed' = {}
    BY <1>2, <2>1 DEF Fault, Undisturbed
  <2> QED
    BY <2>2 DEF StartsAlone, StateHeld
<1> QED
  BY <1>1, <1>2 DEF RPRestart, SessionEnds, BrokerRestart, IdPRestart

\* A login that a step leaves alone stays in order.
LEMMA InOrderFrame ==
  ASSUME CInv, NEW l \in Logins, disturbed \subseteq disturbed', late \subseteq late',
         at'[l] = at[l], UNCHANGED <<now, idpKey, brokerKey>>,
         tokens'[l] = tokens[l], resigned'[l] = resigned[l], l \in codes => l \in codes'
  PROVE  InOrder(l)'
  BY DEF CInv, InOrder

LEMMA LoginInOrder ==
  ASSUME CInv, NEW l \in Logins, NEW k \in Logins,
         \/ LoginStarts(l) \/ LoginSaves(l) \/ BrokerResigns(l)
         \/ \E u \in Users : IdPIssues(l, u)
         \/ CallbackStarts(l) \/ BrokerRedeems(l) \/ CallbackSaves(l) \/ CallbackRefuses(l)
  PROVE  InOrder(k)'
<1> USE SessionAssumption DEF rpVars, brokerVars, idpVars, ghosts
<1>0. TypeOK /\ l \in Handlers /\ k \in Handlers /\ InOrder(l) /\ l \in Logins
  BY DEF CInv, TInv, Handlers
<1>1. disturbed \subseteq disturbed' /\ late \subseteq late' /\ UNCHANGED <<now, idpKey, brokerKey>>
  BY DEF LoginStarts, LoginSaves, BrokerResigns, IdPIssues, CallbackStarts, BrokerRedeems,
         CallbackSaves, CallbackRefuses
<1>2. CASE k # l
  <2>1. at'[k] = at[k]
    BY <1>0, <1>2 DEF LoginStarts, LoginSaves, BrokerResigns, IdPIssues, CallbackStarts,
                      BrokerRedeems, CallbackSaves, CallbackRefuses, Go, TypeOK
  <2>2. tokens'[k] = tokens[k] /\ resigned'[k] = resigned[k]
    BY <1>0, <1>2 DEF LoginStarts, LoginSaves, BrokerResigns, IdPIssues, CallbackStarts,
                      BrokerRedeems, CallbackSaves, CallbackRefuses, TypeOK
  <2>3. k \in codes => k \in codes'
    BY <1>2 DEF LoginStarts, LoginSaves, BrokerResigns, IdPIssues, CallbackStarts,
                BrokerRedeems, CallbackSaves, CallbackRefuses
  <2> QED
    BY <1>1, <2>1, <2>2, <2>3, InOrderFrame
<1> SUFFICES ASSUME k = l, l \notin disturbed \cup late PROVE InOrder(l)'
  BY <1>1, <1>2 DEF InOrder
<1>3. CASE LoginStarts(l) \/ LoginSaves(l) \/ CallbackSaves(l)
  <2>1. at'[l] \in {"starting", "away", "done"}
    BY <1>0, <1>3, Moves DEF LoginStarts, LoginSaves, CallbackSaves
  <2> QED
    BY <2>1 DEF InOrder
<1>4. CASE \E u \in Users : IdPIssues(l, u)
  <2>1. /\ at'[l] = "issued"
        /\ tokens'[l].iat = now /\ tokens'[l].key = idpKey
    BY <1>0, <1>4 DEF IdPIssues, Go, TypeOK
  <2>2. now <= now /\ now < now + IdLife
    BY <1>0 DEF TypeOK
  <2> QED
    BY <1>1, <2>1, <2>2 DEF InOrder
<1>5. CASE BrokerResigns(l)
  <2>1. Valid(tokens[l].iat, IdLife, tokens[l].key, idpKey)
        /\ tokens[l].iat <= now /\ now < tokens[l].iat + IdLife /\ tokens[l].key = idpKey
    BY <1>0, <1>5 DEF BrokerResigns, InOrder, Valid
  <2>2. at'[l] = "coded" /\ l \in codes' /\ tokens' = tokens
        /\ resigned'[l].key = brokerKey /\ resigned'[l].at = now
    BY <1>0, <1>5, <2>1 DEF BrokerResigns, Go, TypeOK
  <2> QED
    BY <1>1, <2>1, <2>2 DEF InOrder
<1>6. CASE CallbackStarts(l)
  <2>1. at[l] = "coded" /\ l \in Undisturbed
    BY <1>6 DEF CallbackStarts, Undisturbed, Pending
  <2>2. Holds(l)
    BY <2>1 DEF CInv, StateHeld
  <2>3. Read(l).state = l
    BY <2>2 DEF Holds, Read
  <2>4. at'[l] = "calling" /\ UNCHANGED <<tokens, resigned, codes>>
    BY <1>0, <1>6, <2>3 DEF CallbackStarts, Go, TypeOK
  <2> QED
    BY <1>0, <1>1, <2>1, <2>4 DEF InOrder
<1>7. CASE BrokerRedeems(l)
  <2>1. /\ l \in codes /\ tokens[l].key = idpKey /\ tokens[l].iat <= now
        /\ now < tokens[l].iat + IdLife
        /\ resigned[l].key = brokerKey /\ tokens[l].iat <= resigned[l].at
    BY <1>0, <1>7 DEF BrokerRedeems, InOrder
  <2>2. {now, tokens[l].iat, resigned[l].at} \subseteq Nat
    BY <1>0 DEF TypeOK
  <2>3. now <= resigned[l].at + CodeLife
    BY <2>1, <2>2
  <2>4. at'[l] = "redeemed" /\ UNCHANGED <<tokens, resigned>>
    BY <1>0, <1>7, <2>1, <2>3 DEF BrokerRedeems, Go, TypeOK
  <2> QED
    BY <1>1, <2>1, <2>4 DEF InOrder
<1>8. CASE CallbackRefuses(l)
  <2>1. /\ now < tokens[l].iat + IdLife
        /\ resigned[l].key = brokerKey /\ tokens[l].iat <= resigned[l].at
    BY <1>0, <1>8 DEF CallbackRefuses, InOrder
  <2>2. {now, tokens[l].iat, resigned[l].at} \subseteq Nat
    BY <1>0 DEF TypeOK
  <2>3. now < resigned[l].at + IdLife
    BY <2>1, <2>2
  <2> QED
    BY <1>8, <2>1, <2>3 DEF CallbackRefuses, IdTokenValid, Valid
<1> QED
  BY <1>3, <1>4, <1>5, <1>6, <1>7, <1>8

LEMMA OthersInOrder ==
  ASSUME CInv, NEW k \in Logins,
         \/ \E r \in Refreshes :
              RefreshStarts(r) \/ RefreshAnswered(r) \/ RefreshFails(r) \/ RefreshSaves(r)
         \/ Tick \/ RPRestart \/ SessionEnds \/ BrokerRestart \/ IdPRestart \/ UNCHANGED vars
  PROVE  InOrder(k)'
<1> USE SessionAssumption DEF rpVars, brokerVars, idpVars, ghosts
<1>0. TypeOK /\ InOrder(k)
  BY DEF CInv, TInv
<1>1. ASSUME NEW r \in Refreshes,
             RefreshStarts(r) \/ RefreshAnswered(r) \/ RefreshFails(r) \/ RefreshSaves(r)
      PROVE  InOrder(k)'
  <2>1. \E to : Go(r, to)
    BY <1>1 DEF RefreshStarts, RefreshAnswered, RefreshFails, RefreshSaves
  <2>2. at'[k] = at[k]
    BY <1>0, <2>1 DEF Go, TypeOK, Handlers
  <2>3. disturbed \subseteq disturbed' /\ UNCHANGED <<late, now, brokerVars, idpVars>>
    BY <1>1 DEF RefreshStarts, RefreshAnswered, RefreshFails, RefreshSaves
  <2> QED
    BY <2>2, <2>3, InOrderFrame
<1>2. CASE UNCHANGED vars
  BY <1>2, InOrderFrame DEF vars
<1>3. CASE Tick
  <2> SUFFICES ASSUME k \notin disturbed \cup late' PROVE InOrder(k)'
    BY <1>3 DEF Tick, InOrder
  <2>1. now' = now + 1 /\ late \subseteq late' /\ UNCHANGED <<at, brokerVars, idpVars, disturbed>>
    BY <1>3 DEF Tick
  <2>2. ASSUME at[k] \in {"issued", "coded", "calling", "redeemed"}
        PROVE  now' < tokens[k].iat + IdLife
    <3>1. ~(now' >= tokens[k].iat + IdLife)
      BY <1>3, <2>2 DEF Tick, Pending
    <3> QED
      BY <1>0, <2>1, <3>1 DEF TypeOK
  <2> QED
    BY <1>0, <2>1, <2>2 DEF InOrder, TypeOK
<1>4. CASE RPRestart \/ SessionEnds \/ BrokerRestart \/ IdPRestart
  <2>1. disturbed' = disturbed \cup Pending /\ late' = late
    BY <1>4 DEF Fault, RPRestart, SessionEnds, BrokerRestart, IdPRestart
  <2>4. at'[k] = at[k] \/ k \in Pending
    BY <1>4 DEF RPRestart, SessionEnds, BrokerRestart, IdPRestart, Pending, Running, Writing, Handlers
  <2>2. CASE k \in Pending
    BY <2>1, <2>2 DEF InOrder
  <2>3. CASE k \notin Pending
    BY <1>0, <2>1, <2>3, <2>4 DEF InOrder, Pending
  <2> QED
    BY <2>2, <2>3
<1> QED
  BY <1>1, <1>2, <1>3, <1>4

LEMMA NextCInv == CInv /\ [Next]_vars => CInv'
<1> SUFFICES ASSUME CInv, [Next]_vars PROVE CInv'
  OBVIOUS
<1>1. TInv'
  BY NextTInv DEF CInv
<1>2. StartsAlone' /\ StateHeld'
  BY LoginStartsHolds, LoginSavesHolds, LoginHolds, RefreshHolds, WorldHolds DEF Next
<1>3. \A k \in Logins : InOrder(k)'
  BY LoginInOrder, OthersInOrder DEF Next
<1> QED
  BY <1>1, <1>2, <1>3 DEF CInv

\* A login fails only for one of the causes the code cannot help: its start overlapped
\* another handler, the browser started another login, a process restarted or a session
\* ended under it, or its first ID token expired on the way (LoginFailsForCause; the
\* state check of handleCallback, resignTokensWithBrokerKey, GetCode, VerifyIDToken).
THEOREM LoginsFailForCause == Spec => []LoginFailsForCause
<1>1. CInv => LoginFailsForCause
  BY DEF CInv, InOrder, LoginFailsForCause
<1> QED
  BY <1>1, InitCInv, NextCInv, PTL DEF Spec

=============================================================================
