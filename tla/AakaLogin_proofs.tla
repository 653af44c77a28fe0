-------------------------- MODULE AakaLogin_proofs --------------------------
(***************************************************************************)
(* Theorems about AakaLogin, for any number of tabs, submissions and       *)
(* accounts and any faults: type correctness; that a record is listed      *)
(* under the acid the RP proved, to which it decrypts unless a buffer is   *)
(* reused under it; and that the login implements ConsentTicket.           *)
(***************************************************************************)
EXTENDS AakaLogin, FiniteSetTheorems, TLAPS

(***************************************************************************)
(* Type correctness.  A tab's page decides what it has read, and a         *)
(* submission exists only for a tab that has got a consent code.           *)
(***************************************************************************)

\* Pages of a login whose script has read the broker's cookies, up to consent.
Reading == {"relay", "toIdP", "consentSent", "consentCookies", "consent", "verified"}

\* Pages of a login that has been given a consent code, or has failed.
Late == {"consented", "posted", "callback", "done", "failed"}

\* Submissions whose code the IdP has found good.
Checked == {"checked", "recorded", "issued", "redirected"}

TabStates  == [at : Pages, sess : Tabs \cup {Nil}, uid : Users \cup {Nil},
               acid : Tabs \cup {Nil}, post : Posts \cup {Nil}]
CodeStates == [live : BOOLEAN, uid : Users \cup {Nil}, acid : Tabs \cup {Nil},
               sealed : [uid : Users \cup {Nil}, acid : Tabs \cup {Nil}]]
PostStates == [at : PostPCs, tab : Tabs \cup {Nil}, state : Tabs \cup {Nil},
               wanted : BOOLEAN]

PageOK(x) ==
  /\ x.at \in (Reading \cup Late) \ {"failed"} \/ x.post # Nil => x.sess \in Tabs
  /\ x.post # Nil => x.at \in Late

TabOK(f) ==
  /\ PageOK(tab[f])
  /\ tab[f].at = "relaySent" => bCookie \in Tabs
  /\ codes[f].uid # Nil => tab[f].at \in Late
  /\ codes[f].live => codes[f].uid # Nil /\ codes[f].acid # Nil

PostOK(p) ==
  /\ post[p].at # "idle" => post[p].tab \in Tabs /\ tab[post[p].tab].post # Nil
  /\ p \in records \/ (\E i \in Loads : cb[p][i] # "idle") => post[p].at # "idle"
  /\ post[p].at \in Checked \/ p \in records => Code(p).uid # Nil /\ Code(p).acid # Nil

TabsOK  == \A f \in Tabs : TabOK(f)
PostsOK == \A p \in Posts : PostOK(p)

TInv == TypeOK /\ TabsOK /\ PostsOK

LEMMA InitTInv == Init => TInv
<1> USE DEF Init, NoTab, NoPost, NoSession, NoSeal, NoCode, NoRPUser
<1>1. Init => TypeOK
  BY LoginAssumption DEF TypeOK, Pages, PostPCs, Loads
<1>2. Init => TabsOK
  BY DEF TabsOK, TabOK, PageOK, Reading, Late
<1>3. Init => PostsOK
  BY DEF PostsOK, PostOK, Checked
<1> QED
  BY <1>1, <1>2, <1>3 DEF TInv

(***************************************************************************)
(* Before consent: one page of one tab changes.                            *)
(***************************************************************************)

\* A step that changes one page keeps all of them in order when the new one is.
LEMMA OnePage ==
  ASSUME TInv, NEW f \in Tabs, NEW x \in TabStates, PageOK(x),
         tab' = [tab EXCEPT ![f] = x],
         x.post = tab[f].post, codes[f].uid = Nil,
         bCookie' = bCookie \/ bCookie' \in Tabs,
         x.at = "relaySent" => bCookie' \in Tabs,
         UNCHANGED <<codes, records, post, cb>>
  PROVE  tab' \in [Tabs -> TabStates] /\ TabsOK' /\ PostsOK'
<1>1. tab \in [Tabs -> TabStates]
  BY DEF TInv, TypeOK, TabStates
<1>2. tab' \in [Tabs -> TabStates]
  BY <1>1
<1>3. ASSUME NEW g \in Tabs PROVE TabOK(g)'
  <2>1. TabOK(g)
    BY DEF TInv, TabsOK
  <2>2. tab'[g] = IF g = f THEN x ELSE tab[g]
    BY <1>1
  <2> QED
    BY <2>1, <2>2 DEF TabOK, PageOK
<1>4. \A g \in Tabs : tab'[g].post = tab[g].post
  BY <1>1
<1>5. ASSUME NEW p \in Posts PROVE PostOK(p)'
  <2>1. PostOK(p)
    BY DEF TInv, PostsOK
  <2> QED
    BY <2>1, <1>4 DEF PostOK, Code
<1> QED
  BY <1>2, <1>3, <1>5 DEF TabsOK, PostsOK

LEMMA BrowseTInv ==
  ASSUME TInv, NEW f \in Tabs, Browse(f), ~ConsentPanics(f), ~Consent(f)
  PROVE  TInv'
<1> DEFINE x == tab'[f]
<1>1. /\ tab[f] \in TabStates /\ TabOK(f) /\ tab \in [Tabs -> TabStates]
      /\ bCookie \in Tabs \cup {Nil}
      /\ idpSess \in [uid : Users \cup {Nil}, acid : Tabs \cup {Nil}]
      /\ iCookie \in [uid : Users \cup {Nil}, acid : Tabs \cup {Nil}]
  BY DEF TInv, TypeOK, TabsOK, TabStates
<1> USE <1>1 DEF TabStates, Pages, PageOK, TabOK, Reading, Late, Go
<1>2. /\ x \in TabStates /\ PageOK(x) /\ tab' = [tab EXCEPT ![f] = x]
      /\ x.post = tab[f].post /\ codes[f].uid = Nil
      /\ bCookie' = bCookie \/ bCookie' \in Tabs
      /\ x.at = "relaySent" => bCookie' \in Tabs
      /\ UNCHANGED <<codes, records, post, cb>>
  <2>1. CASE RPLogin(f)
    BY <2>1 DEF RPLogin, browserVars, idpVars
  <2>2. CASE BrokerAuthorize(f)
    BY <2>2 DEF BrokerAuthorize, browserVars, idpVars
  <2>3. CASE RelayPageLoads(f)
    BY <2>3 DEF RelayPageLoads, browserVars, idpVars
  <2>4. CASE BrokerLogin(f)
    <3>1. tab' = [tab EXCEPT ![f].at = "toIdP"] \/ tab' = [tab EXCEPT ![f].at = "failed"]
      BY <2>4 DEF BrokerLogin
    <3> QED
      BY <2>4, <3>1 DEF BrokerLogin, browserVars, idpVars
  <2>5. CASE IdPAuthorize(f)
    BY <2>5 DEF IdPAuthorize, browserVars
  <2>6. CASE ConsentCookies(f)
    BY <2>6 DEF ConsentCookies, idpVars
  <2>7. CASE ConsentPageLoads(f)
    BY <2>7 DEF ConsentPageLoads, browserVars, idpVars
  <2>8. CASE Verify(f)
    <3>1. tab' = [tab EXCEPT ![f].at = "verified"] \/ tab' = [tab EXCEPT ![f].at = "failed"]
      BY <2>8 DEF Verify
    <3> QED
      BY <2>8, <3>1 DEF Verify, browserVars, idpVars
  <2>9. CASE ConsentLoggedOut(f)
    BY <2>9 DEF ConsentLoggedOut, browserVars, idpVars
  <2> QED
    BY <2>1, <2>2, <2>3, <2>4, <2>5, <2>6, <2>7, <2>8, <2>9 DEF Browse
<1>3. tab' \in [Tabs -> TabStates] /\ TabsOK' /\ PostsOK'
  BY <1>2, OnePage
<1>4. TypeOK'
  <2> USE DEF Browse, TInv, TypeOK, rpVars, browserVars, brokerVars, idpVars
  <2>1. CASE RPLogin(f)
    BY <1>3, <2>1 DEF RPLogin
  <2>2. CASE BrokerAuthorize(f)
    BY <1>3, <2>2 DEF BrokerAuthorize
  <2>3. CASE RelayPageLoads(f) \/ BrokerLogin(f)
    BY <1>3, <2>3 DEF RelayPageLoads, BrokerLogin
  <2>4. CASE IdPAuthorize(f)
    BY <1>3, <2>4 DEF IdPAuthorize
  <2>5. CASE ConsentCookies(f)
    BY <1>3, <2>5 DEF ConsentCookies
  <2>6. CASE ConsentPageLoads(f) \/ Verify(f) \/ ConsentLoggedOut(f)
    BY <1>3, <2>6 DEF ConsentPageLoads, Verify, ConsentLoggedOut
  <2> QED
    BY <2>1, <2>2, <2>3, <2>4, <2>5, <2>6
<1> QED
  BY <1>3, <1>4 DEF TInv

(***************************************************************************)
(* The consent and the submissions of the form.                            *)
(***************************************************************************)
LEMMA ConsentTInv ==
  ASSUME TInv, NEW f \in Tabs, Consent(f)
  PROVE  TInv'
<1> DEFINE c == codes'[f]
           x == [tab[f] EXCEPT !.at = "consented"]
<1>1. /\ tab \in [Tabs -> TabStates] /\ codes \in [Tabs -> CodeStates] /\ TabOK(f)
      /\ idpSess \in [uid : Users \cup {Nil}, acid : Tabs \cup {Nil}]
      /\ tab[f].at = "verified" /\ tab[f] \in TabStates
  BY DEF TInv, TypeOK, TabsOK, TabStates, CodeStates, Consent
<1>2. x \in TabStates /\ PageOK(x) /\ tab' = [tab EXCEPT ![f] = x]
  BY <1>1 DEF Consent, Go, TabOK, PageOK, TabStates, Pages, Reading, Late
<1>3. /\ c \in CodeStates /\ codes' = [codes EXCEPT ![f] = c]
      /\ c.uid # Nil /\ c.acid # Nil
  BY <1>1 DEF Consent, CodeStates, TabStates
<1>4. tab[f].post = Nil
  BY <1>1 DEF TabOK, PageOK, Late
<1>5. ASSUME NEW g \in Tabs PROVE TabOK(g)'
  <2>1. TabOK(g)
    BY DEF TInv, TabsOK
  <2>2. /\ tab'[g] = IF g = f THEN x ELSE tab[g]
        /\ codes'[g] = IF g = f THEN c ELSE codes[g]
        /\ x.at = "consented" /\ bCookie' = bCookie
    BY <1>1, <1>2, <1>3 DEF Consent, TabStates, browserVars
  <2>3. CASE g = f
    BY <1>2, <1>3, <2>2, <2>3 DEF TabOK, Late
  <2> QED
    BY <2>1, <2>2, <2>3 DEF TabOK, PageOK
<1>6. ASSUME NEW p \in Posts PROVE PostOK(p)'
  <2>1. PostOK(p) /\ UNCHANGED <<post, records, cb>>
    BY DEF TInv, PostsOK, Consent
  <2>2. post[p].at # "idle" => /\ post[p].tab # f /\ post[p].tab \in Tabs
                               /\ tab'[post[p].tab] = tab[post[p].tab]
                               /\ codes'[post[p].tab] = codes[post[p].tab]
    BY <1>1, <1>2, <1>3, <1>4, <2>1 DEF PostOK
  <2> QED
    BY <2>1, <2>2 DEF PostOK, Code, Checked
<1>7. TypeOK'
  BY <1>1, <1>2, <1>3 DEF Consent, TInv, TypeOK, TabStates, CodeStates, rpVars, browserVars,
                          brokerVars
<1> QED
  BY <1>5, <1>6, <1>7 DEF TInv, TabsOK, PostsOK

LEMMA SubmitTInv ==
  ASSUME TInv, NEW f \in Tabs, NEW p \in Posts, Submit(f, p)
  PROVE  TInv'
<1> DEFINE x == [tab[f] EXCEPT !.at = "posted", !.post = p]
           y == [post[p] EXCEPT !.at = "sent", !.tab = f]
<1>1. /\ tab \in [Tabs -> TabStates] /\ tab[f] \in TabStates /\ TabOK(f)
      /\ post \in [Posts -> PostStates] /\ post[p] \in PostStates
      /\ post[p].at = "idle" /\ p # Nil
      /\ tab' = [tab EXCEPT ![f] = x] /\ post' = [post EXCEPT ![p] = y]
  BY LoginAssumption DEF TInv, TypeOK, TabsOK, TabStates, PostStates, Submit
<1>2. x \in TabStates /\ PageOK(x)
  BY <1>1 DEF Submit, TabOK, PageOK, TabStates, Pages, Reading, Late
<1>3. y \in PostStates
  BY <1>1 DEF PostStates, PostPCs
<1>4. x.at = "posted" /\ x.post = p /\ y.at = "sent" /\ y.tab = f
  BY <1>1 DEF TabStates, PostStates
<1>5. ASSUME NEW g \in Tabs PROVE TabOK(g)'
  <2>1. TabOK(g) /\ UNCHANGED <<codes, bCookie>>
    BY DEF TInv, TabsOK, Submit, browserVars, idpVars
  <2>2. tab'[g] = IF g = f THEN x ELSE tab[g]
    BY <1>1
  <2> QED
    BY <1>2, <1>4, <2>1, <2>2 DEF TabOK, PageOK, Late
<1>6. ASSUME NEW r \in Posts PROVE PostOK(r)'
  <2>1. PostOK(r) /\ UNCHANGED <<codes, records, cb>>
    BY DEF TInv, PostsOK, Submit, idpVars
  <2>2. /\ post'[r] = IF r = p THEN y ELSE post[r]
        /\ \A g \in Tabs : tab'[g] = IF g = f THEN x ELSE tab[g]
    BY <1>1
  <2>3. CASE r = p
    <3>1. r \notin records
      BY <1>1, <2>1, <2>3 DEF PostOK
    <3> QED
      BY <1>1, <1>4, <2>1, <2>2, <2>3, <3>1 DEF PostOK, Checked
  <2> QED
    BY <1>1, <1>4, <2>1, <2>2, <2>3 DEF PostOK, Code
<1>7. TypeOK'
  BY <1>1, <1>2, <1>3 DEF Submit, TInv, TypeOK, TabStates, PostStates, rpVars, browserVars,
                          brokerVars, idpVars
<1> QED
  BY <1>5, <1>6, <1>7 DEF TInv, TabsOK, PostsOK

(***************************************************************************)
(* After consent.  The servers' steps, failures and restarts only move     *)
(* submissions on and change which page a tab shows; what the pages have   *)
(* read and to whom a code is made out stays as it is.                     *)
(***************************************************************************)
PageStep(f, t) ==
  \/ t[f] = tab[f]
  \/ t[f] = [tab[f] EXCEPT !.at = "failed"]
  \/ /\ tab[f].post # Nil
     /\ \E at \in {"callback", "done"} : t[f] = [tab[f] EXCEPT !.at = at]

CodeStep(f) == /\ codes'[f].uid = codes[f].uid /\ codes'[f].acid = codes[f].acid
               /\ codes'[f].live => codes[f].live

PostStep(p) ==
  /\ post'[p].tab = post[p].tab
  /\ post[p].at = "idle" <=> post'[p].at = "idle"
  /\ post'[p].at \in Checked => post[p].at \in Checked \/ CodeOK(p)
  /\ p \in records' => p \in records \/ post[p].at \in Checked
  /\ \A i \in Loads : cb'[p][i] # "idle" => cb[p][i] # "idle" \/ post[p].at # "idle"

Later == /\ \A f \in Tabs : PageStep(f, tab') /\ CodeStep(f)
         /\ \A p \in Posts : PostStep(p)
         /\ bCookie' = bCookie

LEMMA LaterTInv ==
  ASSUME TInv, TypeOK', Later
  PROVE  TInv'
<1>1. tab \in [Tabs -> TabStates] /\ tab' \in [Tabs -> TabStates]
  BY DEF TInv, TypeOK, TabStates
<1>2. ASSUME NEW f \in Tabs PROVE tab'[f].post = tab[f].post /\ TabOK(f)'
  <2>1. TabOK(f) /\ PageStep(f, tab') /\ CodeStep(f) /\ bCookie' = bCookie
    BY DEF TInv, TabsOK, Later
  <2>2. tab[f] \in TabStates
    BY <1>1
  <2>3. /\ tab'[f].post = tab[f].post /\ tab'[f].sess = tab[f].sess
        /\ \/ tab'[f].at = tab[f].at
           \/ tab'[f].at = "failed"
           \/ tab[f].post # Nil /\ tab'[f].at \in {"callback", "done"}
    BY <2>1, <2>2 DEF PageStep, TabStates
  <2> QED
    BY <2>1, <2>3 DEF TabOK, PageOK, CodeStep, Reading, Late
<1>3. ASSUME NEW p \in Posts PROVE PostOK(p)'
  <2>1. PostOK(p) /\ PostStep(p)
    BY DEF TInv, PostsOK, Later
  <2>2. CASE post[p].at = "idle"
    BY <2>1, <2>2 DEF PostOK, PostStep, Checked
  <2>3. CASE post[p].at # "idle"
    <3>1. /\ post[p].tab \in Tabs /\ TabOK(post[p].tab) /\ CodeStep(post[p].tab)
          /\ tab'[post[p].tab].post = tab[post[p].tab].post
      BY <1>2, <2>1, <2>3 DEF PostOK, TInv, TabsOK, Later
    <3> QED
      BY <2>1, <2>3, <3>1 DEF PostOK, PostStep, TabOK, CodeStep, Code, CodeOK
  <2> QED
    BY <2>2, <2>3
<1> QED
  BY <1>2, <1>3 DEF TInv, TabsOK, PostsOK

Sealed == \A f \in Tabs : codes'[f].sealed # NoSeal => codes'[f].sealed = codes[f].sealed

\* What is known of a submission that is under way.
LEMMA UnderWay ==
  ASSUME TInv, NEW p \in Posts, post[p].at # "idle"
  PROVE  /\ post[p].tab \in Tabs /\ tab[post[p].tab].post # Nil
         /\ Sess(p) \in Tabs /\ Code(p) \in CodeStates
         /\ post[p] \in PostStates
  BY DEF TInv, TypeOK, TabsOK, PostsOK, TabOK, PostOK, PageOK, Sess, Code, CodeStates, PostStates

\* An answer that is shown in a tab, or lost.
LEMMA ShownStep ==
  ASSUME TInv, NEW p \in Posts, post[p].at # "idle", NEW at \in {"failed", "callback"}
  PROVE  /\ Shown(p, at) \in [Tabs -> TabStates]
         /\ \A f \in Tabs : PageStep(f, Shown(p, at))
<1> DEFINE h == post[p].tab
           x == [tab[h] EXCEPT !.at = at]
<1>1. h \in Tabs /\ tab[h].post # Nil /\ tab \in [Tabs -> TabStates]
  BY UnderWay DEF TInv, TypeOK, TabStates
<1>2. x \in TabStates
  BY <1>1 DEF TabStates, Pages
<1>3. Shown(p, at) = tab \/ Shown(p, at) = [tab EXCEPT ![h] = x]
  BY <1>1 DEF Shown, TabStates
<1>4. CASE Shown(p, at) = tab
  BY <1>1, <1>4 DEF PageStep
<1>5. CASE Shown(p, at) = [tab EXCEPT ![h] = x]
  BY <1>1, <1>2, <1>5 DEF PageStep
<1> QED
  BY <1>3, <1>4, <1>5

LEMMA CallbackShownStep ==
  ASSUME TInv, NEW p \in Posts, post[p].at # "idle", NEW i, NEW at \in {"failed", "done"}
  PROVE  /\ CallbackShown(p, i, at) \in [Tabs -> TabStates]
         /\ \A f \in Tabs : PageStep(f, CallbackShown(p, i, at))
<1> DEFINE h == post[p].tab
           x == [tab[h] EXCEPT !.at = at]
<1>1. h \in Tabs /\ tab[h].post # Nil /\ tab \in [Tabs -> TabStates]
  BY UnderWay DEF TInv, TypeOK, TabStates
<1>2. x \in TabStates
  BY <1>1 DEF TabStates, Pages
<1>3. CallbackShown(p, i, at) = tab \/ CallbackShown(p, i, at) = [tab EXCEPT ![h] = x]
  BY <1>1 DEF CallbackShown, TabStates
<1>4. CASE CallbackShown(p, i, at) = tab
  BY <1>1, <1>4 DEF PageStep
<1>5. CASE CallbackShown(p, i, at) = [tab EXCEPT ![h] = x]
  BY <1>1, <1>2, <1>5 DEF PageStep
<1> QED
  BY <1>3, <1>4, <1>5

\* One submission moves on, in a way that the IdP's check allows.
LEMMA OnePost ==
  ASSUME TInv, NEW p \in Posts, post[p].at # "idle",
         NEW y \in PostStates, post' = [post EXCEPT ![p] = y],
         y.at # "idle", y.tab = post[p].tab,
         y.at \in Checked => post[p].at \in Checked \/ CodeOK(p),
         \A r \in records' : r \in records \/ post[r].at \in Checked,
         cb' = cb
  PROVE  post' \in [Posts -> PostStates] /\ \A r \in Posts : PostStep(r)
<1>1. post \in [Posts -> PostStates]
  BY DEF TInv, TypeOK, PostStates
<1> QED
  BY <1>1 DEF PostStep

LEMMA HandleLater ==
  ASSUME TInv, NEW p \in Posts, Handle(p)
  PROVE  TypeOK' /\ Later /\ Sealed
<1>1. /\ post[p].at # "idle" /\ post[p].tab \in Tabs /\ Sess(p) \in Tabs
      /\ post[p] \in PostStates /\ Code(p) \in CodeStates
  BY UnderWay DEF Handle, BrokerLookup, RPGenPoK, IdPCheck, IdPRefuse, IdPRecord, IdPBurn,
                  BrokerIssue, BrokerCannotResign
<1>2. /\ tab \in [Tabs -> TabStates] /\ codes \in [Tabs -> CodeStates]
      /\ post \in [Posts -> PostStates]
      /\ sdata[Sess(p)].state \in Tabs \cup {Nil} /\ sdata[Sess(p)].live \in BOOLEAN
  BY <1>1 DEF TInv, TypeOK, TabStates, CodeStates, PostStates
<1>3. /\ tab' \in [Tabs -> TabStates]
      /\ \A f \in Tabs : PageStep(f, tab')
  <2>1. tab' = tab \/ tab' = Shown(p, "failed") \/ tab' = Shown(p, "callback")
    BY DEF Handle, BrokerLookup, RPGenPoK, IdPCheck, IdPRefuse, IdPRecord, IdPBurn,
           BrokerIssue, BrokerCannotResign, Refuse
  <2>2. \A f \in Tabs : PageStep(f, tab)
    BY DEF PageStep
  <2> QED
    BY <1>1, <1>2, <2>1, <2>2, ShownStep
<1>4. /\ codes' \in [Tabs -> CodeStates]
      /\ \A f \in Tabs : CodeStep(f) /\ codes'[f].sealed = codes[f].sealed
  <2>1. CASE codes' = codes
    BY <1>2, <2>1 DEF CodeStep
  <2>2. CASE codes' = [codes EXCEPT ![post[p].tab].live = FALSE]
    BY <1>1, <1>2, <2>2 DEF CodeStep, CodeStates
  <2> QED
    BY <2>1, <2>2 DEF Handle, BrokerLookup, RPGenPoK, IdPCheck, IdPRefuse, IdPRecord, IdPBurn,
                      BrokerIssue, BrokerCannotResign, idpVars
<1>5. post' \in [Posts -> PostStates] /\ \A r \in Posts : PostStep(r)
  <2>1. cb' = cb /\ \A r \in records' : r \in records \/ post[r].at \in Checked
    BY DEF Handle, BrokerLookup, RPGenPoK, IdPCheck, IdPRefuse, IdPRecord, IdPBurn,
           BrokerIssue, BrokerCannotResign, idpVars, Checked
  <2>2. ASSUME NEW at \in PostPCs \ {"idle"}, NEW state \in Tabs \cup {Nil},
               post' = [post EXCEPT ![p].at = at, ![p].state = state],
               at \in Checked => post[p].at \in Checked \/ CodeOK(p)
        PROVE  post' \in [Posts -> PostStates] /\ \A r \in Posts : PostStep(r)
    <3> DEFINE y == [post[p] EXCEPT !.at = at, !.state = state]
    <3>1. /\ y \in PostStates /\ post' = [post EXCEPT ![p] = y]
          /\ y.at = at /\ y.tab = post[p].tab
      BY <1>1, <1>2, <2>2 DEF PostStates
    <3> HIDE DEF y
    <3> QED
      BY <1>1, <2>1, <2>2, <3>1, OnePost
  <2>3. ASSUME NEW at \in PostPCs \ {"idle"}, post' = [post EXCEPT ![p].at = at],
               at \in Checked => post[p].at \in Checked \/ CodeOK(p)
        PROVE  post' \in [Posts -> PostStates] /\ \A r \in Posts : PostStep(r)
    <3>1. /\ post[p].state \in Tabs \cup {Nil}
          /\ post' = [post EXCEPT ![p].at = at, ![p].state = post[p].state]
      BY <1>1, <1>2, <2>3 DEF PostStates
    <3> QED
      BY <2>2, <2>3, <3>1
  <2> USE DEF PostPCs, Checked
  <2>4. CASE BrokerLookup(p)
    <3>1. post' = [post EXCEPT ![p].at = "pok"] \/ post' = [post EXCEPT ![p].at = "failed"]
      BY <2>4 DEF BrokerLookup, Refuse
    <3> QED
      BY <3>1, <2>3
  <2>5. CASE RPGenPoK(p)
    BY <2>3, <2>5 DEF RPGenPoK
  <2>6. CASE IdPCheck(p)
    BY <2>3, <2>6 DEF IdPCheck
  <2>7. CASE IdPRefuse(p) \/ BrokerCannotResign(p)
    BY <2>3, <2>7 DEF IdPRefuse, BrokerCannotResign, Refuse
  <2>8. CASE IdPRecord(p)
    BY <2>3, <2>8 DEF IdPRecord
  <2>9. CASE IdPBurn(p)
    <3>1. post' = [post EXCEPT ![p].at = "issued"] \/ post' = [post EXCEPT ![p].at = "failed"]
      BY <2>9 DEF IdPBurn
    <3> QED
      BY <2>3, <2>9, <3>1 DEF IdPBurn
  <2>10. CASE BrokerIssue(p)
    BY <1>2, <2>2, <2>10 DEF BrokerIssue
  <2> QED
    BY <2>4, <2>5, <2>6, <2>7, <2>8, <2>9, <2>10 DEF Handle
<1>6. bCookie' = bCookie
  BY DEF Handle, BrokerLookup, RPGenPoK, IdPCheck, IdPRefuse, IdPRecord, IdPBurn, BrokerIssue,
         BrokerCannotResign, browserVars
<1>7. sdata' \in [Tabs -> [state : Tabs \cup {Nil}, live : BOOLEAN]]
  <2>1. sdata \in [Tabs -> [state : Tabs \cup {Nil}, live : BOOLEAN]]
    BY DEF TInv, TypeOK
  <2>2. sdata' = sdata \/ sdata' = [sdata EXCEPT ![Sess(p)].live = FALSE]
    BY DEF Handle, BrokerLookup, RPGenPoK, IdPCheck, IdPRefuse, IdPRecord, IdPBurn,
           BrokerIssue, BrokerCannotResign, brokerVars
  <2> QED
    BY <2>1, <2>2
<1>8. TypeOK'
  <2> USE <1>3, <1>4, <1>5, <1>7
      DEF TInv, TypeOK, TabStates, CodeStates, PostStates, rpVars, browserVars, brokerVars, idpVars
  <2>1. CASE BrokerLookup(p)
    BY <2>1 DEF BrokerLookup
  <2>2. CASE RPGenPoK(p)
    BY <1>1, <1>2, <2>2 DEF RPGenPoK, SaveKS
  <2>3. CASE IdPCheck(p) \/ IdPRefuse(p) \/ BrokerCannotResign(p)
    BY <2>3 DEF IdPCheck, IdPRefuse, BrokerCannotResign
  <2>4. CASE IdPRecord(p) \/ IdPBurn(p)
    BY <2>4 DEF IdPRecord, IdPBurn
  <2>5. CASE BrokerIssue(p)
    <3>1. /\ bcodes' \subseteq Posts
          /\ UNCHANGED <<rpVars, browserVars, users, idpVars, cb, faults>>
      BY <2>5 DEF BrokerIssue
    <3> QED
      BY <3>1
  <2> QED
    BY <2>1, <2>2, <2>3, <2>4, <2>5 DEF Handle
<1> QED
  BY <1>3, <1>4, <1>5, <1>6, <1>8 DEF Later, Sealed

\* One load of a callback page moves on.
LEMMA OneLoad ==
  ASSUME TInv, NEW p \in Posts, NEW i \in Loads, post[p].at # "idle",
         NEW at \in {"redeem", "got", "done", "failed"},
         cb' = [cb EXCEPT ![p][i] = at], UNCHANGED <<post, records>>
  PROVE  /\ cb' \in [Posts -> [Loads -> {"idle", "redeem", "got", "done", "failed"}]]
         /\ \A r \in Posts : PostStep(r)
<1>1. cb \in [Posts -> [Loads -> {"idle", "redeem", "got", "done", "failed"}]]
  BY DEF TInv, TypeOK
<1>2. cb' = [cb EXCEPT ![p] = [cb[p] EXCEPT ![i] = at]]
  BY <1>1
<1>3. cb' \in [Posts -> [Loads -> {"idle", "redeem", "got", "done", "failed"}]]
  BY <1>1, <1>2
<1>4. \A r \in Posts : r # p => cb'[r] = cb[r]
  BY <1>1, <1>2
<1>5. ASSUME NEW r \in Posts PROVE PostStep(r)
  BY <1>4 DEF PostStep
<1> QED
  BY <1>3, <1>5

LEMMA CallbackLater ==
  ASSUME TInv, NEW p \in Posts, NEW i \in Loads,
         CallbackStart(p, i) \/ HandleCallback(p, i) \/ RPCallFails(p, i)
  PROVE  TypeOK' /\ Later /\ Sealed
<1> USE DEF HandleCallback, CallbackStart, BrokerRedeem, BrokerRefusesCode, CallbackDone,
            CallbackCannotDecrypt, RPCallFails
<1>1. /\ post[p].at # "idle"
      /\ UNCHANGED <<post, records, codes, bCookie, aake, sdata, idpSess, iCookie, valid>>
  BY DEF TInv, PostsOK, PostOK, rpVars, browserVars, brokerVars, idpVars
<1>2. /\ post[p].tab \in Tabs /\ tab[post[p].tab].post # Nil
      /\ post[p] \in PostStates /\ Code(p) \in CodeStates
  BY <1>1, UnderWay
<1>3. PICK at \in {"redeem", "got", "done", "failed"} : cb' = [cb EXCEPT ![p][i] = at]
  BY DEF CallbackFails
<1>4. /\ cb' \in [Posts -> [Loads -> {"idle", "redeem", "got", "done", "failed"}]]
      /\ \A r \in Posts : PostStep(r)
  BY <1>1, <1>3, OneLoad
<1>5. tab' \in [Tabs -> TabStates] /\ \A f \in Tabs : PageStep(f, tab')
  <2>1. tab \in [Tabs -> TabStates] /\ \A f \in Tabs : PageStep(f, tab)
    BY DEF TInv, TypeOK, TabStates, PageStep
  <2>2. CASE CallbackStart(p, i)
    <3>1. PICK page \in {"callback", "failed"} : tab' = [tab EXCEPT ![post[p].tab].at = page]
      BY <2>2
    <3>2. tab' \in [Tabs -> TabStates]
      BY <1>2, <2>1, <3>1 DEF TabStates, Pages
    <3>3. \A f \in Tabs : PageStep(f, tab')
      BY <1>2, <2>1, <3>1 DEF PageStep, TabStates
    <3> QED
      BY <3>2, <3>3
  <2>3. CASE HandleCallback(p, i) \/ RPCallFails(p, i)
    <3>1. \/ tab' = tab
          \/ tab' = CallbackShown(p, i, "failed")
          \/ tab' = CallbackShown(p, i, "done")
      BY <2>3 DEF CallbackFails
    <3> QED
      BY <1>1, <2>1, <3>1, CallbackShownStep
  <2> QED
    BY <2>2, <2>3
<1>6. \A f \in Tabs : CodeStep(f) /\ codes'[f].sealed = codes[f].sealed
  BY <1>1 DEF CodeStep
<1>7. rpSess' \in [state : Tabs \cup {Nil}, user : Users \cup {Nil}]
  BY <1>2 DEF TInv, TypeOK, PostStates, CodeStates, rpVars
<1>8. /\ bcodes' \subseteq Posts /\ users' \in [Users -> Posts \cup {Nil}]
      /\ faults' \in 0 .. MaxFaults
  <2>1. /\ bcodes \subseteq Posts /\ users \in [Users -> Posts \cup {Nil}]
        /\ faults \in 0 .. MaxFaults /\ MaxFaults \in Nat
    BY LoginAssumption DEF TInv, TypeOK
  <2>2. \/ bcodes' = bcodes /\ users' = users
        \/ bcodes' = bcodes \ {p} /\ users' = [users EXCEPT ![Code(p).uid] = p]
    BY DEF Without, brokerVars
  <2>3. \/ faults' = faults
        \/ faults < MaxFaults /\ faults' = faults + 1
    BY DEF Fault
  <2>4. faults' \in 0 .. MaxFaults
    BY ONLY <2>1, <2>3
  <2> QED
    BY ONLY <2>1, <2>2, <2>4
<1>9. TypeOK'
  BY <1>1, <1>4, <1>5, <1>7, <1>8 DEF TInv, TypeOK, TabStates
<1> QED
  BY <1>1, <1>4, <1>5, <1>6, <1>9 DEF Later, Sealed

(***************************************************************************)
(* Restarts, failures and the end of sessions.                             *)
(***************************************************************************)
CbStates == [Loads -> {"idle", "redeem", "got", "done", "failed"}]

LEMMA InterruptLater ==
  ASSUME TInv, NEW P, NEW O, NEW C, NEW pages, Interrupt(P, O, C, pages),
         \A p \in P \cup O : post[p].at # "idle",
         \A p \in Posts, i \in Loads : <<p, i>> \in C => cb[p][i] # "idle",
         records' \subseteq records
  PROVE  /\ tab' \in [Tabs -> TabStates] /\ post' \in [Posts -> PostStates]
         /\ cb' \in [Posts -> CbStates]
         /\ \A f \in Tabs : PageStep(f, tab')
         /\ \A p \in Posts : PostStep(p)
<1>1. /\ tab \in [Tabs -> TabStates] /\ post \in [Posts -> PostStates]
      /\ cb \in [Posts -> CbStates]
  BY DEF TInv, TypeOK, TabStates, PostStates, CbStates
<1>2. /\ DOMAIN tab' = Tabs /\ tab' = [f \in Tabs |-> tab'[f]]
      /\ \A f \in Tabs : tab'[f] = tab[f] \/ tab'[f] = [tab[f] EXCEPT !.at = "failed"]
  BY DEF Interrupt
<1>3. \A f \in Tabs : tab'[f] \in TabStates /\ PageStep(f, tab')
  BY <1>1, <1>2 DEF PageStep, TabStates, Pages
<1>4. tab' \in [Tabs -> TabStates]
  BY <1>2, <1>3
<1>5. /\ DOMAIN post' = Posts /\ post' = [p \in Posts |-> post'[p]]
      /\ \A p \in Posts :
           \/ post'[p] = post[p]
           \/ post[p].at # "idle" /\ post'[p] = [post[p] EXCEPT !.at = "failed"]
           \/ post[p].at # "idle" /\ post'[p] = [post[p] EXCEPT !.wanted = FALSE]
  BY DEF Interrupt
<1>6. \A p \in Posts : post[p] \in PostStates
  BY <1>1
<1>7. ASSUME NEW p \in Posts
      PROVE  /\ post'[p] \in PostStates
             /\ post'[p].tab = post[p].tab
             /\ post[p].at = "idle" <=> post'[p].at = "idle"
             /\ post'[p].at = post[p].at \/ post'[p].at = "failed"
  <2>1. post[p] \in PostStates
    BY <1>6
  <2>2. CASE post'[p] = post[p]
    BY <2>1, <2>2
  <2>3. CASE post[p].at # "idle" /\ post'[p] = [post[p] EXCEPT !.at = "failed"]
    BY <2>1, <2>3 DEF PostStates, PostPCs
  <2>4. CASE post[p].at # "idle" /\ post'[p] = [post[p] EXCEPT !.wanted = FALSE]
    BY <2>1, <2>4 DEF PostStates
  <2> QED
    BY <1>5, <2>2, <2>3, <2>4
<1>8. post' \in [Posts -> PostStates]
  BY <1>5, <1>7
<1>9. cb' = [p \in Posts |-> [i \in Loads |->
                IF <<p, i>> \in C THEN "failed" ELSE cb[p][i]]]
  BY DEF Interrupt
<1>10. cb' \in [Posts -> CbStates]
  BY <1>1, <1>9 DEF CbStates
<1>11. \A p \in Posts, i \in Loads : cb'[p][i] # "idle" => cb[p][i] # "idle"
  BY <1>9
<1>12. \A p \in Posts : PostStep(p)
  BY <1>7, <1>11 DEF PostStep, Checked
<1> QED
  BY <1>3, <1>4, <1>8, <1>10, <1>12

LEMMA IdPStopsLater ==
  ASSUME TInv, NEW pages, IdPStops(pages), faults' \in 0 .. MaxFaults
  PROVE  TypeOK' /\ Later /\ Sealed
<1>1. /\ Interrupt(At({"checked", "recorded"}), {}, {}, pages)
      /\ idpSess' = NoSession /\ records' = {} /\ valid' = {}
      /\ codes' = [f \in Tabs |-> [codes[f] EXCEPT !.live = FALSE]]
      /\ UNCHANGED <<rpVars, browserVars, brokerVars>>
  BY DEF IdPStops
<1>2. /\ tab' \in [Tabs -> TabStates] /\ post' \in [Posts -> PostStates]
      /\ cb' \in [Posts -> CbStates]
      /\ \A f \in Tabs : PageStep(f, tab')
      /\ \A p \in Posts : PostStep(p)
  <2>1. \A p \in At({"checked", "recorded"}) \cup {} : post[p].at # "idle"
    BY DEF At
  <2> QED
    BY <1>1, <2>1, InterruptLater
<1>3. \A f \in Tabs : codes[f] \in CodeStates
  BY DEF TInv, TypeOK, CodeStates
<1>4. /\ codes' \in [Tabs -> CodeStates]
      /\ \A f \in Tabs : CodeStep(f) /\ codes'[f].sealed = codes[f].sealed
  BY <1>1, <1>3 DEF CodeStep, CodeStates
<1>5. TypeOK'
  BY <1>1, <1>2, <1>4 DEF TInv, TypeOK, TabStates, PostStates, CbStates, CodeStates, NoSession,
                          rpVars, browserVars, brokerVars
<1> QED
  BY <1>1, <1>2, <1>4, <1>5 DEF Later, Sealed, browserVars

LEMMA RPRestartLater == TInv /\ RPRestart => TypeOK' /\ Later /\ Sealed
<1> SUFFICES ASSUME TInv, RPRestart PROVE TypeOK' /\ Later /\ Sealed
  OBVIOUS
<1>1. /\ Interrupt(At({"pok"}), {}, Loading({"redeem", "got"}), {})
      /\ rpSess' = NoRPUser /\ aake' = [s \in Tabs |-> Nil] /\ faults' \in 0 .. MaxFaults
      /\ UNCHANGED <<browserVars, brokerVars, idpVars>>
  BY LoginAssumption DEF RPRestart, Fault, TInv, TypeOK
<1>2. /\ tab' \in [Tabs -> TabStates] /\ post' \in [Posts -> PostStates]
      /\ cb' \in [Posts -> CbStates]
      /\ \A f \in Tabs : PageStep(f, tab')
      /\ \A p \in Posts : PostStep(p)
  <2>1. \A p \in At({"pok"}) \cup {} : post[p].at # "idle"
    BY DEF At
  <2>2. \A p \in Posts, i \in Loads : <<p, i>> \in Loading({"redeem", "got"}) => cb[p][i] # "idle"
    BY DEF Loading
  <2>3. records' \subseteq records
    BY <1>1 DEF idpVars
  <2> QED
    BY <1>1, <2>1, <2>2, <2>3, InterruptLater
<1>3. \A f \in Tabs : CodeStep(f) /\ codes'[f].sealed = codes[f].sealed
  BY <1>1 DEF CodeStep, idpVars
<1>4. TypeOK'
  BY <1>1, <1>2 DEF TInv, TypeOK, TabStates, PostStates, CbStates, NoRPUser, idpVars,
                    browserVars, brokerVars
<1> QED
  BY <1>1, <1>2, <1>3, <1>4 DEF Later, Sealed, browserVars

LEMMA BrokerRestartLater == TInv /\ BrokerRestart => TypeOK' /\ Later /\ Sealed
<1> SUFFICES ASSUME TInv, BrokerRestart PROVE TypeOK' /\ Later /\ Sealed
  OBVIOUS
<1> DEFINE P == At({"sent", "pok", "issued"})
           O == At({"proved", "checked", "recorded"})
<1>1. /\ Interrupt(P, O, Loading({"redeem", "got"}), {})
      /\ sdata' = [s \in Tabs |-> [sdata[s] EXCEPT !.live = FALSE]]
      /\ bcodes' = {} /\ users' = [u \in Users |-> Nil] /\ faults' \in 0 .. MaxFaults
      /\ UNCHANGED <<rpVars, browserVars, idpVars>>
  BY LoginAssumption DEF BrokerRestart, Fault, TInv, TypeOK
<1>2. /\ tab' \in [Tabs -> TabStates] /\ post' \in [Posts -> PostStates]
      /\ cb' \in [Posts -> CbStates]
      /\ \A f \in Tabs : PageStep(f, tab')
      /\ \A p \in Posts : PostStep(p)
  <2>1. \A p \in P \cup O : post[p].at # "idle"
    BY DEF At
  <2>2. \A p \in Posts, i \in Loads : <<p, i>> \in Loading({"redeem", "got"}) => cb[p][i] # "idle"
    BY DEF Loading
  <2>3. records' \subseteq records
    BY <1>1 DEF idpVars
  <2> QED
    BY <1>1, <2>1, <2>2, <2>3, InterruptLater
<1>3. sdata' \in [Tabs -> [state : Tabs \cup {Nil}, live : BOOLEAN]]
  <2>1. \A s \in Tabs : sdata[s] \in [state : Tabs \cup {Nil}, live : BOOLEAN]
    BY DEF TInv, TypeOK
  <2> QED
    BY <1>1, <2>1
<1>4. \A f \in Tabs : CodeStep(f) /\ codes'[f].sealed = codes[f].sealed
  BY <1>1 DEF CodeStep, idpVars
<1>5. TypeOK'
  BY <1>1, <1>2, <1>3 DEF TInv, TypeOK, TabStates, PostStates, CbStates, idpVars, rpVars,
                          browserVars
<1> QED
  BY <1>1, <1>2, <1>4, <1>5 DEF Later, Sealed, browserVars

LEMMA BrokerCallFailsLater ==
  ASSUME TInv, NEW p \in Posts, BrokerCallFails(p)
  PROVE  TypeOK' /\ Later /\ Sealed
<1>1. /\ post[p].at # "idle" /\ faults' \in 0 .. MaxFaults
      /\ UNCHANGED <<rpVars, browserVars, brokerVars, idpVars, cb>>
  BY LoginAssumption DEF BrokerCallFails, Fault, TInv, TypeOK
<1>2. tab' \in [Tabs -> TabStates] /\ \A f \in Tabs : PageStep(f, tab')
  <2>1. tab' = Shown(p, "failed")
    BY DEF BrokerCallFails, Refuse
  <2> QED
    BY <1>1, <2>1, ShownStep
<1>3. post' \in [Posts -> PostStates] /\ \A r \in Posts : PostStep(r)
  <2>1. post \in [Posts -> PostStates] /\ post[p] \in PostStates
    BY DEF TInv, TypeOK, PostStates
  <2>2. PICK y : /\ post' = [post EXCEPT ![p] = y]
                 /\ \/ y = [post[p] EXCEPT !.at = "failed"]
                    \/ y = [post[p] EXCEPT !.wanted = FALSE]
    BY <2>1 DEF BrokerCallFails, Refuse
  <2>3. /\ y \in PostStates /\ y.at # "idle" /\ y.tab = post[p].tab
        /\ y.at \in Checked => post[p].at \in Checked
    BY <1>1, <2>1, <2>2 DEF PostStates, PostPCs, Checked
  <2>4. cb' = cb /\ \A r \in records' : r \in records
    BY <1>1 DEF idpVars
  <2> QED
    BY <1>1, <2>2, <2>3, <2>4, OnePost
<1>4. \A f \in Tabs : CodeStep(f) /\ codes'[f].sealed = codes[f].sealed
  BY <1>1 DEF CodeStep, idpVars
<1>5. TypeOK'
  BY <1>1, <1>2, <1>3 DEF TInv, TypeOK, TabStates, PostStates, idpVars, rpVars, browserVars,
                          brokerVars
<1> QED
  BY <1>1, <1>2, <1>3, <1>4, <1>5 DEF Later, Sealed, browserVars

\* A code or a session ends, a buffer is reused, an account page is used.
LEMMA EnvironmentLater ==
  ASSUME TInv, Environment
  PROVE  TypeOK' /\ Later /\ Sealed
<1> USE DEF TInv, TypeOK, rpVars, browserVars, brokerVars, idpVars
<1>1. ASSUME NEW kind, Fault(kind) PROVE faults' \in 0 .. MaxFaults /\ kind \in Faults
  BY <1>1, LoginAssumption DEF Fault
<1>2. ASSUME UNCHANGED <<tab, bCookie, records, post, cb>>, \A f \in Tabs : CodeStep(f)
      PROVE  Later
  BY <1>2 DEF Later, PageStep, PostStep
<1>3. CASE \E p \in Posts : BrokerCallFails(p) \/ \E i \in Loads : RPCallFails(p, i)
  <2>1. CASE \E p \in Posts : BrokerCallFails(p)
    BY <2>1, BrokerCallFailsLater DEF TInv
  <2>2. CASE \E p \in Posts, i \in Loads : RPCallFails(p, i)
    BY <2>2, CallbackLater DEF TInv
  <2> QED
    BY <1>3, <2>1, <2>2
<1>4. ASSUME NEW f \in Tabs, CodeExpires(f) PROVE TypeOK' /\ Later /\ Sealed
  <2>1. codes \in [Tabs -> CodeStates] /\ codes' = [codes EXCEPT ![f].live = FALSE]
    BY <1>4 DEF CodeExpires, CodeStates
  <2>2. codes' \in [Tabs -> CodeStates] /\ Sealed /\ \A g \in Tabs : CodeStep(g)
    <3> DEFINE c == [codes[f] EXCEPT !.live = FALSE]
    <3> HIDE DEF TInv, TypeOK
    <3>1. /\ c \in CodeStates /\ ~c.live /\ c.uid = codes[f].uid /\ c.acid = codes[f].acid
          /\ c.sealed = codes[f].sealed /\ codes' = [codes EXCEPT ![f] = c]
      BY <2>1 DEF CodeStates
    <3> HIDE DEF c
    <3> QED
      BY <2>1, <3>1 DEF Sealed, CodeStep
  <2>3. /\ UNCHANGED <<tab, rpSess, aake, bCookie, iCookie, sdata, bcodes, users, idpSess,
                       records, valid, post, cb>>
        /\ faults' \in 0 .. MaxFaults
    BY <1>1, <1>4 DEF CodeExpires
  <2> QED
    <3>1. Later
      BY <1>2, <2>2, <2>3
    <3> QED
      BY <2>2, <2>3, <3>1 DEF CodeStates
<1>5. ASSUME NEW s \in Tabs, NEW later \in Tabs, StateReused(s, later)
      PROVE  TypeOK' /\ Later /\ Sealed
  <2>1. sdata' \in [Tabs -> [state : Tabs \cup {Nil}, live : BOOLEAN]]
    <3>1. sdata \in [Tabs -> [state : Tabs \cup {Nil}, live : BOOLEAN]]
      BY DEF TInv, TypeOK
    <3>2. sdata' = [sdata EXCEPT ![s].state = later]
      BY <1>5 DEF StateReused
    <3> QED
      BY <3>1, <3>2
  <2>2. /\ UNCHANGED <<tab, rpSess, aake, bCookie, iCookie, bcodes, users, idpSess, codes,
                       records, valid, post, cb>>
        /\ faults' \in 0 .. MaxFaults
    BY <1>1, <1>5 DEF StateReused
  <2>3. Sealed /\ \A f \in Tabs : CodeStep(f)
    BY <2>2 DEF Sealed, CodeStep
  <2>4. Later
    BY <1>2, <2>2, <2>3
  <2>5. TypeOK'
    BY ONLY TInv, <2>1, <2>2 DEF TInv, TypeOK
  <2> QED
    BY ONLY <2>3, <2>4, <2>5
<1>6. ASSUME NEW f \in Tabs, SealReused(f) PROVE TypeOK' /\ Later /\ Sealed
  <2>1. codes \in [Tabs -> CodeStates] /\ codes' = [codes EXCEPT ![f].sealed = NoSeal]
    BY <1>6 DEF SealReused, CodeStates
  <2>2. NoSeal \in [uid : Users \cup {Nil}, acid : Tabs \cup {Nil}]
    BY DEF NoSeal
  <2>3. codes' \in [Tabs -> CodeStates] /\ Sealed /\ \A g \in Tabs : CodeStep(g)
    BY <2>1, <2>2 DEF CodeStep, CodeStates, Sealed
  <2>4. /\ UNCHANGED <<tab, rpSess, aake, bCookie, iCookie, sdata, bcodes, users, idpSess,
                       records, valid, post, cb>>
        /\ faults' \in 0 .. MaxFaults
    BY <1>1, <1>6 DEF SealReused
  <2> QED
    BY <1>2, <2>3, <2>4 DEF CodeStates
<1>7. CASE IdPSessionEnds
  <2>1. /\ UNCHANGED <<tab, rpSess, aake, bCookie, iCookie, sdata, bcodes, users, codes,
                       records, valid, post, cb>>
        /\ faults' \in 0 .. MaxFaults /\ idpSess' = NoSession
    BY <1>1, <1>7 DEF IdPSessionEnds
  <2> QED
    BY <1>2, <2>1 DEF Sealed, CodeStep, NoSession
<1>8. CASE IdPRestart
  <2>1. faults' \in 0 .. MaxFaults
    BY <1>1, <1>8 DEF IdPRestart
  <2> QED
    BY <1>8, <2>1, IdPStopsLater DEF IdPRestart
<1> QED
  BY <1>3, <1>4, <1>5, <1>6, <1>7, <1>8, RPRestartLater, BrokerRestartLater DEF Environment

LEMMA IdPLoginLater ==
  ASSUME TInv, NEW u \in Users, IdPLogin(u)
  PROVE  TypeOK' /\ Later /\ Sealed
<1>1. /\ UNCHANGED <<tab, rpVars, browserVars, brokerVars, codes, records, valid,
                     post, cb, faults>>
      /\ idpSess' = [idpSess EXCEPT !.uid = u]
  BY DEF IdPLogin
<1>2. TypeOK'
  BY <1>1 DEF TInv, TypeOK, rpVars, browserVars, brokerVars
<1> QED
  BY <1>1, <1>2 DEF Later, Sealed, PageStep, CodeStep, PostStep, browserVars

(***************************************************************************)
(* Every step gives a consent code, or submits a form, or only moves on.   *)
(***************************************************************************)
Onward(f) == Browse(f) /\ ~ConsentPanics(f) /\ ~Consent(f)

MovesOn == TypeOK' /\ Later /\ Sealed

LEMMA Steps ==
  ASSUME TInv, [Next]_vars
  PROVE  \/ \E f \in Tabs : Onward(f) \/ Consent(f) \/ \E p \in Posts : Submit(f, p)
         \/ MovesOn
<1>1. ASSUME NEW f \in Tabs, Browse(f) PROVE Onward(f) \/ Consent(f) \/ MovesOn
  <2>1. CASE ConsentPanics(f)
    <3>1. IdPStops({f}) /\ faults' \in 0 .. MaxFaults
      BY <2>1 DEF ConsentPanics, TInv, TypeOK
    <3> QED
      BY <3>1, IdPStopsLater DEF MovesOn
  <2> QED
    BY <1>1, <2>1 DEF Onward
<1>2. ASSUME NEW u \in Users, IdPLogin(u) PROVE MovesOn
  BY <1>2, IdPLoginLater DEF MovesOn
<1>3. ASSUME NEW p \in Posts, Handle(p) PROVE MovesOn
  BY <1>3, HandleLater DEF MovesOn
<1>5. ASSUME NEW p \in Posts, NEW i \in Loads, CallbackStart(p, i) \/ HandleCallback(p, i)
      PROVE  MovesOn
  BY <1>5, CallbackLater DEF MovesOn
<1>6. CASE Environment
  BY <1>6, EnvironmentLater DEF MovesOn
<1>7. CASE UNCHANGED vars
  BY <1>7 DEF TInv, TypeOK, vars, MovesOn, Later, Sealed, PageStep, CodeStep, PostStep
<1> QED
  BY <1>1, <1>2, <1>3, <1>5, <1>6, <1>7 DEF Next

LEMMA TInvInvariant == Spec => []TInv
<1>1. TInv /\ [Next]_vars => TInv'
  BY Steps, BrowseTInv, ConsentTInv, SubmitTInv, LaterTInv DEF Onward, MovesOn
<1> QED
  BY <1>1, InitTInv, PTL DEF Spec

\* However many tabs, forms, accounts and faults there are, every variable of
\* AakaLogin keeps its type.  Indexing sdata and codes by what a submission carries
\* needs that it was posted from a page that had read a session_id and got a code.
THEOREM TypeCorrect == Spec => []TypeOK
<1>1. TInv => TypeOK
  BY DEF TInv
<1> QED
  BY <1>1, TInvInvariant, PTL

(***************************************************************************)
(* What a record decrypts to.  The acid goes two ways: from the broker's   *)
(* cookies into the form, and through the IdP's session or its cookies     *)
(* into the code and into D_enc.  The second way is shared by all tabs.    *)
(***************************************************************************)

\* The TCA has compared the page's acid with the relay page's.
VerifiedOK == \A f \in Tabs : tab[f].at = "verified" => tab[f].acid = tab[f].sess

\* So D_enc is sealed for the session of the form that the tab will post, and it
\* stays so unless a later request is written over it.
SealOK == \A f \in Tabs :
  codes[f].uid # Nil /\ codes[f].sealed # NoSeal => codes[f].sealed.acid = tab[f].sess

\* The IdP has compared the code's acid with the one that the RP has proved.
CheckOK == \A p \in Posts :
  post[p].at \in Checked \/ p \in records => Code(p).acid = Sess(p)

FInv == VerifiedOK /\ SealOK /\ CheckOK

\* A checked submission has a code, and a tab that has posted.
LEMMA CheckedCode ==
  ASSUME TInv, NEW p \in Posts, post[p].at \in Checked \/ p \in records
  PROVE  /\ post[p].tab \in Tabs /\ tab[post[p].tab].post # Nil
         /\ Code(p).uid # Nil
  BY DEF TInv, PostsOK, PostOK, Checked

LEMMA OnwardFInv ==
  ASSUME TInv, FInv, NEW f \in Tabs, Onward(f)
  PROVE  FInv'
<1>1. tab \in [Tabs -> TabStates] /\ TabOK(f)
  BY DEF TInv, TypeOK, TabsOK, TabStates
<1>2. /\ codes[f].uid = Nil
      /\ UNCHANGED <<codes, records, post>>
      /\ \A g \in Tabs \ {f} : tab'[g] = tab[g]
      /\ tab'[f].at = "verified" => tab'[f].acid = tab'[f].sess
  <2> USE <1>1 DEF Onward, Browse, TabOK, Late, Go, TabStates, browserVars, idpVars
  <2>1. CASE RPLogin(f) \/ BrokerAuthorize(f)
    BY <2>1 DEF RPLogin, BrokerAuthorize
  <2>2. CASE RelayPageLoads(f)
    BY <2>2 DEF RelayPageLoads
  <2>3. CASE BrokerLogin(f) \/ ConsentLoggedOut(f)
    BY <2>3 DEF BrokerLogin, ConsentLoggedOut
  <2>4. CASE IdPAuthorize(f)
    BY <2>4 DEF IdPAuthorize
  <2>5. CASE ConsentCookies(f) \/ ConsentPageLoads(f)
    BY <2>5 DEF ConsentCookies, ConsentPageLoads
  <2>6. CASE Verify(f)
    BY <2>6 DEF Verify, Commits
  <2> QED
    BY <2>1, <2>2, <2>3, <2>4, <2>5, <2>6
<1>3. VerifiedOK' /\ SealOK'
  BY <1>2 DEF FInv, VerifiedOK, SealOK
<1>4. ASSUME NEW p \in Posts, post[p].at \in Checked \/ p \in records
      PROVE  Code(p)'.acid = Sess(p)'
  <2>1. post[p].tab \in Tabs \ {f} /\ Code(p).acid = Sess(p)
    BY <1>2, <1>4, CheckedCode DEF FInv, CheckOK, Code
  <2> QED
    BY <1>2, <2>1 DEF Code, Sess
<1> QED
  BY <1>2, <1>3, <1>4 DEF FInv, CheckOK

LEMMA ConsentFInv ==
  ASSUME TInv, FInv, NEW f \in Tabs, Consent(f)
  PROVE  FInv'
<1>1. /\ tab \in [Tabs -> TabStates] /\ codes \in [Tabs -> CodeStates] /\ TabOK(f)
      /\ tab[f].at = "verified" /\ tab[f].acid = tab[f].sess
  BY DEF TInv, TypeOK, TabsOK, TabStates, CodeStates, Consent, FInv, VerifiedOK
<1>2. /\ tab'[f].at = "consented" /\ tab'[f].sess = tab[f].sess
      /\ codes'[f].sealed.acid = tab[f].sess
      /\ \A g \in Tabs \ {f} : tab'[g] = tab[g] /\ codes'[g] = codes[g]
      /\ UNCHANGED <<records, post>>
  BY <1>1 DEF Consent, Go, TabStates, CodeStates
<1>3. VerifiedOK' /\ SealOK'
  BY <1>2 DEF FInv, VerifiedOK, SealOK
<1>4. tab[f].post = Nil
  BY <1>1 DEF TabOK, PageOK, Late
<1>5. ASSUME NEW p \in Posts, post[p].at \in Checked \/ p \in records
      PROVE  Code(p)'.acid = Sess(p)'
  <2>1. post[p].tab \in Tabs \ {f} /\ Code(p).acid = Sess(p)
    BY <1>4, <1>5, CheckedCode DEF FInv, CheckOK
  <2> QED
    BY <1>2, <2>1 DEF Code, Sess
<1> QED
  BY <1>2, <1>3, <1>5 DEF FInv, CheckOK

LEMMA SubmitFInv ==
  ASSUME TInv, FInv, NEW f \in Tabs, NEW p \in Posts, Submit(f, p)
  PROVE  FInv'
<1>1. tab \in [Tabs -> TabStates] /\ post \in [Posts -> PostStates] /\ PostOK(p)
  BY DEF TInv, TypeOK, PostsOK, TabStates, PostStates
<1>2. /\ \A g \in Tabs : tab'[g].sess = tab[g].sess /\ tab'[g].acid = tab[g].acid
      /\ \A g \in Tabs : tab'[g].at = "verified" => tab[g].at = "verified"
      /\ p \notin records /\ post'[p].at \notin Checked
      /\ \A r \in Posts \ {p} : post'[r] = post[r]
      /\ UNCHANGED <<codes, records>>
  BY <1>1 DEF Submit, TabStates, PostStates, PostOK, Checked, idpVars
<1>3. VerifiedOK' /\ SealOK'
  BY <1>2 DEF FInv, VerifiedOK, SealOK
<1>4. ASSUME NEW r \in Posts \ {p}, post[r].at \in Checked \/ r \in records
      PROVE  Code(r)'.acid = Sess(r)'
  <2>1. post[r].tab \in Tabs /\ Code(r).acid = Sess(r)
    BY <1>4, CheckedCode DEF FInv, CheckOK
  <2> QED
    BY <1>2, <2>1 DEF Code, Sess
<1> QED
  BY <1>2, <1>3, <1>4 DEF FInv, CheckOK

LEMMA LaterFInv ==
  ASSUME TInv, FInv, Later, Sealed
  PROVE  FInv'
<1>1. ASSUME NEW f \in Tabs
      PROVE  /\ tab'[f].sess = tab[f].sess /\ tab'[f].acid = tab[f].acid
             /\ tab'[f].at = "verified" => tab[f].at = "verified"
             /\ codes'[f].uid = codes[f].uid /\ codes'[f].acid = codes[f].acid
             /\ codes'[f].sealed # NoSeal => codes'[f].sealed = codes[f].sealed
  <2>1. tab[f] \in TabStates
    BY DEF TInv, TypeOK, TabStates
  <2> QED
    BY <2>1 DEF Later, Sealed, PageStep, CodeStep, TabStates
<1>2. VerifiedOK' /\ SealOK'
  BY <1>1 DEF FInv, VerifiedOK, SealOK
<1>3. ASSUME NEW p \in Posts, post'[p].at \in Checked \/ p \in records'
      PROVE  Code(p)'.acid = Sess(p)'
  <2>1. PostStep(p) /\ PostOK(p)
    BY DEF Later, TInv, PostsOK
  <2>2. Code(p).acid = Sess(p)
    BY <1>3, <2>1 DEF PostStep, FInv, CheckOK, CodeOK
  <2>3. post[p].tab \in Tabs /\ post'[p].tab = post[p].tab
    BY <1>3, <2>1 DEF PostStep, PostOK, Checked
  <2> QED
    BY <1>1, <2>2, <2>3 DEF Code, Sess
<1> QED
  BY <1>2, <1>3 DEF FInv, CheckOK

\* Two tabs, two accounts, resubmitted forms, reused request buffers and restarting
\* servers: a record on the account page is listed under the acid that the RP proved
\* in the login it came from, and decrypts to that acid as long as its D_enc is the
\* string that was sealed for it (handleAuthorizeCode, handleToken).
THEOREM RecordsFaithful == Spec => []RecordFaithful
<1>1. Init => FInv
  BY DEF Init, FInv, VerifiedOK, SealOK, CheckOK, NoTab, NoSeal, NoCode, NoPost, Checked
<1>2. TInv /\ FInv /\ [Next]_vars => FInv'
  BY Steps, OnwardFInv, ConsentFInv, SubmitFInv, LaterFInv DEF MovesOn
<1>3. TInv /\ FInv => RecordFaithful
  <2> SUFFICES ASSUME TInv, FInv, NEW p \in records
               PROVE  /\ Code(p).acid = Sess(p)
                      /\ Code(p).sealed # NoSeal => Code(p).sealed.acid = Code(p).acid
    BY DEF RecordFaithful
  <2>1. p \in Posts
    BY DEF TInv, TypeOK
  <2>2. post[p].tab \in Tabs /\ Code(p).uid # Nil
    BY <2>1, CheckedCode
  <2> QED
    BY <2>1, <2>2 DEF FInv, SealOK, CheckOK, Code, Sess
<1> QED
  BY <1>1, <1>2, <1>3, TInvInvariant, PTL DEF Spec

(***************************************************************************)
(* What happens to an issued code, and to the tokens behind it.  The       *)
(* browser follows the redirect of a tab's last submission only, and a tab *)
(* that has been redirected does not submit again: of all the submissions  *)
(* made with one consent, one has its callback loaded.                     *)
(***************************************************************************)
Redeemed == {"got", "done"}

\* A submission is its tab's; a tab that can submit has not been redirected.
Owned == \A f \in Tabs :
  /\ tab[f].post # Nil => post[tab[f].post].at # "idle" /\ post[tab[f].post].tab = f
  /\ tab[f].at = "consented" => tab[f].post = Nil
  /\ tab[f].at = "posted" => tab[f].post # Nil /\ post[tab[f].post].at # "redirected"

\* A callback is loaded after the redirect of its tab's last submission.
Started == \A p \in Posts, i \in Loads :
  cb[p][i] # "idle" => post[p].at = "redirected" /\ tab[post[p].tab].post = p

\* The broker's code is for a redirected submission and is taken out once.
CodeOnce ==
  /\ \A p \in bcodes : post[p].at = "redirected"
  /\ \A p \in Posts, i \in Loads : cb[p][i] \in Redeemed =>
       p \notin bcodes /\ \A j \in Loads \ {i} : cb[p][j] \notin Redeemed

KInv == Owned /\ Started /\ CodeOnce

\* Most steps issue no code, redeem none and store no tokens.
Quiet ==
  /\ \A p \in Posts : post'[p].at = "redirected" <=> post[p].at = "redirected"
  /\ bcodes' \subseteq bcodes
  /\ \A p \in Posts, i \in Loads : cb'[p][i] # "idle" =>
       cb[p][i] # "idle" /\ (cb'[p][i] \in Redeemed => cb[p][i] \in Redeemed)
  /\ \A u \in Users : users'[u] \in {users[u], Nil}

\* All but two of them admit nobody and forget nobody.
SameUses    == \A p \in Posts, i \in Loads : cb'[p][i] = "done" <=> cb[p][i] = "done"
SameTickets == SameUses /\ rpSess'.user = rpSess.user
Forgotten   == SameUses /\ rpSess'.user = Nil

LEMMA HandleQuiet ==
  ASSUME TInv, NEW p \in Posts, Handle(p)
  PROVE  SameTickets /\ (BrokerIssue(p) \/ Quiet)
<1>1. /\ post \in [Posts -> PostStates] /\ post[p].at # "redirected"
      /\ cb' = cb /\ users' = users /\ rpSess' = rpSess
  BY DEF TInv, TypeOK, PostStates, Handle, BrokerLookup, RPGenPoK, IdPCheck, IdPRefuse,
         IdPRecord, IdPBurn, BrokerIssue, BrokerCannotResign, rpVars, brokerVars
<1>2. ASSUME NEW at \in PostPCs \ {"redirected"}, post' = [post EXCEPT ![p].at = at]
      PROVE  \A r \in Posts : post'[r].at = "redirected" <=> post[r].at = "redirected"
  BY <1>1, <1>2 DEF PostStates
<1>3. CASE ~BrokerIssue(p)
  <2>1. \E at \in PostPCs \ {"redirected"} : post' = [post EXCEPT ![p].at = at]
    <3> USE <1>3 DEF Handle, PostPCs
    <3>1. CASE BrokerLookup(p)
      BY <3>1 DEF BrokerLookup, Refuse
    <3>2. CASE RPGenPoK(p) \/ IdPCheck(p) \/ IdPRecord(p)
      BY <3>2 DEF RPGenPoK, IdPCheck, IdPRecord
    <3>3. CASE IdPRefuse(p) \/ BrokerCannotResign(p)
      BY <3>3 DEF IdPRefuse, BrokerCannotResign, Refuse
    <3>4. CASE IdPBurn(p)
      BY <3>4 DEF IdPBurn
    <3> QED
      BY <3>1, <3>2, <3>3, <3>4
  <2>2. bcodes' = bcodes
    BY <1>3 DEF Handle, BrokerLookup, RPGenPoK, IdPCheck, IdPRefuse, IdPRecord, IdPBurn,
                BrokerCannotResign, brokerVars
  <2> QED
    BY <1>1, <1>2, <2>1, <2>2 DEF Quiet, SameTickets, SameUses
<1> QED
  BY <1>1, <1>3 DEF SameTickets, SameUses

LEMMA CallbackQuiet ==
  ASSUME TInv, NEW p \in Posts, NEW i \in Loads, HandleCallback(p, i) \/ RPCallFails(p, i)
  PROVE  /\ CallbackDone(p, i) \/ SameTickets
         /\ BrokerRedeem(p, i) \/ Quiet
<1> USE DEF HandleCallback, BrokerRedeem, BrokerRefusesCode, CallbackDone,
            CallbackCannotDecrypt, RPCallFails, CallbackFails
<1>1. cb \in [Posts -> CbStates]
  BY DEF TInv, TypeOK, CbStates
<1>2. /\ post' = post /\ bcodes' \subseteq bcodes
      /\ cb[p][i] \notin {"idle", "done"}
      /\ BrokerRedeem(p, i) \/ users' = users
      /\ CallbackDone(p, i) \/ rpSess' = rpSess
  BY DEF Without, rpVars, brokerVars
<1>3. PICK at \in {"redeem", "got", "done", "failed"} :
        /\ cb' = [cb EXCEPT ![p][i] = at]
        /\ at = "done" => CallbackDone(p, i)
        /\ at \in Redeemed => BrokerRedeem(p, i) \/ cb[p][i] = "got"
  BY DEF Redeemed
<1>4. \A r \in Posts, j \in Loads : cb'[r][j] = IF r = p /\ j = i THEN at ELSE cb[r][j]
  BY <1>1, <1>3 DEF CbStates
<1>5. ~BrokerRedeem(p, i) => Quiet
  <2>1. \A r \in Posts, j \in Loads : cb'[r][j] # "idle" /\ ~BrokerRedeem(p, i) =>
          cb[r][j] # "idle" /\ (cb'[r][j] \in Redeemed => cb[r][j] \in Redeemed)
    BY <1>2, <1>3, <1>4 DEF Redeemed
  <2> HIDE DEF BrokerRedeem
  <2> QED
    BY <1>2, <2>1 DEF Quiet
<1>6. ~CallbackDone(p, i) => SameTickets
  BY <1>2, <1>3, <1>4 DEF SameTickets, SameUses
<1> QED
  BY <1>5, <1>6

LEMMA InterruptQuiet ==
  ASSUME TInv, NEW P, NEW O, NEW C, NEW pages, Interrupt(P, O, C, pages),
         \A p \in P \cup O : post[p].at # "redirected",
         \A p \in Posts, i \in Loads : <<p, i>> \in C => cb[p][i] \notin {"idle", "done"}
  PROVE  /\ \A p \in Posts : post'[p].at = "redirected" <=> post[p].at = "redirected"
         /\ \A p \in Posts, i \in Loads :
              /\ cb'[p][i] # "idle" =>
                   cb[p][i] # "idle" /\ (cb'[p][i] \in Redeemed => cb[p][i] \in Redeemed)
              /\ cb'[p][i] = "done" <=> cb[p][i] = "done"
<1>1. \A p \in Posts : post[p] \in PostStates
  BY DEF TInv, TypeOK, PostStates
<1>2. ASSUME NEW p \in Posts
      PROVE  post'[p].at = "redirected" <=> post[p].at = "redirected"
  <2>1. post[p] \in PostStates
    BY <1>1
  <2>2. CASE p \in P
    BY <2>1, <2>2 DEF Interrupt, PostStates
  <2>3. CASE p \notin P
    BY <2>1, <2>3 DEF Interrupt, PostStates
  <2> QED
    BY <2>2, <2>3
<1>3. \A p \in Posts, i \in Loads :
        cb'[p][i] = IF <<p, i>> \in C THEN "failed" ELSE cb[p][i]
  BY DEF Interrupt
<1> QED
  BY <1>2, <1>3 DEF Redeemed

LEMMA IdPStopsQuiet ==
  ASSUME TInv, NEW pages, IdPStops(pages)
  PROVE  Quiet /\ SameTickets
<1>1. /\ Interrupt(At({"checked", "recorded"}), {}, {}, pages)
      /\ UNCHANGED <<rpSess, bcodes, users>>
  BY DEF IdPStops, rpVars, brokerVars
<1>2. \A p \in At({"checked", "recorded"}) \cup {} : post[p].at # "redirected"
  BY DEF At
<1> QED
  BY <1>1, <1>2, InterruptQuiet DEF Quiet, SameTickets, SameUses

LEMMA EnvironmentQuiet ==
  ASSUME TInv, Environment
  PROVE  Quiet /\ (Forgotten \/ SameTickets)
<1>1. ASSUME UNCHANGED <<post, bcodes, users, cb, rpSess>> PROVE Quiet /\ SameTickets
  BY <1>1 DEF Quiet, SameTickets, SameUses
<1>2. ASSUME NEW p \in Posts, BrokerCallFails(p) PROVE Quiet /\ SameTickets
  <2>1. post \in [Posts -> PostStates] /\ UNCHANGED <<bcodes, users, cb, rpSess>>
    BY <1>2 DEF TInv, TypeOK, PostStates, BrokerCallFails, rpVars, brokerVars
  <2>2. \A r \in Posts : post'[r].at = "redirected" <=> post[r].at = "redirected"
    <3>1. CASE post[p].at \in {"pok", "proved", "issued"} /\ Refuse(p)
      BY <2>1, <3>1 DEF Refuse, PostStates
    <3>2. CASE post' = [post EXCEPT ![p].wanted = FALSE]
      BY <2>1, <3>2 DEF PostStates
    <3> QED
      BY <1>2, <3>1, <3>2 DEF BrokerCallFails
  <2> QED
    BY <2>1, <2>2 DEF Quiet, SameTickets, SameUses
<1>3. ASSUME NEW p \in Posts, NEW i \in Loads, RPCallFails(p, i) PROVE Quiet /\ SameTickets
  <2>1. cb \in [Posts -> CbStates] /\ cb[p][i] \notin {"idle", "done"}
    BY <1>3 DEF TInv, TypeOK, CbStates, RPCallFails
  <2>2. UNCHANGED <<post, bcodes, users, rpSess>> /\ cb' = [cb EXCEPT ![p][i] = "failed"]
    BY <1>3 DEF RPCallFails, CallbackFails, rpVars, brokerVars
  <2>3. \A r \in Posts, j \in Loads :
          cb'[r][j] = IF r = p /\ j = i THEN "failed" ELSE cb[r][j]
    BY <2>1, <2>2 DEF CbStates
  <2> QED
    BY <2>1, <2>2, <2>3 DEF Quiet, SameTickets, SameUses, Redeemed
<1>4. ASSUME NEW f \in Tabs, CodeExpires(f) PROVE Quiet /\ SameTickets
  BY <1>1, <1>4 DEF CodeExpires, rpVars, brokerVars
<1>5. ASSUME NEW s \in Tabs, NEW later \in Tabs, StateReused(s, later)
      PROVE  Quiet /\ SameTickets
  BY <1>1, <1>5 DEF StateReused, rpVars
<1>6. ASSUME NEW f \in Tabs, SealReused(f) PROVE Quiet /\ SameTickets
  BY <1>1, <1>6 DEF SealReused, rpVars, brokerVars
<1>7. CASE IdPSessionEnds
  BY <1>1, <1>7 DEF IdPSessionEnds, rpVars, brokerVars
<1>8. CASE IdPRestart
  BY <1>8, IdPStopsQuiet DEF IdPRestart
<1>9. \A p \in Posts, i \in Loads :
        <<p, i>> \in Loading({"redeem", "got"}) => cb[p][i] \notin {"idle", "done"}
  BY DEF Loading
<1>10. CASE RPRestart
  <2>1. /\ Interrupt(At({"pok"}), {}, Loading({"redeem", "got"}), {})
        /\ UNCHANGED <<bcodes, users>> /\ rpSess'.user = Nil
    BY <1>10 DEF RPRestart, NoRPUser, brokerVars
  <2>2. \A p \in At({"pok"}) \cup {} : post[p].at # "redirected"
    BY DEF At
  <2> QED
    BY <1>9, <2>1, <2>2, InterruptQuiet DEF Quiet, Forgotten, SameUses
<1>11. CASE BrokerRestart
  <2> DEFINE P == At({"sent", "pok", "issued"})
             O == At({"proved", "checked", "recorded"})
  <2>1. /\ Interrupt(P, O, Loading({"redeem", "got"}), {})
        /\ bcodes' = {} /\ users' = [u \in Users |-> Nil] /\ rpSess' = rpSess
    BY <1>11 DEF BrokerRestart, rpVars
  <2>2. \A p \in P \cup O : post[p].at # "redirected"
    BY DEF At
  <2> QED
    BY <1>9, <2>1, <2>2, InterruptQuiet DEF Quiet, SameTickets, SameUses
<1> QED
  BY <1>2, <1>3, <1>4, <1>5, <1>6, <1>7, <1>8, <1>10, <1>11 DEF Environment

\* What a step after consent leaves as it was.
LEMMA LaterKeeps ==
  ASSUME TInv, Later
  PROVE  /\ \A f \in Tabs : /\ tab'[f].post = tab[f].post
                            /\ tab'[f].at \in {"consented", "posted"} => tab'[f] = tab[f]
         /\ \A p \in Posts : /\ post'[p].tab = post[p].tab
                             /\ post'[p].at = "idle" <=> post[p].at = "idle"
         /\ \A p \in Posts : post[p].at # "idle" =>
              /\ post[p].tab \in Tabs
              /\ Code(p)'.uid = Code(p).uid /\ Code(p)'.acid = Code(p).acid
<1>1. ASSUME NEW f \in Tabs
      PROVE  /\ tab'[f].post = tab[f].post
             /\ tab'[f].at \in {"consented", "posted"} => tab'[f] = tab[f]
  <2>1. tab[f] \in TabStates /\ PageStep(f, tab')
    BY DEF TInv, TypeOK, TabStates, Later
  <2> QED
    BY <2>1 DEF PageStep, TabStates
<1>2. \A p \in Posts : PostStep(p) /\ PostOK(p)
  BY DEF Later, TInv, PostsOK
<1>3. \A p \in Posts : post[p].at # "idle" => post[p].tab \in Tabs
  BY <1>2 DEF PostOK
<1>4. ASSUME NEW p \in Posts, post[p].at # "idle"
      PROVE  Code(p)'.uid = Code(p).uid /\ Code(p)'.acid = Code(p).acid
  BY <1>2, <1>3, <1>4 DEF Later, CodeStep, PostStep, Code
<1> QED
  BY <1>1, <1>2, <1>3, <1>4 DEF PostStep

LEMMA OwnedPost ==
  ASSUME TInv, KInv, NEW f \in Tabs, tab[f].post # Nil
  PROVE  /\ tab[f].post \in Posts
         /\ post[tab[f].post].at # "idle" /\ post[tab[f].post].tab = f
  BY DEF TInv, TypeOK, KInv, Owned

\* The tabs' submissions stay theirs when those that are new are not redirected
\* in a tab that can submit again.
LEMMA LaterOwned ==
  ASSUME TInv, KInv, Later,
         \A p \in Posts : post'[p].at = "redirected" =>
           post[p].at = "redirected" \/ \A f \in Tabs : tab'[f].post = p => tab'[f].at # "posted"
  PROVE  Owned'
<1> SUFFICES ASSUME NEW f \in Tabs
             PROVE  /\ tab'[f].post # Nil =>
                         post'[tab'[f].post].at # "idle" /\ post'[tab'[f].post].tab = f
                    /\ tab'[f].at = "consented" => tab'[f].post = Nil
                    /\ tab'[f].at = "posted" =>
                         tab'[f].post # Nil /\ post'[tab'[f].post].at # "redirected"
  BY DEF Owned
<1>1. tab'[f].post # Nil => /\ tab[f].post \in Posts
                            /\ post'[tab'[f].post].at # "idle"
                            /\ post'[tab'[f].post].tab = f
  BY LaterKeeps, OwnedPost
<1>2. tab'[f].at = "consented" => tab'[f].post = Nil
  BY LaterKeeps DEF KInv, Owned
<1>3. ASSUME tab'[f].at = "posted"
      PROVE  tab'[f].post # Nil /\ post'[tab'[f].post].at # "redirected"
  <2>1. tab[f].at = "posted" /\ tab'[f].post = tab[f].post
    BY <1>3, LaterKeeps
  <2>2. tab[f].post # Nil /\ post[tab[f].post].at # "redirected"
    BY <2>1 DEF KInv, Owned
  <2> QED
    BY <1>1, <1>3, <2>1, <2>2
<1> QED
  BY <1>1, <1>2, <1>3

LEMMA LaterStarted ==
  ASSUME TInv, KInv, Later,
         \A p \in Posts : post[p].at = "redirected" => post'[p].at = "redirected",
         \A p \in Posts, i \in Loads : cb'[p][i] # "idle" =>
           cb[p][i] # "idle" \/ (post[p].at = "redirected" /\ tab[post[p].tab].post = p)
  PROVE  Started'
<1> SUFFICES ASSUME NEW p \in Posts, NEW i \in Loads, cb'[p][i] # "idle"
             PROVE  post'[p].at = "redirected" /\ tab'[post'[p].tab].post = p
  BY DEF Started
<1>1. post[p].at = "redirected" /\ tab[post[p].tab].post = p
  BY DEF KInv, Started
<1> QED
  BY <1>1, LaterKeeps

LEMMA QuietKInv ==
  ASSUME TInv, KInv, Later, Quiet
  PROVE  KInv'
<1>1. Owned'
  BY LaterOwned DEF Quiet
<1>2. Started'
  BY LaterStarted DEF Quiet
<1>3. CodeOnce'
  <2>1. \A p \in bcodes' : post'[p].at = "redirected"
    BY DEF Quiet, KInv, CodeOnce, TInv, TypeOK
  <2>2. \A p \in Posts, i \in Loads : cb'[p][i] \in Redeemed => cb[p][i] \in Redeemed
    BY DEF Quiet, Redeemed
  <2> QED
    BY <2>1, <2>2 DEF Quiet, KInv, CodeOnce
<1> QED
  BY <1>1, <1>2, <1>3 DEF KInv

\* The redirect takes the tab away from the page that can submit.
LEMMA IssueKInv ==
  ASSUME TInv, KInv, NEW p \in Posts, BrokerIssue(p), Later
  PROVE  KInv'
<1>1. /\ post \in [Posts -> PostStates] /\ post[p].at = "issued"
      /\ tab \in [Tabs -> TabStates] /\ post[p].tab \in Tabs
      /\ tab' = Shown(p, "callback") /\ bcodes' = bcodes \cup {p}
      /\ UNCHANGED <<users, cb, codes>>
  BY UnderWay DEF TInv, TypeOK, PostStates, TabStates, BrokerIssue, idpVars
<1>2. \A q \in Posts : post'[q].at = IF q = p THEN "redirected" ELSE post[q].at
  BY <1>1 DEF BrokerIssue, PostStates
<1>3. \A i \in Loads : cb[p][i] = "idle"
  BY <1>1 DEF KInv, Started
<1>4. \A f \in Tabs : tab'[f].post = p => tab'[f].at # "posted"
  <2> SUFFICES ASSUME NEW f \in Tabs, tab'[f].post = p PROVE tab'[f].at # "posted"
    OBVIOUS
  <2>1. tab[f].post = p /\ p # Nil
    BY LaterKeeps, LoginAssumption
  <2>2. post[p].tab = f
    BY <2>1, OwnedPost
  <2> QED
    BY <1>1, <2>1, <2>2 DEF Shown, TabStates
<1>5. Owned'
  BY <1>2, <1>4, LaterOwned
<1>6. Started'
  BY <1>1, <1>2, LaterStarted
<1>7. CodeOnce'
  <2>1. \A q \in bcodes' : post'[q].at = "redirected"
    BY <1>1, <1>2 DEF KInv, CodeOnce, TInv, TypeOK
  <2>2. \A q \in Posts, i \in Loads : cb[q][i] \in Redeemed => q # p
    BY <1>3 DEF Redeemed
  <2> QED
    BY <1>1, <2>1, <2>2 DEF KInv, CodeOnce
<1> QED
  BY <1>5, <1>6, <1>7 DEF KInv

LEMMA StartKInv ==
  ASSUME TInv, KInv, NEW p \in Posts, NEW i \in Loads, CallbackStart(p, i), Later
  PROVE  KInv'
<1>1. /\ cb \in [Posts -> CbStates]
      /\ post[p].at = "redirected" /\ tab[post[p].tab].post = p
      /\ UNCHANGED <<post, bcodes, users, codes>>
  BY DEF TInv, TypeOK, CbStates, CallbackStart, brokerVars, idpVars
<1>2. PICK at \in {"redeem", "failed"} : cb' = [cb EXCEPT ![p][i] = at]
  BY DEF CallbackStart
<1>3. \A q \in Posts, j \in Loads : cb'[q][j] = IF q = p /\ j = i THEN at ELSE cb[q][j]
  BY <1>1, <1>2 DEF CbStates
<1>4. Owned'
  BY <1>1, LaterOwned
<1>5. Started'
  BY <1>1, <1>3, LaterStarted
<1>6. CodeOnce'
  <2>1. \A q \in Posts, j \in Loads : cb'[q][j] \in Redeemed => cb[q][j] \in Redeemed
    BY <1>3 DEF Redeemed
  <2> QED
    BY <1>1, <2>1 DEF KInv, CodeOnce
<1> QED
  BY <1>4, <1>5, <1>6 DEF KInv

LEMMA RedeemKInv ==
  ASSUME TInv, KInv, NEW p \in Posts, NEW i \in Loads, BrokerRedeem(p, i), Later
  PROVE  KInv'
<1>1. /\ cb \in [Posts -> CbStates] /\ users \in [Users -> Posts \cup {Nil}]
      /\ post[p].at = "redirected" /\ p \in bcodes
      /\ bcodes' = bcodes \ {p} /\ cb[p][i] = "redeem"
      /\ UNCHANGED <<post, codes>>
  BY DEF TInv, TypeOK, CbStates, BrokerRedeem, Without, idpVars, KInv, Started
<1>2. \A q \in Posts, j \in Loads : cb'[q][j] = IF q = p /\ j = i THEN "got" ELSE cb[q][j]
  BY <1>1 DEF BrokerRedeem, CbStates
<1>3. \A j \in Loads : cb[p][j] \notin Redeemed
  BY <1>1 DEF KInv, CodeOnce
<1>4. Owned'
  BY <1>1, LaterOwned
<1>5. Started'
  BY <1>1, <1>2, LaterStarted
<1>6. CodeOnce'
  <2>1. \A q \in bcodes' : post'[q].at = "redirected"
    BY <1>1 DEF KInv, CodeOnce
  <2>2. ASSUME NEW q \in Posts, NEW j \in Loads, cb'[q][j] \in Redeemed
        PROVE  q \notin bcodes' /\ \A k \in Loads \ {j} : cb'[q][k] \notin Redeemed
    <3>1. CASE q = p
      BY <1>1, <1>2, <1>3, <2>2, <3>1
    <3>2. CASE q # p
      BY <1>1, <1>2, <2>2, <3>2 DEF KInv, CodeOnce
    <3> QED
      BY <3>1, <3>2
  <2> QED
    BY <2>1, <2>2 DEF CodeOnce
<1> QED
  BY <1>4, <1>5, <1>6 DEF KInv

LEMMA OnwardKInv ==
  ASSUME TInv, KInv, NEW f \in Tabs, Onward(f) \/ Consent(f)
  PROVE  KInv' /\ SameTickets
<1>1. /\ tab \in [Tabs -> TabStates] /\ codes \in [Tabs -> CodeStates] /\ TabOK(f)
      /\ tab[f].post \in Posts \cup {Nil}
  BY DEF TInv, TypeOK, TabsOK, TabStates, CodeStates
<1>2. /\ UNCHANGED <<post, cb, bcodes, users>> /\ rpSess'.user = rpSess.user
      /\ tab'[f].post = tab[f].post /\ tab[f].at \notin Late
      /\ tab'[f].at # "posted"
      /\ \A g \in Tabs \ {f} : tab'[g] = tab[g] /\ codes'[g] = codes[g]
      /\ codes[f].uid = Nil
  <2> USE <1>1 DEF Onward, Browse, TabOK, Late, Reading, Go, TabStates, CodeStates, rpVars,
                   browserVars, brokerVars, idpVars
  <2>1. CASE RPLogin(f) \/ BrokerAuthorize(f)
    BY <2>1 DEF RPLogin, BrokerAuthorize, TInv, TypeOK
  <2>2. CASE RelayPageLoads(f)
    BY <2>2 DEF RelayPageLoads
  <2>3. CASE BrokerLogin(f) \/ ConsentLoggedOut(f)
    BY <2>3 DEF BrokerLogin, ConsentLoggedOut
  <2>4. CASE IdPAuthorize(f)
    BY <2>4 DEF IdPAuthorize
  <2>5. CASE ConsentCookies(f) \/ ConsentPageLoads(f)
    BY <2>5 DEF ConsentCookies, ConsentPageLoads
  <2>6. CASE Verify(f)
    BY <2>6 DEF Verify
  <2>7. CASE Consent(f)
    BY <2>7 DEF Consent
  <2> QED
    BY <2>1, <2>2, <2>3, <2>4, <2>5, <2>6, <2>7
<1>3. tab[f].post = Nil /\ tab'[f].post = Nil
  BY <1>1, <1>2 DEF TabOK, PageOK, Late
<1>4. Owned'
  BY <1>2, <1>3 DEF KInv, Owned
<1>5. ASSUME NEW p \in Posts, post[p].at # "idle" PROVE post[p].tab \in Tabs \ {f}
  BY <1>3, <1>5 DEF TInv, PostsOK, PostOK
<1>6. Started' /\ CodeOnce'
  <2>1. \A p \in Posts, i \in Loads : cb[p][i] # "idle" => post[p].at = "redirected"
    BY DEF KInv, Started
  <2> QED
    BY <1>2, <1>5, <2>1 DEF KInv, Started, CodeOnce
<1> QED
  BY <1>2, <1>4, <1>6 DEF KInv, SameTickets, SameUses

LEMMA SubmitKInv ==
  ASSUME TInv, KInv, NEW f \in Tabs, NEW p \in Posts, Submit(f, p)
  PROVE  KInv' /\ SameTickets
<1>1. /\ tab \in [Tabs -> TabStates] /\ post \in [Posts -> PostStates]
      /\ post[p].at = "idle" /\ p # Nil
      /\ \A i \in Loads : cb[p][i] = "idle"
      /\ UNCHANGED <<rpSess, codes, cb, bcodes, users>>
  BY LoginAssumption DEF TInv, TypeOK, PostsOK, PostOK, TabStates, PostStates, Submit, rpVars,
                         brokerVars, idpVars
<1>2. /\ tab'[f].at = "posted" /\ tab'[f].post = p
      /\ post'[p].at = "sent" /\ post'[p].tab = f
      /\ \A g \in Tabs \ {f} : tab'[g] = tab[g]
      /\ \A q \in Posts \ {p} : post'[q] = post[q]
  BY <1>1 DEF Submit, TabStates, PostStates
<1>3. tab[f].post = Nil \/ post[tab[f].post].at # "redirected"
  BY DEF Submit, KInv, Owned
<1>4. Owned'
  <2>1. \A g \in Tabs : tab[g].post # Nil => tab[g].post \in Posts \ {p}
    BY <1>1, OwnedPost
  <2>2. ASSUME NEW g \in Tabs \ {f}
        PROVE  /\ tab'[g].post # Nil =>
                    post'[tab'[g].post].at # "idle" /\ post'[tab'[g].post].tab = g
               /\ tab'[g].at = "consented" => tab'[g].post = Nil
               /\ tab'[g].at = "posted" =>
                    tab'[g].post # Nil /\ post'[tab'[g].post].at # "redirected"
    <3>1. tab'[g] = tab[g] /\ (tab[g].post # Nil => post'[tab[g].post] = post[tab[g].post])
      BY <1>2, <2>1
    <3> QED
      BY <3>1 DEF KInv, Owned
  <2> QED
    BY <1>1, <1>2, <2>2 DEF Owned
<1>5. Started'
  <2>1. ASSUME NEW q \in Posts, NEW i \in Loads, cb[q][i] # "idle"
        PROVE  post'[q].at = "redirected" /\ tab'[post'[q].tab].post = q
    <3>1. /\ post[q].at = "redirected" /\ tab[post[q].tab].post = q
          /\ q # p /\ post[q].tab \in Tabs /\ q # Nil
      BY <1>1, <2>1, LoginAssumption DEF KInv, Started, TInv, PostsOK, PostOK
    <3>2. post[q].tab # f
      BY <1>3, <3>1
    <3> QED
      BY <1>2, <3>1, <3>2
  <2> QED
    BY <1>1, <2>1 DEF Started
<1>6. CodeOnce'
  <2>1. \A q \in bcodes : q \in Posts \ {p}
    BY <1>1 DEF KInv, CodeOnce, TInv, TypeOK
  <2>2. \A q \in bcodes : post'[q].at = "redirected"
    BY <1>2, <2>1 DEF KInv, CodeOnce
  <2> QED
    BY <1>1, <2>2 DEF KInv, CodeOnce
<1> QED
  BY <1>1, <1>4, <1>5, <1>6 DEF KInv, SameTickets, SameUses

\* Every step keeps the way of the codes, and nobody is admitted or forgotten
\* except where a callback ends and where the RP restarts.
LEMMA NextKInv ==
  ASSUME TInv, KInv, [Next]_vars
  PROVE  /\ KInv'
         /\ \/ SameTickets \/ Forgotten
            \/ \E p \in Posts, i \in Loads : CallbackDone(p, i)
<1> DEFINE Goal == /\ KInv'
                   /\ \/ SameTickets \/ Forgotten
                      \/ \E p \in Posts, i \in Loads : CallbackDone(p, i)
<1> SUFFICES Goal
  OBVIOUS
<1>1. ASSUME NEW f \in Tabs, Browse(f) PROVE Goal
  <2>1. CASE ConsentPanics(f)
    <3>1. IdPStops({f}) /\ faults' \in 0 .. MaxFaults
      BY <2>1 DEF ConsentPanics, TInv, TypeOK
    <3> QED
      BY <3>1, IdPStopsLater, IdPStopsQuiet, QuietKInv
  <2> QED
    BY <1>1, <2>1, OnwardKInv DEF Onward
<1>2. ASSUME NEW f \in Tabs, NEW p \in Posts, Submit(f, p) PROVE Goal
  BY <1>2, SubmitKInv
<1>3. ASSUME UNCHANGED <<post, bcodes, users, cb, rpSess>>, Later PROVE Goal
  <2>1. Quiet /\ SameTickets
    BY <1>3 DEF Quiet, SameTickets, SameUses
  <2> QED
    BY <1>3, <2>1, QuietKInv
<1>4. ASSUME NEW u \in Users, IdPLogin(u) PROVE Goal
  BY <1>3, <1>4, IdPLoginLater DEF IdPLogin, rpVars, brokerVars
<1>5. ASSUME NEW p \in Posts, Handle(p) PROVE Goal
  BY <1>5, HandleLater, HandleQuiet, IssueKInv, QuietKInv
<1>7. ASSUME NEW p \in Posts, NEW i \in Loads, CallbackStart(p, i) PROVE Goal
  <2>1. SameTickets
    <3>1. cb \in [Posts -> CbStates] /\ cb[p][i] = "idle" /\ rpSess' = rpSess
      BY <1>7 DEF TInv, TypeOK, CbStates, CallbackStart, rpVars
    <3>2. PICK at \in {"redeem", "failed"} : cb' = [cb EXCEPT ![p][i] = at]
      BY <1>7 DEF CallbackStart
    <3> QED
      BY <3>1, <3>2 DEF SameTickets, SameUses, CbStates
  <2> QED
    BY <1>7, <2>1, CallbackLater, StartKInv
<1>8. ASSUME NEW p \in Posts, NEW i \in Loads, HandleCallback(p, i) PROVE Goal
  <2>1. Later
    BY <1>8, CallbackLater
  <2>2. KInv'
    BY <1>8, <2>1, CallbackQuiet, RedeemKInv, QuietKInv
  <2> QED
    BY <1>8, <2>2, CallbackQuiet
<1>9. CASE Environment
  BY <1>9, EnvironmentLater, EnvironmentQuiet, QuietKInv
<1>10. CASE UNCHANGED vars
  <2>1. Later
    BY <1>10 DEF vars, Later, PageStep, CodeStep, PostStep
  <2> QED
    BY <1>3, <1>10, <2>1 DEF vars
<1> QED
  BY <1>1, <1>2, <1>4, <1>5, <1>7, <1>8, <1>9, <1>10 DEF Next

LEMMA KInvInvariant == Spec => [](TInv /\ KInv)
<1>1. Init => KInv
  BY LoginAssumption DEF Init, KInv, Owned, Started, CodeOnce, NoTab, NoPost, Redeemed
<1>2. TInv /\ KInv /\ [Next]_vars => KInv'
  BY NextKInv
<1> QED
  BY <1>1, <1>2, TInvInvariant, PTL DEF Spec

(***************************************************************************)
(* The login implements ConsentTicket.                                     *)
(***************************************************************************)

\* At most one load of one callback has used a consent, which had been given.
LEMMA UsedOnce ==
  ASSUME TInv, KInv, NEW p \in Posts, NEW i \in Loads, cb[p][i] \in Redeemed
  PROVE  /\ post[p].tab \in Tabs /\ Code(p).uid # Nil
         /\ \A c \in Loading(Redeemed) : post[c[1]].tab = post[p].tab => c = <<p, i>>
<1>1. post[p].at = "redirected" /\ tab[post[p].tab].post = p
  BY DEF KInv, Started, Redeemed
<1>2. post[p].tab \in Tabs /\ Code(p).uid # Nil
  BY <1>1, CheckedCode DEF Checked
<1>3. ASSUME NEW q \in Posts, NEW j \in Loads, cb[q][j] \in Redeemed, post[q].tab = post[p].tab
      PROVE  q = p /\ j = i
  <2>1. tab[post[q].tab].post = q
    BY <1>3 DEF KInv, Started, Redeemed
  <2>2. q = p
    BY <1>1, <1>3, <2>1
  <2> QED
    BY <1>3, <2>2 DEF KInv, CodeOnce
<1> QED
  BY <1>2, <1>3 DEF Loading

\* A step that ends no callback leaves the tickets as they are used.
LEMMA SameAdmissions ==
  ASSUME TInv, SameUses,
         \A p \in Posts : post[p].at # "idle" => post'[p].tab = post[p].tab
  PROVE  \A f \in Tabs : Admissions(f)' = Admissions(f)
<1>1. \A p \in Posts, i \in Loads : cb[p][i] = "done" => post'[p].tab = post[p].tab
  BY DEF TInv, PostsOK, PostOK
<1> QED
  BY <1>1 DEF SameUses, Admissions, Loading

LEMMA InitTicket == Init => Ticket!Init
<1> SUFFICES ASSUME Init PROVE Ticket!Init
  OBVIOUS
<1>1. \A f \in Tabs : Admissions(f) = {}
  BY DEF Init, Admissions, Loading
<1>2. \A f \in Tabs : Cardinality(Admissions(f)) = 0
  BY <1>1, FS_EmptySet
<1>3. [f \in Tabs |-> Cardinality(Admissions(f))] = [f \in Tabs |-> 0]
  BY <1>2
<1>4. [f \in Tabs |-> codes[f].uid] = [f \in Tabs |-> Nil] /\ rpSess.user = Nil
  BY DEF Init, NoCode, NoRPUser
<1> QED
  BY <1>3, <1>4 DEF Ticket!Init

\* The end of a callback uses a ticket for the user it was made out to.
LEMMA DoneAdmits ==
  ASSUME TInv, KInv, NEW p \in Posts, NEW i \in Loads, CallbackDone(p, i)
  PROVE  \E h \in Tabs : Ticket!Admit(h)
<1>1. /\ cb \in [Posts -> CbStates] /\ cb[p][i] = "got"
      /\ cb' = [cb EXCEPT ![p][i] = "done"]
      /\ UNCHANGED <<post, codes>> /\ rpSess'.user = Code(p).uid
  BY DEF TInv, TypeOK, CbStates, CallbackDone, idpVars
<1>2. PICK h \in Tabs :
        /\ h = post[p].tab /\ Code(p).uid # Nil
        /\ \A c \in Loading(Redeemed) : post[c[1]].tab = h => c = <<p, i>>
  BY <1>1, UsedOnce DEF Redeemed
<1>3. Admissions(h) = {}
  <2> SUFFICES ASSUME NEW c \in Admissions(h) PROVE FALSE
    OBVIOUS
  <2>1. /\ c \in Posts \X Loads /\ cb[c[1]][c[2]] = "done" /\ post[c[1]].tab = h
    BY DEF Admissions, Loading
  <2>2. c = <<p, i>>
    BY <1>2, <2>1 DEF Loading, Redeemed
  <2> QED
    BY <1>1, <2>1, <2>2
<1>4. \A q \in Posts, j \in Loads :
        cb'[q][j] = "done" <=> cb[q][j] = "done" \/ (q = p /\ j = i)
  BY <1>1 DEF CbStates
<1>5. Loading({"done"})' = Loading({"done"}) \cup {<<p, i>>}
  <2>1. \A c \in Posts \X Loads : c = <<c[1], c[2]>> /\ c[1] \in Posts /\ c[2] \in Loads
    OBVIOUS
  <2>2. \A c \in Posts \X Loads : cb'[c[1]][c[2]] = "done" <=>
                                    cb[c[1]][c[2]] = "done" \/ c = <<p, i>>
    BY <1>4, <2>1
  <2> QED
    BY <2>2 DEF Loading
<1>6. \A f \in Tabs : Admissions(f)' = IF f = h THEN {<<p, i>>} ELSE Admissions(f)
  BY <1>1, <1>2, <1>3, <1>5 DEF Admissions
<1>7. /\ Cardinality(Admissions(h)) = 0 /\ Cardinality(Admissions(h))' = 1
      /\ \A f \in Tabs : f # h => Cardinality(Admissions(f))' = Cardinality(Admissions(f))
  BY <1>2, <1>3, <1>6, FS_EmptySet, FS_Singleton
<1>8. [f \in Tabs |-> Cardinality(Admissions(f))]' =
        [[f \in Tabs |-> Cardinality(Admissions(f))] EXCEPT ![h] = 1]
  BY <1>2, <1>7
<1> QED
  BY <1>1, <1>2, <1>7, <1>8 DEF Ticket!Admit, Code

LEMMA ConsentGrants ==
  ASSUME TInv, KInv, NEW f \in Tabs, Consent(f)
  PROVE  \E u \in Users : Ticket!Grant(f, u)
<1>1. PICK u \in Users :
        /\ codes \in [Tabs -> CodeStates] /\ TabOK(f) /\ tab[f].at = "verified"
        /\ idpSess.uid = u /\ UNCHANGED <<post, cb, rpSess>>
  BY DEF TInv, TypeOK, TabsOK, CodeStates, Consent, rpVars
<1>2. codes[f].uid = Nil
  BY <1>1 DEF TabOK, Late
<1>3. [g \in Tabs |-> codes[g].uid]' =
        [[g \in Tabs |-> codes[g].uid] EXCEPT ![f] = u]
  BY <1>1 DEF Consent, CodeStates
<1>4. SameTickets
  BY OnwardKInv
<1>5. \A g \in Tabs : Admissions(g)' = Admissions(g)
  BY <1>1, <1>4, SameAdmissions DEF SameTickets
<1>6. [g \in Tabs |-> Cardinality(Admissions(g))]' = [g \in Tabs |-> Cardinality(Admissions(g))]
  BY <1>5
<1> QED
  BY <1>1, <1>2, <1>3, <1>6 DEF Ticket!Grant

\* Consents are given by Consent only, and a submission stays its tab's.
LEMMA SameGrants ==
  ASSUME TInv, [Next]_vars, ~ \E f \in Tabs : Consent(f)
  PROVE  /\ \A f \in Tabs : codes'[f].uid = codes[f].uid
         /\ \A p \in Posts : post[p].at # "idle" => post'[p].tab = post[p].tab
<1>1. CASE MovesOn
  BY <1>1, LaterKeeps DEF MovesOn, Later, CodeStep
<1>2. ASSUME NEW f \in Tabs, Onward(f) PROVE UNCHANGED <<codes, post>>
  BY <1>2 DEF Onward, Browse, RPLogin, BrokerAuthorize, RelayPageLoads, BrokerLogin,
              IdPAuthorize, ConsentCookies, ConsentPageLoads, Verify, ConsentLoggedOut, idpVars
<1>3. ASSUME NEW f \in Tabs, NEW p \in Posts, Submit(f, p)
      PROVE  /\ codes' = codes /\ post[p].at = "idle"
             /\ \A q \in Posts \ {p} : post'[q] = post[q]
  BY <1>3 DEF Submit, idpVars, TInv, TypeOK
<1> QED
  BY <1>1, <1>2, <1>3, Steps

LEMMA NextTicket ==
  ASSUME TInv, KInv, [Next]_vars
  PROVE  [Ticket!Next]_Ticket!tvars
<1>1. CASE \E f \in Tabs : Consent(f)
  BY <1>1, ConsentGrants DEF Ticket!Next
<1>2. CASE \E p \in Posts, i \in Loads : CallbackDone(p, i)
  <2>1. PICK p \in Posts, i \in Loads : CallbackDone(p, i)
    BY <1>2
  <2>2. \E h \in Tabs : Ticket!Admit(h)
    BY <2>1, DoneAdmits
  <2> QED
    BY <2>2 DEF Ticket!Next
<1>3. CASE ~ \E f \in Tabs : Consent(f)
  <2>1. [f \in Tabs |-> codes[f].uid]' = [f \in Tabs |-> codes[f].uid]
    BY <1>3, SameGrants
  <2>2. ASSUME \A f \in Tabs : Admissions(f)' = Admissions(f)
        PROVE  [f \in Tabs |-> Cardinality(Admissions(f))]' =
                 [f \in Tabs |-> Cardinality(Admissions(f))]
    BY <2>2
  <2>3. ASSUME SameUses
        PROVE  [f \in Tabs |-> Cardinality(Admissions(f))]' =
                 [f \in Tabs |-> Cardinality(Admissions(f))]
    <3>1. \A p \in Posts : post[p].at # "idle" => post'[p].tab = post[p].tab
      BY <1>3, SameGrants
    <3>2. \A f \in Tabs : Admissions(f)' = Admissions(f)
      BY <2>3, <3>1, SameAdmissions
    <3> QED
      BY <2>2, <3>2
  <2>4. CASE SameTickets
    BY <2>1, <2>3, <2>4 DEF SameTickets, Ticket!tvars
  <2>5. CASE Forgotten
    BY <2>1, <2>3, <2>5 DEF Forgotten, Ticket!Forget, Ticket!Next
  <2> QED
    BY <1>2, <2>4, <2>5, NextKInv
<1> QED
  BY <1>1, <1>3

\* Forms posted twice, callbacks reloaded, tabs and accounts mixed up, servers
\* restarted: the RP admits only a user who has consented in this browser, and
\* each consent admits once.
THEOREM LoginImplementsTicket == Spec => TicketSpec
<1>1. TInv /\ KInv /\ [Next]_vars => [Ticket!Next]_Ticket!tvars
  BY NextTicket
<1> QED
  BY <1>1, InitTicket, KInvInvariant, PTL DEF Spec, TicketSpec, Ticket!Spec
=============================================================================
