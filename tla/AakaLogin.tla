------------------------------ MODULE AakaLogin ------------------------------
(***************************************************************************)
(* A login, from the RP's login link to its home page: RP/handler.go and   *)
(* RP/aaka.go, Broker/handler.go and Broker/aaka.go, IdP/handler.go,       *)
(* IdP/ssso.go, IdP/aake.go and IdP/storage.go, the broker's relay page,   *)
(* the IdP's consent page and the TCA frame (tca/dvf.js) inside it.        *)
(*                                                                         *)
(* One browser with several tabs logs in at one RP.  The tabs share what   *)
(* the browser shares: the cookies of the RP, of the broker and of the     *)
(* IdP, and with them the servers' sessions.  Every arrow of the protocol  *)
(* is an action of its own, so tabs, resubmitted forms, reloaded callbacks *)
(* and restarts interleave freely.                                         *)
(*                                                                         *)
(* Random values are named by where they were made: the OAuth state, the   *)
(* broker session, its acid and the consent code of a login are all named  *)
(* by the tab that caused them; a session key K_S, the tokens and the      *)
(* broker's code by the submission of the relay form that led to them.     *)
(*                                                                         *)
(* Revocation is no action: handleRevokeAuthorized compares the acid as it *)
(* stands in the path, percent-encoded, with acids that are JSON text,     *)
(* finds no record and changes nothing.                                    *)
(***************************************************************************)
EXTENDS Integers, FiniteSets

CONSTANTS Tabs,       \* logins started in this browser, one tab each
          Posts,      \* submissions of the relay form, resubmissions included
          Users,      \* accounts at the IdP
          Nil,        \* "none"
          Faults,     \* the kinds of fault that may happen
          MaxFaults   \* bound: how many faults may happen

FaultKinds == {"callFails", "codeExpires", "sessionEnds", "stateReused",
               "sealReused", "rpRestart", "brokerRestart", "idpRestart"}

ASSUME LoginAssumption ==
  /\ MaxFaults \in Nat /\ Faults \subseteq FaultKinds
  /\ Nil \notin Tabs /\ Nil \notin Posts /\ Nil \notin Users

VARIABLES tab,        \* tab[f]: [at, sess, uid, acid, post], one login's pages
          rpSess,     \* the browser's session at the RP: [state, user]
          aake,       \* aake[s]: the post whose K_S is stored under state s
          bCookie,    \* the broker's session_id, t and rp_domain cookies
          sdata,      \* sdata[s]: brokerSessionData [state, live]
          idpSess,    \* the browser's session at the IdP: [uid, acid]
          iCookie,    \* the IdP's uid and acid cookies
          codes,      \* codes[f]: the code for f's consent [live, uid, acid, sealed]
          records,    \* authorized_msgs: posts whose authorization is listed
          valid,      \* posts whose refresh token the IdP accepts
          post,       \* post[p]: [at, tab, state, wanted]
          bcodes,     \* CodeStore of the broker: posts whose code is redeemable
          users,      \* UserStore of the broker: users[u], the post of u's tokens
          cb,         \* cb[p][i]: the i-th load of p's callback page
          faults      \* faults so far

vars == <<tab, rpSess, aake, bCookie, sdata, idpSess, iCookie, codes, records,
          valid, post, bcodes, users, cb, faults>>

browserVars == <<bCookie, iCookie>>
rpVars      == <<rpSess, aake>>
brokerVars  == <<sdata, bcodes, users>>
idpVars     == <<idpSess, codes, records, valid>>

Loads == 1 .. 2       \* bound: a callback page is loaded, and reloaded once

Pages == {"closed", "authorize", "relaySent", "relay", "toIdP", "consentSent",
          "consentCookies", "consent", "verified", "consented", "posted",
          "callback", "done", "failed"}
PostPCs == {"idle", "sent", "pok", "proved", "checked", "recorded", "issued",
            "redirected", "failed"}

NoTab     == [at |-> "closed", sess |-> Nil, uid |-> Nil, acid |-> Nil, post |-> Nil]
NoPost    == [at |-> "idle", tab |-> Nil, state |-> Nil, wanted |-> TRUE]
NoSession == [uid |-> Nil, acid |-> Nil]
NoSeal    == [uid |-> Nil, acid |-> Nil]
NoCode    == [live |-> FALSE, uid |-> Nil, acid |-> Nil, sealed |-> NoSeal]
NoRPUser  == [state |-> Nil, user |-> Nil]

Sess(p) == tab[post[p].tab].sess     \* the session_id in the form
Code(p) == codes[post[p].tab]        \* the consent code in the form

Fault(kind) == kind \in Faults /\ faults < MaxFaults /\ faults' = faults + 1

Go(f, at) == tab' = [tab EXCEPT ![f].at = at]

\* The answer to p reaches its tab unless the tab has posted again since.
Shown(p, at) == [tab EXCEPT ![post[p].tab].at =
                   IF @ = "posted" /\ tab[post[p].tab].post = p THEN at ELSE @]

Refuse(p) == /\ post' = [post EXCEPT ![p].at = "failed"]
             /\ tab'  = Shown(p, "failed")

\* The page shows what the last load of p's callback ended with.
CallbackShown(p, i, at) ==
  [tab EXCEPT ![post[p].tab].at =
     IF i = 2 \/ cb[p][2] = "idle" THEN at ELSE @]

CallbackFails(p, i) == /\ cb'  = [cb EXCEPT ![p][i] = "failed"]
                       /\ tab' = CallbackShown(p, i, "failed")

\* A server stops: the posts P fail, the posts O go on with nobody waiting, the
\* callback loads C fail, and the tabs that waited for them show an error.
Interrupt(P, O, C, pages) ==
  /\ post' = [p \in Posts |-> IF p \in P THEN [post[p] EXCEPT !.at = "failed"]
                              ELSE IF p \in O THEN [post[p] EXCEPT !.wanted = FALSE]
                              ELSE post[p]]
  /\ cb'   = [p \in Posts |-> [i \in Loads |->
                IF <<p, i>> \in C THEN "failed" ELSE cb[p][i]]]
  /\ tab'  = [f \in Tabs |->
       IF \/ f \in pages
          \/ tab[f].at = "posted" /\ tab[f].post \in P \cup O
          \/ tab[f].at = "callback" /\ \E i \in Loads : <<tab[f].post, i>> \in C
       THEN [tab[f] EXCEPT !.at = "failed"] ELSE tab[f]]

At(pcs)      == {p \in Posts : post[p].at \in pcs}
Loading(pcs) == {c \in Posts \X Loads : cb[c[1]][c[2]] \in pcs}

Init ==
  /\ tab     = [f \in Tabs |-> NoTab]
  /\ rpSess  = NoRPUser
  /\ aake    = [f \in Tabs |-> Nil]
  /\ bCookie = Nil
  /\ sdata   = [f \in Tabs |-> [state |-> Nil, live |-> FALSE]]
  /\ idpSess = NoSession
  /\ iCookie = NoSession
  /\ codes   = [f \in Tabs |-> NoCode]
  /\ records = {}
  /\ valid   = {}
  /\ post    = [p \in Posts |-> NoPost]
  /\ bcodes  = {}
  /\ users   = [u \in Users |-> Nil]
  /\ cb      = [p \in Posts |-> [i \in Loads |-> "idle"]]
  /\ faults  = 0

(***************************************************************************)
(* From the RP's login link to the consent page.                           *)
(***************************************************************************)

\* RP /ssso/login: a new state replaces the one in the RP session.
RPLogin(f) ==
  /\ tab[f].at = "closed"
  /\ rpSess' = [rpSess EXCEPT !.state = f]
  /\ Go(f, "authorize")
  /\ UNCHANGED <<aake, browserVars, brokerVars, idpVars, post, cb, faults>>

\* Broker /ssso/authorize: a randomized credential, a session and its cookies.
BrokerAuthorize(f) ==
  /\ tab[f].at = "authorize"
  /\ sdata'   = [sdata EXCEPT ![f] = [state |-> f, live |-> TRUE]]
  /\ bCookie' = f
  /\ Go(f, "relaySent")
  /\ UNCHANGED <<rpVars, iCookie, bcodes, users, idpVars, post, cb, faults>>

\* The relay page runs and reads the cookies, its own or a later tab's.
RelayPageLoads(f) ==
  /\ tab[f].at = "relaySent"
  /\ tab' = [tab EXCEPT ![f].at = "relay", ![f].sess = bCookie]
  /\ UNCHANGED <<rpVars, browserVars, brokerVars, idpVars, post, cb, faults>>

\* Broker /ssso/login, loaded by the popup.
BrokerLogin(f) ==
  /\ tab[f].at = "relay"
  /\ Go(f, IF sdata[tab[f].sess].live THEN "toIdP" ELSE "failed")
  /\ UNCHANGED <<rpVars, browserVars, brokerVars, idpVars, post, cb, faults>>

\* IdP POST /ssso/login, from any page that asks for it.
IdPLogin(u) ==
  /\ idpSess.uid # u
  /\ idpSess' = [idpSess EXCEPT !.uid = u]
  /\ UNCHANGED <<tab, rpVars, browserVars, brokerVars, codes, records, valid,
                 post, cb, faults>>

\* IdP /ssso/authorize for a logged-in user: one session, so the last tab wins.
IdPAuthorize(f) ==
  /\ tab[f].at = "toIdP"
  /\ idpSess.uid # Nil
  /\ idpSess' = [idpSess EXCEPT !.acid = tab[f].sess]
  /\ tab' = [tab EXCEPT ![f].at = "consentSent", ![f].uid = idpSess.uid,
                        ![f].acid = tab[f].sess]
  /\ UNCHANGED <<rpVars, browserVars, brokerVars, codes, records, valid,
                 post, cb, faults>>

\* Answers may arrive in another order than the requests were handled in.
ConsentCookies(f) ==
  /\ tab[f].at = "consentSent"
  /\ iCookie' = [uid |-> tab[f].uid, acid |-> tab[f].acid]
  /\ Go(f, "consentCookies")
  /\ UNCHANGED <<rpVars, bCookie, brokerVars, idpVars, post, cb, faults>>

ConsentPageLoads(f) ==
  /\ tab[f].at = "consentCookies"
  /\ tab' = [tab EXCEPT ![f].at = "consent", ![f].uid = iCookie.uid,
                        ![f].acid = iCookie.acid]
  /\ UNCHANGED <<rpVars, browserVars, brokerVars, idpVars, post, cb, faults>>

NoVerify(f) == TRUE              \* mutant of Commits: PSVerify is not called

\* PSVerify in the TCA: the relay page's (t, D) opens this acid and no other.
Commits(f) == tab[f].acid = tab[f].sess

Verify(f) ==
  /\ tab[f].at = "consent"
  /\ Go(f, IF Commits(f) THEN "verified" ELSE "failed")
  /\ UNCHANGED <<rpVars, browserVars, brokerVars, idpVars, post, cb, faults>>

(***************************************************************************)
(* Consent.                                                                *)
(***************************************************************************)

\* The PIN is entered: D_enc is sealed for the uid and acid of the page, the
\* code is made out to the uid and acid of the IdP session and keeps D_enc.
Consent(f) ==
  /\ tab[f].at = "verified"
  /\ idpSess.uid # Nil /\ idpSess.acid # Nil
  /\ codes' = [codes EXCEPT ![f] =
       [live |-> TRUE, uid |-> idpSess.uid, acid |-> idpSess.acid,
        sealed |-> [uid |-> tab[f].uid, acid |-> tab[f].acid]]]
  /\ Go(f, "consented")
  /\ UNCHANGED <<rpVars, browserVars, brokerVars, idpSess, records, valid,
                 post, cb, faults>>

\* Nobody is logged in: both fetches are answered with the login page.
ConsentLoggedOut(f) ==
  /\ tab[f].at = "verified"
  /\ idpSess.uid = Nil
  /\ Go(f, "failed")
  /\ UNCHANGED <<rpVars, browserVars, brokerVars, idpVars, post, cb, faults>>

\* The IdP process ends: sessions, codes, records and the token-signing key are
\* in memory only.  Requests it was handling fail, and so do the given pages.
IdPStops(pages) ==
  /\ idpSess' = NoSession
  /\ codes'   = [f \in Tabs |-> [codes[f] EXCEPT !.live = FALSE]]
  /\ records' = {}
  /\ valid'   = {}
  /\ Interrupt(At({"checked", "recorded"}), {}, {}, pages)
  /\ UNCHANGED <<rpVars, browserVars, brokerVars>>

\* sess.Get("acid").(string) of a session that has no acid: the handler panics
\* and nothing recovers.
ConsentPanics(f) ==
  /\ tab[f].at = "verified"
  /\ idpSess.uid # Nil /\ idpSess.acid = Nil
  /\ IdPStops({f})
  /\ UNCHANGED faults

(***************************************************************************)
(* The relay form is submitted: Broker/aaka.go handleTokenFromIdP.         *)
(***************************************************************************)

\* The relay page posts; a reload of the pending or failed answer posts again.
Submit(f, p) ==
  /\ post[p].at = "idle"
  /\ \/ tab[f].at \in {"consented", "posted"}
     \/ /\ tab[f].at = "failed" /\ tab[f].post # Nil
        /\ post[tab[f].post].at # "redirected"
  /\ post' = [post EXCEPT ![p].at = "sent", ![p].tab = f]
  /\ tab'  = [tab EXCEPT ![f].at = "posted", ![f].post = p]
  /\ UNCHANGED <<rpVars, browserVars, brokerVars, idpVars, cb, faults>>

BrokerLookup(p) ==
  /\ post[p].at = "sent"
  /\ IF sdata[Sess(p)].live
     THEN post' = [post EXCEPT ![p].at = "pok"] /\ UNCHANGED tab
     ELSE Refuse(p)
  /\ UNCHANGED <<rpVars, browserVars, brokerVars, idpVars, cb, faults>>

NothingSaved(p) == aake' = aake   \* mutant of SaveKS: K_S is not kept

SavedSwapped(p) ==                \* mutant of SaveKS: the arguments swapped
  aake' = [aake EXCEPT ![sdata[Sess(p)].state] = sdata[Sess(p)].state]

\* K_S is kept under the state the broker sent, over an earlier post's.
SaveKS(p) == aake' = [aake EXCEPT ![sdata[Sess(p)].state] = p]

\* RP /ssso/aake/genpok
RPGenPoK(p) ==
  /\ post[p].at = "pok"
  /\ SaveKS(p)
  /\ post' = [post EXCEPT ![p].at = "proved"]
  /\ UNCHANGED <<tab, rpSess, browserVars, brokerVars, idpVars, cb, faults>>

NoAcidCheck(p) == Code(p).live    \* mutant of CodeOK: any live code will do

\* The code is there and was made out to the acid that the RP proved.
CodeOK(p) == Code(p).live /\ Code(p).acid = Sess(p)

IdPCheck(p) ==
  /\ post[p].at = "proved"
  /\ CodeOK(p)
  /\ post' = [post EXCEPT ![p].at = "checked"]
  /\ UNCHANGED <<tab, rpVars, browserVars, brokerVars, idpVars, cb, faults>>

RefuseMismatch(p) ==              \* mutant of IdPRefuse: no answer for a code
  /\ post[p].at = "proved"       \* that is gone
  /\ Code(p).live /\ ~CodeOK(p)
  /\ Refuse(p)
  /\ UNCHANGED <<rpVars, browserVars, brokerVars, idpVars, cb, faults>>

IdPRefuse(p) ==
  /\ post[p].at = "proved"
  /\ ~CodeOK(p)
  /\ Refuse(p)
  /\ UNCHANGED <<rpVars, browserVars, brokerVars, idpVars, cb, faults>>

\* Tokens are made and listed.
IdPRecord(p) ==
  /\ post[p].at = "checked"
  /\ records' = records \cup {p}
  /\ valid'   = valid \cup {p}
  /\ post'    = [post EXCEPT ![p].at = "recorded"]
  /\ UNCHANGED <<tab, rpVars, browserVars, brokerVars, idpSess, codes, cb, faults>>

\* The code is burnt and the tokens are sent.
IdPBurn(p) ==
  /\ post[p].at = "recorded"
  /\ codes' = [codes EXCEPT ![post[p].tab].live = FALSE]
  /\ post'  = [post EXCEPT ![p].at = IF post[p].wanted THEN "issued" ELSE "failed"]
  /\ UNCHANGED <<tab, rpVars, browserVars, brokerVars, idpSess, records, valid,
                 cb, faults>>

\* Unblind, re-sign, issue the broker's code, drop the session, redirect.
BrokerIssue(p) ==
  /\ post[p].at = "issued"
  /\ p \in valid
  /\ bcodes' = bcodes \cup {p}
  /\ sdata'  = [sdata EXCEPT ![Sess(p)].live = FALSE]
  /\ post'   = [post EXCEPT ![p].at = "redirected", ![p].state = sdata[Sess(p)].state]
  /\ tab'    = Shown(p, "callback")
  /\ UNCHANGED <<rpVars, browserVars, users, idpVars, cb, faults>>

\* The tokens do not verify under the key a restarted IdP publishes.
BrokerCannotResign(p) ==
  /\ post[p].at = "issued"
  /\ p \notin valid
  /\ Refuse(p)
  /\ UNCHANGED <<rpVars, browserVars, brokerVars, idpVars, cb, faults>>

(***************************************************************************)
(* The callback: RP/aaka.go handleCallback, Broker handleTokenFromBroker.  *)
(* The tab follows the redirect of its last post.                          *)
(***************************************************************************)
CallbackStart(p, i) ==
  /\ post[p].at = "redirected" /\ tab[post[p].tab].post = p
  /\ cb[p][i] = "idle"
  /\ i = 2 => cb[p][1] # "idle"
  /\ LET ok == rpSess.state = post[p].state
         at == IF ok THEN "redeem" ELSE "failed"
     IN  /\ cb'  = [cb EXCEPT ![p][i] = at]
         /\ tab' = [tab EXCEPT ![post[p].tab].at = IF ok THEN "callback" ELSE "failed"]
  /\ UNCHANGED <<rpVars, browserVars, brokerVars, idpVars, post, faults>>

CodeKept(p) == bcodes             \* mutant of Without: GetCode leaves the code

Without(p) == bcodes \ {p}

\* Broker /ssso/token: the code is taken out and the tokens are stored.
BrokerRedeem(p, i) ==
  /\ cb[p][i] = "redeem"
  /\ p \in bcodes
  /\ bcodes' = Without(p)
  /\ users'  = [users EXCEPT ![Code(p).uid] = p]
  /\ cb'     = [cb EXCEPT ![p][i] = "got"]
  /\ UNCHANGED <<tab, rpVars, browserVars, sdata, idpVars, post, faults>>

BrokerRefusesCode(p, i) ==
  /\ cb[p][i] = "redeem"
  /\ p \notin bcodes
  /\ CallbackFails(p, i)
  /\ UNCHANGED <<rpVars, browserVars, brokerVars, idpVars, post, faults>>

\* K_S decrypts the claims; the session read at the start is written back.
CallbackDone(p, i) ==
  /\ cb[p][i] = "got"
  /\ aake[post[p].state] = p
  /\ rpSess' = [state |-> post[p].state, user |-> Code(p).uid]
  /\ cb'     = [cb EXCEPT ![p][i] = "done"]
  /\ tab'    = CallbackShown(p, i, "done")
  /\ UNCHANGED <<aake, browserVars, brokerVars, idpVars, post, faults>>

\* The K_S of another post, or none, is stored under the state.
CallbackCannotDecrypt(p, i) ==
  /\ cb[p][i] = "got"
  /\ aake[post[p].state] # p
  /\ CallbackFails(p, i)
  /\ UNCHANGED <<rpVars, browserVars, brokerVars, idpVars, post, faults>>

(***************************************************************************)
(* Faults.                                                                 *)
(***************************************************************************)

\* A call of handleTokenFromIdP fails.  When it is the call to the IdP, the IdP
\* may handle the request all the same.
BrokerCallFails(p) ==
  /\ Fault("callFails")
  /\ \/ post[p].at \in {"pok", "proved", "issued"} /\ Refuse(p)
     \/ /\ post[p].at \in {"proved", "checked", "recorded"}
        /\ post' = [post EXCEPT ![p].wanted = FALSE]
        /\ tab'  = Shown(p, "failed")
  /\ post[p].wanted
  /\ UNCHANGED <<rpVars, browserVars, brokerVars, idpVars, cb>>

\* The RP's call to the broker fails, or its answer is lost.
RPCallFails(p, i) ==
  /\ Fault("callFails")
  /\ cb[p][i] \in {"redeem", "got"}
  /\ CallbackFails(p, i)
  /\ UNCHANGED <<rpVars, browserVars, brokerVars, idpVars, post>>

\* Five minutes pass.
CodeExpires(f) ==
  /\ Fault("codeExpires")
  /\ codes[f].live
  /\ codes' = [codes EXCEPT ![f].live = FALSE]
  /\ UNCHANGED <<tab, rpVars, browserVars, brokerVars, idpSess, records, valid,
                 post, cb>>

\* Thirty minutes pass.
IdPSessionEnds ==
  /\ Fault("sessionEnds")
  /\ idpSess' = NoSession
  /\ UNCHANGED <<tab, rpVars, browserVars, brokerVars, codes, records, valid,
                 post, cb>>

\* The strings that fiber's c.Query returns point into the request's buffer and
\* the handlers keep them.  A later request overwrites them, with its own state
\* or D_enc if it is one of the same kind.  Here, the state of a broker session.
StateReused(s, later) ==
  /\ Fault("stateReused")
  /\ sdata[s].state # Nil /\ sdata[later].state # Nil /\ sdata[s].state # later
  /\ sdata' = [sdata EXCEPT ![s].state = later]
  /\ UNCHANGED <<tab, rpVars, browserVars, bcodes, users, idpVars, post, cb>>

\* And the D_enc of a code, with that of the records made from it: it is then
\* other bytes than the user sealed.
SealReused(f) ==
  /\ Fault("sealReused")
  /\ codes[f].sealed # NoSeal
  /\ codes' = [codes EXCEPT ![f].sealed = NoSeal]
  /\ UNCHANGED <<tab, rpVars, browserVars, brokerVars, idpSess, records, valid,
                 post, cb>>

\* Sessions and the keys of logins under way are in memory only.
RPRestart ==
  /\ Fault("rpRestart")
  /\ rpSess' = NoRPUser
  /\ aake'   = [s \in Tabs |-> Nil]
  /\ Interrupt(At({"pok"}), {}, Loading({"redeem", "got"}), {})
  /\ UNCHANGED <<browserVars, brokerVars, idpVars>>

\* So are the broker's sessions, codes, users and its token-signing key: tokens
\* that an RP has already fetched do not verify any more.
BrokerRestart ==
  /\ Fault("brokerRestart")
  /\ sdata'  = [s \in Tabs |-> [sdata[s] EXCEPT !.live = FALSE]]
  /\ bcodes' = {}
  /\ users'  = [u \in Users |-> Nil]
  /\ Interrupt(At({"sent", "pok", "issued"}), At({"proved", "checked", "recorded"}),
               Loading({"redeem", "got"}), {})
  /\ UNCHANGED <<rpVars, browserVars, idpVars>>

IdPRestart == Fault("idpRestart") /\ IdPStops({})

(***************************************************************************)
(* The specification                                                       *)
(***************************************************************************)
\* What the browser does for tab f, its user's consent included.
Browse(f) == \/ RPLogin(f) \/ BrokerAuthorize(f) \/ RelayPageLoads(f) \/ BrokerLogin(f)
             \/ IdPAuthorize(f) \/ ConsentCookies(f) \/ ConsentPageLoads(f) \/ Verify(f)
             \/ Consent(f) \/ ConsentLoggedOut(f) \/ ConsentPanics(f)

\* What the servers do for post p, and for the i-th load of its callback.
Handle(p) == \/ BrokerLookup(p) \/ RPGenPoK(p) \/ IdPCheck(p) \/ IdPRefuse(p)
             \/ IdPRecord(p) \/ IdPBurn(p) \/ BrokerIssue(p) \/ BrokerCannotResign(p)

HandleCallback(p, i) == \/ BrokerRedeem(p, i) \/ BrokerRefusesCode(p, i)
                        \/ CallbackDone(p, i) \/ CallbackCannotDecrypt(p, i)

Environment ==
  \/ \E p \in Posts : BrokerCallFails(p) \/ \E i \in Loads : RPCallFails(p, i)
  \/ \E f \in Tabs : CodeExpires(f)
  \/ \E s, later \in Tabs : StateReused(s, later)
  \/ \E f \in Tabs : SealReused(f)
  \/ IdPSessionEnds \/ RPRestart \/ BrokerRestart \/ IdPRestart

Next == \/ \E f \in Tabs : Browse(f) \/ \E p \in Posts : Submit(f, p)
        \/ \E u \in Users : IdPLogin(u)
        \/ \E p \in Posts :
             Handle(p) \/ \E i \in Loads : CallbackStart(p, i) \/ HandleCallback(p, i)
        \/ Environment

Spec == Init /\ [][Next]_vars

\* Requests that were sent are handled and the browser follows redirects; a
\* relay page posts the code it was given.  Users owe nothing.
FairSpec ==
  /\ Spec
  /\ \A p \in Posts : /\ WF_vars(Handle(p)) /\ WF_vars(CallbackStart(p, 1))
                      /\ \A i \in Loads : WF_vars(HandleCallback(p, i))
  /\ \A f \in Tabs : WF_vars(tab[f].at = "consented" /\ \E p \in Posts : Submit(f, p))

(***************************************************************************)
(* Properties                                                              *)
(***************************************************************************)
TypeOK ==
  /\ tab \in [Tabs -> [at : Pages, sess : Tabs \cup {Nil}, uid : Users \cup {Nil},
                       acid : Tabs \cup {Nil}, post : Posts \cup {Nil}]]
  /\ rpSess \in [state : Tabs \cup {Nil}, user : Users \cup {Nil}]
  /\ aake \in [Tabs -> Posts \cup {Nil}]
  /\ bCookie \in Tabs \cup {Nil}
  /\ sdata \in [Tabs -> [state : Tabs \cup {Nil}, live : BOOLEAN]]
  /\ idpSess \in [uid : Users \cup {Nil}, acid : Tabs \cup {Nil}]
  /\ iCookie \in [uid : Users \cup {Nil}, acid : Tabs \cup {Nil}]
  /\ codes \in [Tabs -> [live : BOOLEAN, uid : Users \cup {Nil}, acid : Tabs \cup {Nil},
                         sealed : [uid : Users \cup {Nil}, acid : Tabs \cup {Nil}]]]
  /\ records \subseteq Posts /\ valid \subseteq Posts /\ bcodes \subseteq Posts
  /\ post \in [Posts -> [at : PostPCs, tab : Tabs \cup {Nil}, state : Tabs \cup {Nil},
                         wanted : BOOLEAN]]
  /\ users \in [Users -> Posts \cup {Nil}]
  /\ cb \in [Posts -> [Loads -> {"idle", "redeem", "got", "done", "failed"}]]
  /\ faults \in 0 .. MaxFaults

\* A record is listed under the acid that the RP proved in the login it came from,
\* and its D_enc, as long as it is the one that was sealed for it, decrypts to that
\* acid.  D_enc is sealed for the acid of a cookie, the record is made out to the
\* acid of the IdP session, and two tabs share both; only PSVerify in the TCA and
\* the acid check at the token endpoint, taken together, keep the two equal.
RecordFaithful ==
  \A p \in records :
    /\ Code(p).acid = Sess(p)
    /\ Code(p).sealed # NoSeal => Code(p).sealed.acid = Code(p).acid

\* Step 4 of README.md and userinfo.html: one record per authorization.
OneRecordPerConsent ==
  \A p, q \in records : post[p].tab = post[q].tab => p = q

\* The two loads of p's callback page that have logged the user in.
Admissions(f) == {c \in Loading({"done"}) : post[c[1]].tab = f}

\* Forms may be posted twice, callbacks reloaded, tabs and accounts mixed up and
\* servers restarted: the RP admits only a user who has consented in this
\* browser, and each consent admits once.
Ticket == INSTANCE ConsentTicket WITH
  Consents <- Tabs,
  granted  <- [f \in Tabs |-> codes[f].uid],
  uses     <- [f \in Tabs |-> Cardinality(Admissions(f))],
  who      <- rpSess.user

\* The login implements ConsentTicket.
TicketSpec == Ticket!Spec

\* Every submission of the relay form, and every callback, ends in the home page
\* or in an error page, whichever server fails or restarts on the way.
ConsentResolves ==
  \A f \in Tabs : tab[f].at \in {"posted", "callback"} ~> tab[f].at \in {"done", "failed"}

\* A consent given in the only tab logs the user in, also when the user has
\* switched accounts on the way or reloads the callback page, unless a server
\* fails or the form is posted a second time.
ConsentLogsIn ==
  \A f \in Tabs : tab[f].at = "consented" ~>
    \/ Admissions(f) # {}
    \/ faults > 0 \/ \E p \in Posts : post[p].at # "idle" /\ p # tab[f].post
=============================================================================
