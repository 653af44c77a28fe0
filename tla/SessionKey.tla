----------------------------- MODULE SessionKey -----------------------------
(***************************************************************************)
(* How the RP and the IdP of a login agree on the session key K_S.         *)
(*                                                                         *)
(* The RP asks the IdP for an ephemeral key, derives K_S by X3DH, and sends *)
(* its own public keys, the id of the IdP's key and a confirmation sealed   *)
(* under K_S by way of the broker; the IdP looks the id up, derives K_S     *)
(* from its side and accepts if the confirmation opens.  The IdP's          *)
(* ephemeral keys are a pool, filled by the first request and handed out in *)
(* turn by handlers that share the pool and its index without a lock, so    *)
(* every access to them is a step here.                                     *)
(*                                                                         *)
(* A scalar is a name and a public key has the name of its scalar; the     *)
(* shared secret of two keys is the set of both, a derived key the tuple it *)
(* is derived from, a ciphertext what it seals under what.                 *)
(***************************************************************************)
EXTENDS Naturals, FiniteSets

CONSTANTS Sessions,    \* one login each
          PoolSize,    \* 100 in the code
          MaxRestarts  \* bound on the restarts of the IdP

ASSUME PoolAssumption == PoolSize \in Nat \ {0}
ASSUME BoundAssumption == MaxRestarts \in Nat

VARIABLES
  pool,      \* s.store.empkeys.keys: id -> key
  idx,       \* s.store.EmpKeyIdx
  pc,        \* where each session is: its getempkey handler, then the login
  fill,      \* fill[s]: how many keys s's handler has put into the pool
  kid,       \* kid[s]: the id s's handler read, sent to the RP with the key
  emp,       \* emp[s]: the IdP's ephemeral key s was given
  count,     \* count[s]: EmpKeyIdx as read by s's increment
  agreed,    \* agreed[s]: the K_S the IdP accepted
  made,      \* ephemeral keys made so far: their names
  restarts,
  shaken,    \* history: sessions under which the pool was changed
  crowded    \* history: sessions whose handler ran beside another one

vars == <<pool, idx, pc, fill, kid, emp, count, agreed, made, restarts, shaken, crowded>>

-----------------------------------------------------------------------------
(* The primitives of lib/utils.go.                                         *)

IdPIdentity   == <<"identity", 0>>
EmpKey(n)     == <<"pool", n>>
RPIdentity(s) == <<"client", s>>     \* eQsk of the proof, drawn per login
RPEmpKey(s)   == <<"clientEmp", s>>

NoKey == EmpKey(0)                   \* keys are made from number 1 on

DH(sk, pk) == {sk, pk}

DeriveSessionKey(dh1, dh2, dh3) == <<dh1, dh2, dh3>>

AesGcmEncrypt(key, msg, aad) == [key |-> key, msg |-> msg, aad |-> aad]

Opens(key, c, aad) == c.key = key /\ c.aad = aad

-----------------------------------------------------------------------------
(* The two sides of the exchange.                                          *)

\* x3KeyExchangeRP and x3KeyExchangeIdP: own identity and ephemeral key, then the peer's.
SessionKeyOfRP(s) ==
  DeriveSessionKey(DH(RPIdentity(s), emp[s]), DH(RPEmpKey(s), IdPIdentity), DH(RPEmpKey(s), emp[s]))

SwappedKeyOfIdP(s, e) ==         \* mutant of SessionKeyOfIdP: dh1 and dh2 swapped
  DeriveSessionKey(DH(IdPIdentity, RPEmpKey(s)), DH(e, RPIdentity(s)), DH(e, RPEmpKey(s)))

SessionKeyOfIdP(s, e) ==
  DeriveSessionKey(DH(e, RPIdentity(s)), DH(IdPIdentity, RPEmpKey(s)), DH(e, RPEmpKey(s)))

\* newSession: the confirmation names both ephemeral keys and binds both identities.
Confirmation(s) ==
  AesGcmEncrypt(SessionKeyOfRP(s), <<RPEmpKey(s), emp[s]>>, <<RPIdentity(s), IdPIdentity>>)

ConfirmsNothing(s, e) == TRUE    \* mutant of Confirms: the answer is not opened

\* getSessionKey with the ephemeral key e found under the session's id.
Confirms(s, e) ==
  /\ Opens(SessionKeyOfIdP(s, e), Confirmation(s), <<RPIdentity(s), IdPIdentity>>)
  /\ Confirmation(s).msg = <<RPEmpKey(s), e>>

-----------------------------------------------------------------------------
Filling  == {"make", "reset", "fill"}
Handling == Filling \cup {"wrap", "rewind", "pick", "lookup", "count", "countWrite"}

\* The sessions with a handler running, and those an IdP restart or refill can hurt.
InHandler == {s \in Sessions : pc[s] \in Handling}
InFlight  == {s \in Sessions : pc[s] \in Handling \cup {"held"}}

Init ==
  /\ pool     = [i \in {} |-> NoKey]
  /\ idx      = 0
  /\ pc       = [s \in Sessions |-> "idle"]
  /\ fill     = [s \in Sessions |-> 0]
  /\ kid      = [s \in Sessions |-> 0]
  /\ emp      = [s \in Sessions |-> NoKey]
  /\ count    = [s \in Sessions |-> 0]
  /\ agreed   = [s \in Sessions |-> {}]
  /\ made     = 0
  /\ restarts = 0
  /\ shaken   = {}
  /\ crowded  = {}

Moves(s, from, to) == pc[s] = from /\ pc' = [pc EXCEPT ![s] = to]

Shakes(s) == shaken' = shaken \cup (InFlight \ {s})

-----------------------------------------------------------------------------
(* handleGetIdPEmpKey.                                                     *)

CheckPool(s) ==
  /\ Moves(s, "idle", IF DOMAIN pool = {} THEN "make" ELSE "wrap")
  /\ crowded' = IF InHandler = {} THEN crowded ELSE crowded \cup InHandler \cup {s}
  /\ UNCHANGED <<pool, idx, fill, kid, emp, count, agreed, made, restarts, shaken>>

MakePool(s) ==
  /\ Moves(s, "make", "reset")
  /\ pool' = [i \in {} |-> NoKey]
  /\ Shakes(s)
  /\ UNCHANGED <<idx, fill, kid, emp, count, agreed, made, restarts, crowded>>

ResetIndex(s) ==
  /\ Moves(s, "reset", "fill")
  /\ idx' = 0
  /\ UNCHANGED <<pool, fill, kid, emp, count, agreed, made, restarts, shaken, crowded>>

AddKeyTooMany(s) ==              \* mutant of AddKey: i <= PoolSize
  /\ Moves(s, "fill", IF fill[s] = PoolSize THEN "wrap" ELSE "fill")
  /\ made' = made + 1
  /\ pool' = [i \in DOMAIN pool \cup {fill[s]} |-> IF i = fill[s] THEN EmpKey(made + 1) ELSE pool[i]]
  /\ fill' = [fill EXCEPT ![s] = @ + 1]
  /\ Shakes(s)
  /\ UNCHANGED <<idx, kid, emp, count, agreed, restarts, crowded>>

\* Into the map the pool is by now, whoever made it.
AddKey(s) ==
  /\ Moves(s, "fill", IF fill[s] + 1 = PoolSize THEN "wrap" ELSE "fill")
  /\ made' = made + 1
  /\ pool' = [i \in DOMAIN pool \cup {fill[s]} |-> IF i = fill[s] THEN EmpKey(made + 1) ELSE pool[i]]
  /\ fill' = [fill EXCEPT ![s] = @ + 1]
  /\ Shakes(s)
  /\ UNCHANGED <<idx, kid, emp, count, agreed, restarts, crowded>>

FarPastTheEnd == idx > Cardinality(DOMAIN pool)    \* mutant of PastTheEnd: > for >=

PastTheEnd == idx >= Cardinality(DOMAIN pool)

CheckIndex(s) ==
  /\ Moves(s, "wrap", IF PastTheEnd THEN "rewind" ELSE "pick")
  /\ UNCHANGED <<pool, idx, fill, kid, emp, count, agreed, made, restarts, shaken, crowded>>

Rewind(s) ==
  /\ Moves(s, "rewind", "pick")
  /\ idx' = 0
  /\ UNCHANGED <<pool, fill, kid, emp, count, agreed, made, restarts, shaken, crowded>>

PickId(s) ==
  /\ Moves(s, "pick", "lookup")
  /\ kid' = [kid EXCEPT ![s] = idx]
  /\ UNCHANGED <<pool, idx, fill, emp, count, agreed, made, restarts, shaken, crowded>>

\* getEmpKey: the RP's login fails with the 404.
Lookup(s) ==
  /\ Moves(s, "lookup", IF kid[s] \in DOMAIN pool THEN "count" ELSE "notFound")
  /\ emp' = IF kid[s] \in DOMAIN pool THEN [emp EXCEPT ![s] = pool[kid[s]]] ELSE emp
  /\ UNCHANGED <<pool, idx, fill, kid, count, agreed, made, restarts, shaken, crowded>>

\* EmpKeyIdx++ reads, then writes.
CountRead(s) ==
  /\ Moves(s, "count", "countWrite")
  /\ count' = [count EXCEPT ![s] = idx]
  /\ UNCHANGED <<pool, idx, fill, kid, emp, agreed, made, restarts, shaken, crowded>>

\* The answer with the key; the RP derives K_S from it (attachE2EE).
CountWrite(s) ==
  /\ Moves(s, "countWrite", "held")
  /\ idx' = count[s] + 1
  /\ UNCHANGED <<pool, fill, kid, emp, count, agreed, made, restarts, shaken, crowded>>

-----------------------------------------------------------------------------
(* getSessionKey of the token request, and restarts.                       *)

Accept(s) ==
  /\ Moves(s, "held", "accepted")
  /\ kid[s] \in DOMAIN pool
  /\ Confirms(s, pool[kid[s]])
  /\ agreed' = [agreed EXCEPT ![s] = {SessionKeyOfIdP(s, pool[kid[s]])}]
  /\ UNCHANGED <<pool, idx, fill, kid, emp, count, made, restarts, shaken, crowded>>

Refuse(s) ==
  /\ Moves(s, "held", "refused")
  /\ kid[s] \in DOMAIN pool => ~Confirms(s, pool[kid[s]])
  /\ UNCHANGED <<pool, idx, fill, kid, emp, count, agreed, made, restarts, shaken, crowded>>

\* The pool is in memory only: an IdP that restarts starts with an empty one.
IdPRestart ==
  /\ restarts < MaxRestarts
  /\ restarts' = restarts + 1
  /\ pool' = [i \in {} |-> NoKey]
  /\ idx'  = 0
  /\ pc'   = [s \in Sessions |-> IF pc[s] \in Handling THEN "failed" ELSE pc[s]]
  /\ shaken' = shaken \cup InFlight
  /\ UNCHANGED <<fill, kid, emp, count, agreed, made, crowded>>

HandlerStep(s) ==
  \/ CheckPool(s) \/ MakePool(s) \/ ResetIndex(s) \/ AddKey(s)
  \/ CheckIndex(s) \/ Rewind(s) \/ PickId(s) \/ Lookup(s) \/ CountRead(s) \/ CountWrite(s)

Next == (\E s \in Sessions : HandlerStep(s) \/ Accept(s) \/ Refuse(s)) \/ IdPRestart

Spec == Init /\ [][Next]_vars

-----------------------------------------------------------------------------
(* Properties.                                                             *)

Outcomes == {"accepted", "refused", "notFound", "failed"}

\* Every variable has its type (AAKEKeyStore, AAKEEphemeralKey, e2eeData).
TypeOK ==
  /\ DOMAIN pool \subseteq 0..(PoolSize - 1)
  /\ \A i \in DOMAIN pool : \E n \in 1..made : pool[i] = EmpKey(n)
  /\ idx \in Nat
  /\ pc \in [Sessions -> {"idle", "held"} \cup Handling \cup Outcomes]
  /\ fill \in [Sessions -> 0..PoolSize]
  /\ \A s \in Sessions : pc[s] = "fill" => fill[s] < PoolSize
  /\ kid \in [Sessions -> Nat]
  /\ DOMAIN emp = Sessions /\ \A s \in Sessions : \E n \in 0..made : emp[s] = EmpKey(n)
  /\ count \in [Sessions -> Nat]
  /\ DOMAIN agreed = Sessions
  /\ made \in Nat
  /\ restarts \in 0..MaxRestarts
  /\ shaken \subseteq Sessions /\ crowded \subseteq Sessions

\* When the IdP accepts, it holds the very key the RP derived (attachE2EE and
\* getSessionKey): a pool entry that changed under the session never yields another.
ConfirmedSameKey ==
  \A s \in Sessions : pc[s] = "accepted" => agreed[s] = {SessionKeyOfRP(s)}

\* A login is only refused here if, since its handler began, the IdP restarted or
\* another handler was filling the pool (the map and its keys are shared unlocked).
RefusedOnlyIfShaken == \A s \in Sessions : pc[s] = "refused" => s \in shaken

\* A request for an ephemeral key that no other one overlaps gets one, wherever
\* earlier races have left the index (the wrap-around of handleGetIdPEmpKey).
LoneRequestServed == \A s \in Sessions : pc[s] = "notFound" => s \in crowded

=============================================================================
