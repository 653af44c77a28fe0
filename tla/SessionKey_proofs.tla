------------------------- MODULE SessionKey_proofs -------------------------
(***************************************************************************)
(* Theorems about SessionKey, for any number of sessions, any size of the  *)
(* pool and any number of restarts: type correctness, that the IdP accepts *)
(* only the RP's own K_S, that it refuses only a session under which the   *)
(* pool was changed, and that a request nobody overlaps gets a key.        *)
(***************************************************************************)
EXTENDS SessionKey, FiniteSetTheorems, TLAPS

States  == {"idle", "held"} \cup Handling \cup Outcomes

Keyed == {EmpKey(n) : n \in 0..made}

\* A handler has put nothing into the pool before it fills it.
Unfilled == \A s \in Sessions : pc[s] \in {"idle", "make", "reset"} => fill[s] = 0

TInv == TypeOK /\ Unfilled

LEMMA InitTInv == Init => TInv
  BY PoolAssumption, BoundAssumption
  DEF Init, TInv, TypeOK, Unfilled, NoKey, EmpKey, Handling, Filling

LEMMA NextTInv == TInv /\ [Next]_vars => TInv'
<1> SUFFICES ASSUME TInv, [Next]_vars PROVE TInv'
  OBVIOUS
<1> USE DEF TInv, Unfilled, Handling, Filling, Outcomes, Moves
<1>1. ASSUME NEW s \in Sessions, CheckPool(s) PROVE TInv'
  BY <1>1 DEF CheckPool, TypeOK, InHandler
<1>2. ASSUME NEW s \in Sessions, MakePool(s) PROVE TInv'
  BY <1>2 DEF MakePool, TypeOK, Shakes, InFlight
<1>3. ASSUME NEW s \in Sessions, ResetIndex(s) PROVE TInv'
  BY <1>3, PoolAssumption DEF ResetIndex, TypeOK
<1>4. ASSUME NEW s \in Sessions, AddKey(s) PROVE TInv'
  <2>1. /\ fill[s] \in 0..PoolSize - 1
        /\ fill'[s] = fill[s] + 1 /\ pc'[s] = (IF fill[s] + 1 = PoolSize THEN "wrap" ELSE "fill")
    BY <1>4, PoolAssumption DEF AddKey, TypeOK
  <2>2. made' = made + 1 /\ made' \in Nat
    BY <1>4 DEF AddKey, TypeOK
  <2>3. DOMAIN pool' \subseteq 0..(PoolSize - 1)
    BY <1>4, <2>1 DEF AddKey, TypeOK
  <2>4. \A i \in DOMAIN pool' : \E n \in 1..made' : pool'[i] = EmpKey(n)
    BY <1>4, <2>2 DEF AddKey, TypeOK
  <2>5. /\ fill' \in [Sessions -> 0..PoolSize]
        /\ \A t \in Sessions : pc'[t] = "fill" => fill'[t] < PoolSize
    BY <1>4, <2>1, PoolAssumption DEF AddKey, TypeOK
  <2>6. DOMAIN emp' = Sessions /\ \A t \in Sessions : \E n \in 0..made' : emp'[t] = EmpKey(n)
    BY <1>4, <2>2 DEF AddKey, TypeOK
  <2>7. pc' \in [Sessions -> States]
    BY <1>4 DEF AddKey, TypeOK, States
  <2>8. Unfilled'
    BY <1>4, <2>1 DEF AddKey, TypeOK
  <2> QED
    BY <1>4, <2>2, <2>3, <2>4, <2>5, <2>6, <2>7, <2>8
    DEF AddKey, TypeOK, Shakes, InFlight, States
<1>5. ASSUME NEW s \in Sessions, CheckIndex(s) PROVE TInv'
  BY <1>5 DEF CheckIndex, TypeOK
<1>6. ASSUME NEW s \in Sessions, Rewind(s) PROVE TInv'
  BY <1>6 DEF Rewind, TypeOK
<1>7. ASSUME NEW s \in Sessions, PickId(s) PROVE TInv'
  BY <1>7 DEF PickId, TypeOK
<1>8. ASSUME NEW s \in Sessions, Lookup(s) PROVE TInv'
  <2>1. DOMAIN emp' = Sessions /\ \A t \in Sessions : \E n \in 0..made : emp'[t] = EmpKey(n)
    BY <1>8 DEF Lookup, TypeOK
  <2> QED
    BY <1>8, <2>1 DEF Lookup, TypeOK
<1>9. ASSUME NEW s \in Sessions, CountRead(s) PROVE TInv'
  BY <1>9 DEF CountRead, TypeOK
<1>10. ASSUME NEW s \in Sessions, CountWrite(s) PROVE TInv'
  BY <1>10 DEF CountWrite, TypeOK
<1>11. ASSUME NEW s \in Sessions, Accept(s) \/ Refuse(s) PROVE TInv'
  BY <1>11 DEF Accept, Refuse, TypeOK
<1>12. CASE IdPRestart
  BY <1>12, BoundAssumption DEF IdPRestart, TypeOK, InFlight
<1>13. CASE UNCHANGED vars
  BY <1>13 DEF vars, TypeOK
<1> QED
  BY <1>1, <1>2, <1>3, <1>4, <1>5, <1>6, <1>7, <1>8, <1>9, <1>10, <1>11, <1>12, <1>13
  DEF Next, HandlerStep

LEMMA TInvInvariant == Spec => []TInv
  BY InitTInv, NextTInv, PTL DEF Spec

\* Every reachable state is well typed: no handler fills the pool past its size or
\* hands out a key that was not made (TypeOK).
THEOREM TypeCorrect == Spec => []TypeOK
  BY TInvInvariant, PTL DEF TInv

(***************************************************************************)
(* The two sides agree.                                                    *)
(***************************************************************************)

\* X3DH: with the same ephemeral key both sides derive the same K_S, and the
\* confirmation opens.
LEMMA SameKey ==
  ASSUME NEW s \in Sessions
  PROVE  /\ SessionKeyOfIdP(s, emp[s]) = SessionKeyOfRP(s)
         /\ Confirms(s, emp[s])
<1>1. SessionKeyOfIdP(s, emp[s]) = SessionKeyOfRP(s)
  <2>1. \A a, b : DH(a, b) = DH(b, a)
    BY DEF DH
  <2> QED
    BY <2>1 DEF SessionKeyOfIdP, SessionKeyOfRP, DeriveSessionKey
<1> QED
  BY <1>1 DEF Confirms, Opens, Confirmation, AesGcmEncrypt

\* A confirmation names the ephemeral key the RP used.
LEMMA ConfirmedEmpKey ==
  ASSUME NEW s \in Sessions, NEW e, Confirms(s, e)
  PROVE  e = emp[s]
  BY DEF Confirms, Confirmation, AesGcmEncrypt

\* A step of one session leaves the others as they are; a restart of the IdP ends
\* those with a handler.
LEMMA Others ==
  ASSUME TInv, [Next]_vars, NEW t \in Sessions
  PROVE  \/ HandlerStep(t) \/ Accept(t) \/ Refuse(t)
         \/ /\ UNCHANGED <<fill[t], kid[t], emp[t], count[t], agreed[t]>>
            /\ pc'[t] = pc[t] \/ pc'[t] = "failed"
            /\ pc'[t] = "failed" => pc[t] \in {"failed"} \cup Handling
<1> USE DEF TInv, TypeOK
<1>1. ASSUME NEW s \in Sessions, s # t, HandlerStep(s)
      PROVE  UNCHANGED <<pc[t], fill[t], kid[t], emp[t], count[t], agreed[t]>>
  BY <1>1 DEF HandlerStep, Moves, CheckPool, MakePool, ResetIndex, AddKey, CheckIndex, Rewind,
              PickId, Lookup, CountRead, CountWrite
<1>2. ASSUME NEW s \in Sessions, s # t, Accept(s) \/ Refuse(s)
      PROVE  UNCHANGED <<pc[t], fill[t], kid[t], emp[t], count[t], agreed[t]>>
  BY <1>2 DEF Moves, Accept, Refuse
<1>3. ASSUME IdPRestart
      PROVE  /\ UNCHANGED <<fill[t], kid[t], emp[t], count[t], agreed[t]>>
             /\ pc'[t] = IF pc[t] \in Handling THEN "failed" ELSE pc[t]
  BY <1>3 DEF IdPRestart
<1>4. ASSUME UNCHANGED vars
      PROVE  UNCHANGED <<pc[t], fill[t], kid[t], emp[t], count[t], agreed[t]>>
  BY <1>4 DEF vars
<1>5. UNCHANGED pc[t] \/ pc'[t] = (IF pc[t] \in Handling THEN "failed" ELSE pc[t])
      => /\ pc'[t] = pc[t] \/ pc'[t] = "failed"
         /\ pc'[t] = "failed" => pc[t] \in {"failed"} \cup Handling
  OBVIOUS
<1>6. CASE \E s \in Sessions : HandlerStep(s) \/ Accept(s) \/ Refuse(s)
  <2>1. PICK s \in Sessions : HandlerStep(s) \/ Accept(s) \/ Refuse(s)
    BY <1>6
  <2>2. CASE s = t
    BY <2>1, <2>2
  <2>3. CASE s # t
    <3>1. UNCHANGED <<pc[t], fill[t], kid[t], emp[t], count[t], agreed[t]>>
      BY <1>1, <1>2, <2>1, <2>3
    <3>2. UNCHANGED pc[t]
      BY <3>1
    <3> QED
      BY <1>5, <3>1, <3>2
  <2> QED
    BY <2>2, <2>3
<1>7. CASE IdPRestart \/ UNCHANGED vars
  <2>1. UNCHANGED <<fill[t], kid[t], emp[t], count[t], agreed[t]>>
    BY <1>3, <1>4, <1>7
  <2>2. UNCHANGED pc[t] \/ pc'[t] = IF pc[t] \in Handling THEN "failed" ELSE pc[t]
    BY <1>3, <1>4, <1>7
  <2> QED
    BY <1>5, <2>1, <2>2
<1> QED
  BY <1>6, <1>7 DEF Next

LEMMA NextConfirmed == TInv /\ ConfirmedSameKey /\ [Next]_vars => ConfirmedSameKey'
<1> SUFFICES ASSUME TInv, ConfirmedSameKey, [Next]_vars,
                    NEW t \in Sessions, pc'[t] = "accepted"
             PROVE  agreed'[t] = {SessionKeyOfRP(t)'}
  BY DEF ConfirmedSameKey
<1> USE DEF Moves, TInv, TypeOK
<1>1. CASE Accept(t)
  <2>1. pool[kid[t]] = emp[t]
    BY <1>1, ConfirmedEmpKey DEF Accept
  <2>2. agreed'[t] = {SessionKeyOfRP(t)}
    BY <1>1, <2>1, SameKey DEF Accept
  <2> QED
    BY <1>1, <2>2 DEF Accept, SessionKeyOfRP
<1>2. ~HandlerStep(t) /\ ~Refuse(t)
  BY DEF HandlerStep, CheckPool, MakePool, ResetIndex, AddKey, CheckIndex,
         Rewind, PickId, Lookup, CountRead, CountWrite, Refuse
<1>3. CASE ~Accept(t)
  <2>1. pc[t] = "accepted" /\ agreed'[t] = agreed[t] /\ emp'[t] = emp[t]
    BY <1>2, <1>3, Others
  <2> QED
    BY <2>1 DEF ConfirmedSameKey, SessionKeyOfRP
<1> QED
  BY <1>1, <1>3

\* When the IdP accepts a login it holds the K_S the RP derived, whatever other
\* handlers did to the pool between the two (ConfirmedSameKey).
THEOREM AcceptedKeysAgree == Spec => []ConfirmedSameKey
<1>1. Init => ConfirmedSameKey
  BY DEF Init, ConfirmedSameKey
<1> QED
  BY <1>1, NextConfirmed, TInvInvariant, PTL DEF Spec

(***************************************************************************)
(* A refusal has a cause.                                                  *)
(***************************************************************************)

\* Sessions that have been given the key of their id.
Given == {"count", "countWrite", "held"}

\* The pool still holds what it gave a session, unless it was changed under it.
StillThere ==
  \A s \in Sessions : pc[s] \in Given /\ s \notin shaken =>
    kid[s] \in DOMAIN pool /\ pool[kid[s]] = emp[s]

RInv == StillThere /\ RefusedOnlyIfShaken

\* Whoever changes the pool shakes all sessions that have been given a key.
LEMMA PoolChange ==
  ASSUME TInv, [Next]_vars, NEW t \in Sessions, pc[t] \in Given, t \notin shaken'
  PROVE  pool' = pool
<1> USE DEF Given, Handling, Filling, Moves
<1>1. t \in InFlight
  BY DEF InFlight
<1>2. ASSUME NEW s \in Sessions, MakePool(s) \/ AddKey(s) PROVE FALSE
  BY <1>1, <1>2 DEF MakePool, AddKey, Shakes
<1>3. ~IdPRestart
  BY <1>1 DEF IdPRestart
<1> QED
  BY <1>2, <1>3 DEF Next, HandlerStep, CheckPool, ResetIndex, CheckIndex, Rewind, PickId,
                    Lookup, CountRead, CountWrite, Accept, Refuse, vars

LEMMA ShakenGrows == [Next]_vars => shaken \subseteq shaken'
  BY DEF Next, HandlerStep, CheckPool, MakePool, ResetIndex, AddKey, CheckIndex, Rewind, PickId,
         Lookup, CountRead, CountWrite, Accept, Refuse, IdPRestart, Shakes, vars

LEMMA NextRInv == TInv /\ RInv /\ [Next]_vars => RInv'
<1> SUFFICES ASSUME TInv, RInv, [Next]_vars, NEW t \in Sessions, t \notin shaken'
             PROVE  /\ pc'[t] # "refused"
                    /\ pc'[t] \in Given => kid'[t] \in DOMAIN pool' /\ pool'[kid'[t]] = emp'[t]
  BY DEF RInv, StillThere, RefusedOnlyIfShaken
<1>1. t \notin shaken
  BY ShakenGrows
<1> USE DEF Moves, TInv, TypeOK
<1>2. CASE HandlerStep(t)
  <2>1. pc'[t] # "refused"
    BY <1>2 DEF HandlerStep, CheckPool, MakePool, ResetIndex, AddKey, CheckIndex, Rewind, PickId,
                Lookup, CountRead, CountWrite
  <2>2. CASE Lookup(t)
    BY <2>1, <2>2 DEF Lookup, Given
  <2>3. CASE CountRead(t) \/ CountWrite(t)
    BY <1>1, <2>1, <2>3 DEF CountRead, CountWrite, RInv, StillThere, Given
  <2>4. CASE ~Lookup(t) /\ ~CountRead(t) /\ ~CountWrite(t)
    BY <1>2, <2>1, <2>4 DEF HandlerStep, CheckPool, MakePool, ResetIndex, AddKey, CheckIndex,
                            Rewind, PickId, Given
  <2> QED
    BY <2>2, <2>3, <2>4
<1>3. CASE Accept(t)
  BY <1>3 DEF Accept, Given
<1>4. ~Refuse(t)
  BY <1>1, SameKey DEF Refuse, RInv, StillThere, Given
<1>5. CASE ~HandlerStep(t) /\ ~Accept(t)
  <2>1. /\ UNCHANGED <<kid[t], emp[t]>>
        /\ pc'[t] = pc[t] \/ pc'[t] = "failed"
    BY <1>4, <1>5, Others
  <2>2. pc'[t] \in Given => pool' = pool
    BY <2>1, PoolChange DEF Given
  <2> QED
    BY <1>1, <2>1, <2>2 DEF RInv, StillThere, RefusedOnlyIfShaken, Given
<1> QED
  BY <1>2, <1>3, <1>5

\* The IdP refuses a login's key only if the IdP restarted or another handler was
\* filling the pool under it (RefusedOnlyIfShaken).
THEOREM RefusalsHaveACause == Spec => []RefusedOnlyIfShaken
<1>1. Init => RInv
  BY DEF Init, RInv, StillThere, RefusedOnlyIfShaken, Given
<1>2. RInv => RefusedOnlyIfShaken
  BY DEF RInv
<1> QED
  BY <1>1, <1>2, NextRInv, TInvInvariant, PTL DEF Spec

(***************************************************************************)
(* A request that nobody overlaps.                                         *)
(***************************************************************************)

Fillers == {s \in Sessions : pc[s] \in {"reset", "fill"}}

Whole == DOMAIN pool = 0..(PoolSize - 1)

\* The handler that emptied the pool last fills it from the beginning.
PoolShape ==
  IF Fillers = {} THEN DOMAIN pool = {} \/ Whole
  ELSE \E b \in Fillers : 0..(fill[b] - 1) \subseteq DOMAIN pool

\* A handler that runs alone finds the pool whole and an index inside it.
Alone(s) ==
  /\ InHandler = {s}
  /\ pc[s] \notin Filling => Whole
  /\ pc[s] = "pick" => idx \in 0..(PoolSize - 1)
  /\ pc[s] = "lookup" => kid[s] \in 0..(PoolSize - 1)

LInv ==
  /\ PoolShape
  /\ \A s \in Sessions : pc[s] \in Handling /\ s \notin crowded => Alone(s)
  /\ LoneRequestServed

LEMMA WholeSize == Whole => Cardinality(DOMAIN pool) = PoolSize
  BY PoolAssumption, FS_Interval DEF Whole

LEMMA NextShape == TInv /\ PoolShape /\ [Next]_vars => PoolShape'
<1> SUFFICES ASSUME TInv, PoolShape, [Next]_vars PROVE PoolShape'
  OBVIOUS
<1> USE DEF TInv, TypeOK, Moves
<1>1. ASSUME NEW s \in Sessions, MakePool(s) PROVE PoolShape'
  <2>1. s \in Fillers' /\ fill'[s] = 0
    BY <1>1 DEF MakePool, Fillers, Unfilled
  <2> QED
    BY <2>1 DEF PoolShape
<1>2. ASSUME NEW s \in Sessions, ResetIndex(s) PROVE PoolShape'
  <2>1. Fillers' = Fillers /\ UNCHANGED <<fill, pool>>
    BY <1>2 DEF ResetIndex, Fillers
  <2> QED
    BY <2>1 DEF PoolShape, Whole
<1>3. ASSUME NEW s \in Sessions, AddKey(s) PROVE PoolShape'
  <2>1. /\ DOMAIN pool' = DOMAIN pool \cup {fill[s]}
        /\ fill' = [fill EXCEPT ![s] = fill[s] + 1]
        /\ fill[s] \in 0..(PoolSize - 1)
        /\ s \in Fillers
    BY <1>3, PoolAssumption DEF AddKey, Fillers
  <2>2. PICK b \in Fillers : 0..(fill[b] - 1) \subseteq DOMAIN pool
    BY <2>1 DEF PoolShape
  <2>3. 0..(fill'[b] - 1) \subseteq DOMAIN pool'
    BY <2>1, <2>2 DEF Fillers
  <2>4. Fillers' = IF fill[s] + 1 = PoolSize THEN Fillers \ {s} ELSE Fillers
    BY <1>3 DEF AddKey, Fillers
  <2>5. CASE b \in Fillers'
    BY <2>3, <2>5 DEF PoolShape
  <2>6. CASE b \notin Fillers'
    <3>1. fill'[b] = PoolSize
      BY <2>1, <2>2, <2>4, <2>6 DEF Fillers
    <3>2. DOMAIN pool' = 0..(PoolSize - 1)
      BY <2>1, <2>3, <3>1, PoolAssumption
    <3>3. \A c \in Fillers' : fill'[c] \in 0..PoolSize
      BY <2>1, PoolAssumption DEF Fillers
    <3>4. \A c \in Fillers' : 0..(fill'[c] - 1) \subseteq DOMAIN pool'
      BY <3>2, <3>3, PoolAssumption
    <3> QED
      BY <3>2, <3>4 DEF PoolShape, Whole
  <2> QED
    BY <2>5, <2>6
<1>4. ASSUME NEW s \in Sessions,
             \/ CheckPool(s) \/ CheckIndex(s) \/ Rewind(s) \/ PickId(s)
             \/ Lookup(s) \/ CountRead(s) \/ CountWrite(s) \/ Accept(s) \/ Refuse(s)
      PROVE  PoolShape'
  <2>1. Fillers' = Fillers /\ UNCHANGED <<fill, pool>>
    BY <1>4 DEF CheckPool, CheckIndex, Rewind, PickId, Lookup, CountRead, CountWrite,
                Accept, Refuse, Fillers
  <2> QED
    BY <2>1 DEF PoolShape, Whole
<1>5. CASE IdPRestart
  <2>1. Fillers' = {} /\ DOMAIN pool' = {}
    BY <1>5 DEF IdPRestart, Fillers, Handling, Filling
  <2> QED
    BY <2>1 DEF PoolShape
<1>6. CASE UNCHANGED vars
  BY <1>6 DEF vars, PoolShape, Fillers, Whole
<1> QED
  BY <1>1, <1>2, <1>3, <1>4, <1>5, <1>6 DEF Next, HandlerStep

\* While a handler that nothing has overlapped runs, no other one does.
LEMMA NextAlone ==
  ASSUME TInv, LInv, [Next]_vars, NEW s \in Sessions,
         pc'[s] \in Handling, s \notin crowded'
  PROVE  InHandler' = {s}
<1> USE DEF TInv, TypeOK, Moves
<1>1. CASE pc[s] \notin Handling
  <2>1. CheckPool(s)
    <3>1. ~Accept(s) /\ ~Refuse(s)
      BY DEF Accept, Refuse, Handling, Filling
    <3>2. HandlerStep(s)
      BY <1>1, <3>1, Others DEF Handling, Filling
    <3> QED
      BY <1>1, <3>2 DEF HandlerStep, MakePool, ResetIndex, AddKey, CheckIndex, Rewind, PickId,
                        Lookup, CountRead, CountWrite, Handling, Filling
  <2>2. InHandler = {}
    BY <2>1 DEF CheckPool
  <2> QED
    BY <2>1, <2>2 DEF CheckPool, InHandler, Handling, Filling
<1>2. CASE pc[s] \in Handling
  <2>1. s \notin crowded
    BY DEF Next, HandlerStep, CheckPool, MakePool, ResetIndex, AddKey, CheckIndex, Rewind, PickId,
           Lookup, CountRead, CountWrite, Accept, Refuse, IdPRestart, vars
  <2>2. InHandler = {s}
    BY <1>2, <2>1 DEF LInv, Alone
  <2>3. ASSUME NEW t \in Sessions, t # s, pc'[t] \in Handling PROVE FALSE
    <3>1. pc[t] \notin Handling
      BY <2>2, <2>3 DEF InHandler
    <3>2. ~Accept(t) /\ ~Refuse(t)
      BY <2>3 DEF Accept, Refuse, Handling, Filling
    <3>3. HandlerStep(t)
      BY <2>3, <3>1, <3>2, Others DEF Handling, Filling
    <3>4. CheckPool(t)
      BY <3>1, <3>3 DEF HandlerStep, MakePool, ResetIndex, AddKey, CheckIndex, Rewind, PickId,
                        Lookup, CountRead, CountWrite, Handling, Filling
    <3> QED
      BY <2>2, <3>4 DEF CheckPool
  <2> QED
    BY <2>3 DEF InHandler
<1> QED
  BY <1>1, <1>2

\* A step of somebody else does not touch the pool or the index.
LEMMA Untouched ==
  ASSUME TInv, [Next]_vars, NEW s \in Sessions, InHandler = {s},
         pc'[s] \in Handling, ~HandlerStep(s)
  PROVE  UNCHANGED <<pool, idx, kid[s], pc[s]>>
<1> USE DEF TInv, TypeOK, Moves, Handling, Filling, InHandler
<1>1. ~Accept(s) /\ ~Refuse(s)
  BY DEF Accept, Refuse
<1>2. UNCHANGED <<kid[s], pc[s]>>
  BY <1>1, Others
<1>3. ~IdPRestart
  BY DEF IdPRestart
<1>4. ASSUME NEW t \in Sessions, HandlerStep(t) PROVE UNCHANGED <<pool, idx>>
  <2>1. pc[t] \notin {"make", "reset", "fill", "wrap", "rewind", "pick", "lookup", "count",
                     "countWrite"}
    BY <1>4
  <2>2. CheckPool(t)
    BY <1>4, <2>1 DEF HandlerStep, MakePool, ResetIndex, AddKey, CheckIndex, Rewind, PickId,
                      Lookup, CountRead, CountWrite
  <2> QED
    BY <2>2 DEF CheckPool
<1>5. ASSUME NEW t \in Sessions, Accept(t) \/ Refuse(t) PROVE UNCHANGED <<pool, idx>>
  BY <1>5 DEF Accept, Refuse
<1> QED
  BY <1>2, <1>3, <1>4, <1>5 DEF Next, vars

LEMMA NextLInv == TInv /\ LInv /\ [Next]_vars => LInv'
<1> SUFFICES ASSUME TInv, LInv, [Next]_vars PROVE LInv'
  OBVIOUS
<1>1. PoolShape'
  BY NextShape DEF LInv
<1>2. crowded \subseteq crowded'
  BY DEF Next, HandlerStep, CheckPool, MakePool, ResetIndex, AddKey, CheckIndex, Rewind, PickId,
         Lookup, CountRead, CountWrite, Accept, Refuse, IdPRestart, vars
<1> USE DEF TInv, TypeOK, Moves, Handling, Filling
<1>3. ASSUME NEW s \in Sessions, pc'[s] \in Handling, s \notin crowded' PROVE Alone(s)'
  <2>1. InHandler' = {s}
    BY <1>3, NextAlone
  <2>2. s \notin crowded /\ pc[s] \in Handling => Alone(s)
    BY DEF LInv
  <2>3. pc[s] \in Handling => InHandler = {s} /\ (pc[s] \notin Filling => Whole)
    BY <1>2, <1>3, <2>2 DEF Alone
  <2>4. CASE CheckPool(s)
    <3>1. InHandler = {}
      BY <1>3, <2>4 DEF CheckPool
    <3>2. Fillers = {}
      BY <3>1 DEF Fillers, InHandler
    <3>3. pc'[s] \notin Filling => Whole'
      BY <2>4, <3>2 DEF CheckPool, LInv, PoolShape, Whole
    <3> QED
      BY <2>1, <2>4, <3>3 DEF CheckPool, Alone
  <2>5. CASE MakePool(s) \/ ResetIndex(s)
    BY <2>1, <2>5 DEF MakePool, ResetIndex, Alone
  <2>6. CASE AddKey(s)
    <3>1. pc'[s] \notin Filling => Fillers' = {}
      BY <2>1 DEF Fillers, InHandler
    <3>2. DOMAIN pool' # {}
      BY <2>6 DEF AddKey
    <3>3. pc'[s] \notin Filling => Whole'
      BY <1>1, <3>1, <3>2 DEF PoolShape
    <3> QED
      BY <2>1, <2>6, <3>3 DEF AddKey, Alone
  <2>7. CASE CheckIndex(s)
    <3>1. Whole
      BY <2>3, <2>7 DEF CheckIndex
    <3>2. ~PastTheEnd => idx \in 0..(PoolSize - 1)
      BY <3>1, WholeSize, PoolAssumption DEF PastTheEnd
    <3> QED
      BY <2>1, <2>7, <3>1, <3>2 DEF CheckIndex, Alone, Whole
  <2>8. CASE Rewind(s)
    <3>1. Whole
      BY <2>3, <2>8 DEF Rewind
    <3> QED
      BY <2>1, <2>8, <3>1, PoolAssumption DEF Rewind, Alone, Whole
  <2>9. CASE PickId(s)
    <3>1. Alone(s)
      BY <1>2, <1>3, <2>2, <2>9 DEF PickId
    <3> QED
      BY <2>1, <2>9, <3>1 DEF PickId, Alone, Whole
  <2>10. CASE Lookup(s) \/ CountRead(s)
    <3>1. Whole /\ UNCHANGED pool
      BY <2>3, <2>10 DEF Lookup, CountRead
    <3>2. pc'[s] \in {"count", "countWrite", "notFound"}
      BY <2>10 DEF Lookup, CountRead
    <3> QED
      BY <2>1, <3>1, <3>2 DEF Alone, Whole
  <2>11. CASE ~HandlerStep(s)
    <3>1. ~Accept(s) /\ ~Refuse(s)
      BY <1>3 DEF Accept, Refuse
    <3>2. pc[s] \in Handling
      BY <1>3, <2>11, <3>1, Others
    <3>3. Alone(s) /\ InHandler = {s}
      BY <1>2, <1>3, <2>2, <3>2 DEF Alone
    <3>4. UNCHANGED <<pool, idx, kid[s], pc[s]>>
      BY <1>3, <2>11, <3>3, Untouched
    <3> QED
      BY <2>1, <3>3, <3>4 DEF Alone, Whole
  <2>12. ~CountWrite(s)
    BY <1>3 DEF CountWrite
  <2> QED
    BY <2>4, <2>5, <2>6, <2>7, <2>8, <2>9, <2>10, <2>11, <2>12 DEF HandlerStep
<1>4. ASSUME NEW s \in Sessions, pc'[s] = "notFound", s \notin crowded' PROVE FALSE
  <2>1. pc[s] # "notFound"
    BY <1>2, <1>4 DEF LInv, LoneRequestServed
  <2>2. ~Accept(s) /\ ~Refuse(s)
    BY <1>4 DEF Accept, Refuse
  <2>3. HandlerStep(s)
    BY <1>4, <2>1, <2>2, Others
  <2>4. Lookup(s) /\ kid[s] \notin DOMAIN pool
    BY <1>4, <2>3 DEF HandlerStep, CheckPool, MakePool, ResetIndex, AddKey, CheckIndex, Rewind,
                      PickId, Lookup, CountRead, CountWrite
  <2>5. Alone(s)
    BY <1>2, <1>4, <2>4 DEF Lookup, LInv
  <2> QED
    BY <2>4, <2>5 DEF Lookup, Alone, Whole
<1> QED
  BY <1>1, <1>3, <1>4 DEF LInv, LoneRequestServed

\* A request for an ephemeral key that no other one overlaps gets one, wherever
\* earlier races have left the pool and the index (LoneRequestServed).
THEOREM LoneRequestsServed == Spec => []LoneRequestServed
<1>1. Init => LInv
  BY DEF Init, LInv, PoolShape, Fillers, LoneRequestServed, Handling, Filling
<1>2. LInv => LoneRequestServed
  BY DEF LInv
<1> QED
  BY <1>1, <1>2, NextLInv, TInvInvariant, PTL DEF Spec
=============================================================================
