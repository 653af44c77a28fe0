---------------------------- MODULE ConsentTicket ----------------------------
(***************************************************************************)
(* What a login promises: each consent is a ticket that a user fills in at *)
(* the IdP and that admits that user, and nobody else, to the RP at most   *)
(* once.  A ticket may be filled in and never used, and the RP may forget  *)
(* whom it admitted.                                                       *)
(***************************************************************************)
EXTENDS Naturals

CONSTANTS Consents,  \* consents that may be asked for
          Users,     \* users of the IdP
          Nil        \* "nobody"

VARIABLES granted,   \* granted[c]: who gave consent c, or Nil
          uses,      \* uses[c]: how often c has been used
          who        \* whom the RP has admitted in this browser, or Nil

tvars == <<granted, uses, who>>

Init == /\ granted = [c \in Consents |-> Nil]
        /\ uses    = [c \in Consents |-> 0]
        /\ who     = Nil

Grant(c, u) == /\ granted[c] = Nil
               /\ granted' = [granted EXCEPT ![c] = u]
               /\ UNCHANGED <<uses, who>>

Admit(c) == /\ granted[c] # Nil
            /\ uses[c] = 0
            /\ uses' = [uses EXCEPT ![c] = 1]
            /\ who'  = granted[c]
            /\ UNCHANGED granted

Forget == who' = Nil /\ UNCHANGED <<granted, uses>>

Next == Forget \/ \E c \in Consents : Admit(c) \/ \E u \in Users : Grant(c, u)

Spec == Init /\ [][Next]_tvars
=============================================================================
