--------------------------- MODULE RefreshService ---------------------------
(***************************************************************************)
(* What the token-refresh path promises an RP, with no ratchet and no      *)
(* relay in it: the IdP mints numbered access tokens, each in answer to    *)
(* one request, and an RP only ever takes a token that was minted for the  *)
(* request it is answering and that is newer than every token it took      *)
(* before.  A token may be minted and never taken.                         *)
(***************************************************************************)
EXTENDS Naturals

CONSTANTS Requests,  \* identities of refresh requests
          RPs,       \* relying parties
          Nil        \* "no RP has made this request yet"

VARIABLES asker,     \* asker[q]: the RP that made request q, or Nil
          minted,    \* minted[q]: the token minted for q, 0 if none
          issued,    \* how many tokens have been minted
          held       \* held[r]: the newest token r has taken, 0 if none

svars == <<asker, minted, issued, held>>

Init == /\ asker  = [q \in Requests |-> Nil]
        /\ minted = [q \in Requests |-> 0]
        /\ issued = 0
        /\ held   = [r \in RPs |-> 0]

Ask(q, r) == /\ asker[q] = Nil
             /\ asker' = [asker EXCEPT ![q] = r]
             /\ UNCHANGED <<minted, issued, held>>

Mint(q) == /\ asker[q] # Nil
           /\ minted[q] = 0
           /\ issued' = issued + 1
           /\ minted' = [minted EXCEPT ![q] = issued']
           /\ UNCHANGED <<asker, held>>

Take(q) == /\ asker[q] # Nil
           /\ minted[q] > held[asker[q]]
           /\ held' = [held EXCEPT ![asker[q]] = minted[q]]
           /\ UNCHANGED <<asker, minted, issued>>

Next == \E q \in Requests : Mint(q) \/ Take(q) \/ \E r \in RPs : Ask(q, r)

Spec == Init /\ [][Next]_svars
=============================================================================
