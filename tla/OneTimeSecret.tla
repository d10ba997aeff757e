--------------------------- MODULE OneTimeSecret ---------------------------
(***************************************************************************)
(* What a secret that the site hands out promises: it is spent at most      *)
(* once, by one holder, and never after it was closed.  The claim links of  *)
(* ListingClaims and the mails and logins of SignIn implement this.         *)
(***************************************************************************)
CONSTANTS
  Secret,   \* the secrets that may be handed out
  Holder,   \* who may spend one
  Nobody    \* the holder of a secret that is not spent

VARIABLES state, holder

secretVars == <<state, holder>>

Init ==
  /\ state = [s \in Secret |-> "unissued"]
  /\ holder = [s \in Secret |-> Nobody]

\* A new secret may supersede earlier ones.
Issue(s) ==
  /\ state[s] = "unissued"
  /\ \E old \in SUBSET {o \in Secret : state[o] = "open"} :
       state' = [o \in Secret |-> IF o = s THEN "open"
                                 ELSE IF o \in old THEN "closed" ELSE state[o]]
  /\ UNCHANGED holder

Spend(s) ==
  /\ state[s] = "open"
  /\ state' = [state EXCEPT ![s] = "spent"]
  /\ \E h \in Holder : holder' = [holder EXCEPT ![s] = h]

\* Revoked, refused or expired.
Close(s) ==
  /\ state[s] = "open"
  /\ state' = [state EXCEPT ![s] = "closed"]
  /\ UNCHANGED holder

Next == \E s \in Secret : Issue(s) \/ Spend(s) \/ Close(s)

Spec == Init /\ [][Next]_secretVars
=============================================================================
