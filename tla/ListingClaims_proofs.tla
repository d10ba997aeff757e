----------------------- MODULE ListingClaims_proofs ------------------------
(***************************************************************************)
(* Theorems of ListingClaims: the types, and that a claim link is a         *)
(* one-time secret, for any number of users, links and open requests.       *)
(***************************************************************************)
EXTENDS ListingClaims, TLAPS

OpenRequest == Verify \cup Redeem \cup Form

LEMMA ClosedIsNone ==
  /\ Closed \notin OpenRequest
  /\ Closed.kind = "none"
BY DEF Closed, OpenRequest, Verify, Redeem, Form

LEMMA OpenType ==
  ASSUME TypeOK, NEW r \in Request, NEW read \in OpenRequest, Open(r, read)
  PROVE  TypeOK'
BY DEF Open, rowVars, TypeOK, OpenRequest

LEMMA ClosesType ==
  ASSUME TypeOK, NEW r \in Request, Closes(r)
  PROVE  request' \in [Request -> {Closed} \cup Verify \cup Redeem \cup Form]
BY DEF Closes, TypeOK

LEMMA GrantedType ==
  ASSUME TypeOK, NEW u \in User
  PROVE  Granted(u) \in [User -> Claim \cup {NoClaim}]
BY DEF Granted, TypeOK, Claim, ClaimStatus

LEMMA CodeType == TypeOK => code \in [User -> Code]
<1>1. 0 \in 0..MaxAttempts
  BY AttemptsAssumption
<1>2. NoCode \in Code
  BY <1>1 DEF Code, NoCode
<1> QED BY <1>2 DEF TypeOK

\* What people ask for over the web leaves every value in its type.
LEMMA WebType ==
  ASSUME TypeOK, NEW r \in Request, WebStep(r)
  PROVE  TypeOK'
<1>1. ASSUME NEW u \in User, BeginVerify(r, u) PROVE TypeOK'
  <2>1. PICK right \in BOOLEAN :
          Open(r, [kind |-> "verify", user |-> u, right |-> right, attempts |-> code[u].attempts])
    BY <1>1 DEF BeginVerify
  <2>2. code[u].attempts \in Nat /\ code[u].attempts < MaxAttempts
    BY <1>1, CodeType, AttemptsAssumption DEF BeginVerify, Usable, Code
  <2> QED BY <2>1, <2>2, OpenType DEF OpenRequest, Verify
<1>2. ASSUME NEW u \in User, BeginForm(r, u) PROVE TypeOK'
  <2>1. PICK status \in ClaimStatus :
          Open(r, [kind |-> "form", user |-> u, row |-> [claim[u] EXCEPT !.status = status]])
    BY <1>2 DEF BeginForm
  <2>2. claim[u] \in Claim
    BY <1>2 DEF BeginForm, TypeOK
  <2> QED BY <2>1, <2>2, OpenType DEF OpenRequest, Form, Claim
<1>3. ASSUME NEW u \in User, NEW i \in Invite, BeginRedeem(r, i, u) PROVE TypeOK'
  BY <1>3, OpenType DEF BeginRedeem, OpenRequest, Redeem
<1>4. CASE CommitVerify(r)
  <2>1. request[r] \in Verify
    BY <1>4, ClosedIsNone DEF CommitVerify, TypeOK, Redeem, Form
  <2>2. /\ request[r].user \in User
        /\ request[r].attempts + 1 \in 0..MaxAttempts
    BY <2>1, AttemptsAssumption DEF Verify
  <2>3. CASE request[r].right
    <3>1. /\ code' = [code EXCEPT ![request[r].user].open = FALSE]
          /\ claim' = [claim EXCEPT ![request[r].user] =
                         [status |-> "pending_review", verified |-> TRUE]]
      BY <1>4, <2>3 DEF CommitVerify
    <3>2. code' \in [User -> Code \cup {NoCode}]
      BY <2>2, <3>1, CodeType DEF Code
    <3>3. claim' \in [User -> Claim \cup {NoClaim}]
      BY <2>2, <3>1 DEF TypeOK, Claim, ClaimStatus
    <3> QED BY <1>4, <3>2, <3>3, ClosesType DEF CommitVerify, TypeOK
  <2>4. CASE ~request[r].right
    <3>1. code' = [code EXCEPT ![request[r].user].attempts = request[r].attempts + 1]
      BY <1>4, <2>4 DEF CommitVerify
    <3>2. code' \in [User -> Code \cup {NoCode}]
      BY <2>2, <3>1, CodeType DEF Code
    <3> QED BY <1>4, <2>4, <3>2, ClosesType DEF CommitVerify, TypeOK
  <2> QED BY <2>3, <2>4
<1>5. CASE CommitRedeem(r)
  <2>1. request[r].user \in User /\ request[r].link \in Invite
    BY <1>5, ClosedIsNone DEF CommitRedeem, TypeOK, Verify, Form, Redeem
  <2>2. invite' \in [Invite -> Link]
    BY <1>5, <2>1 DEF CommitRedeem, TypeOK, Link
  <2> QED BY <1>5, <2>1, <2>2, GrantedType, ClosesType DEF CommitRedeem, TypeOK
<1>6. CASE CommitForm(r)
  <2>1. request[r].user \in User /\ request[r].row \in Claim
    BY <1>6, ClosedIsNone DEF CommitForm, TypeOK, Verify, Form, Redeem
  <2> QED BY <1>6, <2>1, ClosesType DEF CommitForm, TypeOK
<1>7. CASE RollBack(r)
  BY <1>7, ClosesType DEF RollBack, rowVars, TypeOK
<1> QED BY <1>1, <1>2, <1>3, <1>4, <1>5, <1>6, <1>7 DEF WebStep

\* And so does what staff and time do.
LEMMA StaffType ==
  ASSUME TypeOK, (\E u \in User : UserStep(u)) \/ (\E i \in Invite : InviteStep(i))
  PROVE  TypeOK'
<1>1. ASSUME NEW u \in User, ClaimTool(u) PROVE TypeOK'
  BY <1>1, AttemptsAssumption DEF ClaimTool, TypeOK, Claim, ClaimStatus, Code
<1>2. ASSUME NEW u \in User, CodeExpires(u) PROVE TypeOK'
  BY <1>2, CodeType DEF CodeExpires, TypeOK, Code
<1>3. ASSUME NEW u \in User, AssignMaintainer(u) PROVE TypeOK'
  BY <1>3, GrantedType DEF AssignMaintainer, TypeOK
<1>4. ASSUME NEW u \in User, NEW status \in ClaimStatus, Decide(u, status) PROVE TypeOK'
  BY <1>4 DEF Decide, TypeOK, Claim
<1>5. ASSUME NEW i \in Invite, InviteStep(i) PROVE TypeOK'
  BY <1>5, ZenonT(30) DEF InviteStep, MintInvite, RevokeInvite, TypeOK, Link
<1>6. ASSUME NEW u \in User, ApproveClaim(u) \/ RejectClaim(u) \/ RevokeClaim(u) PROVE TypeOK'
  BY <1>4, <1>6 DEF ApproveClaim, RejectClaim, RevokeClaim, ClaimStatus
<1> QED BY <1>1, <1>2, <1>3, <1>5, <1>6 DEF UserStep

LEMMA TypeNext == TypeOK /\ [Next]_vars => TypeOK'
<1>1. CASE UNCHANGED vars
  BY <1>1 DEF vars, rowVars, TypeOK
<1> QED BY <1>1, WebType, StaffType DEF Next

\* Every claim, code, link and open request keeps its type.
THEOREM TypeCorrect == Spec => []TypeOK
<1>1. Init => TypeOK
  BY DEF Init, TypeOK, Unminted, Link
<1> QED BY <1>1, TypeNext, PTL DEF Spec

-----------------------------------------------------------------------------
(* The lock: a link that is being redeemed is live until the request ends,  *)
(* and only one request redeems it.                                         *)

Redeeming(r, i) == request[r].kind = "redeem" /\ request[r].link = i

LockHeld ==
  \A r \in Request, i \in Invite : Redeeming(r, i) =>
    /\ Live(i)
    /\ \A q \in Request : Redeeming(q, i) => q = r

\* A link that is not minted yet is nobody's.
UnmintedUnused == \A i \in Invite : ~invite[i].minted => invite[i] = Unminted

LEMMA UnmintedNext ==
  TypeOK /\ LockHeld /\ UnmintedUnused /\ [Next]_vars => UnmintedUnused'
<1> SUFFICES ASSUME TypeOK, LockHeld, UnmintedUnused, [Next]_vars PROVE UnmintedUnused'
  OBVIOUS
<1>1. CASE UNCHANGED invite
  BY <1>1 DEF UnmintedUnused
<1>2. ASSUME NEW i \in Invite, InviteStep(i) PROVE UnmintedUnused'
  BY <1>2 DEF InviteStep, MintInvite, RevokeInvite, Live, TypeOK, Link, UnmintedUnused
<1>3. ASSUME NEW r \in Request, CommitRedeem(r) PROVE UnmintedUnused'
  <2>1. request[r].link \in Invite
    BY <1>3, ClosedIsNone DEF CommitRedeem, TypeOK, Verify, Form, Redeem
  <2>2. invite[request[r].link].minted
    BY <1>3, <2>1 DEF CommitRedeem, LockHeld, Redeeming, Live
  <2> QED BY <1>3, <2>1, <2>2 DEF CommitRedeem, TypeOK, Link, UnmintedUnused
<1>4. ASSUME NEW r \in Request, WebStep(r), ~CommitRedeem(r) PROVE UNCHANGED invite
  BY <1>4 DEF WebStep, BeginVerify, BeginForm, BeginRedeem, CommitVerify, CommitForm,
      RollBack, Open, rowVars
<1>5. ASSUME NEW u \in User, UserStep(u) PROVE UNCHANGED invite
  BY <1>5 DEF UserStep, ClaimTool, CodeExpires, AssignMaintainer, ApproveClaim, RejectClaim,
      RevokeClaim, Decide
<1>6. CASE UNCHANGED vars
  BY <1>1, <1>6 DEF vars, rowVars
<1> QED BY <1>1, <1>2, <1>3, <1>4, <1>5, <1>6 DEF Next

LEMMA LockNext == TypeOK /\ LockHeld /\ [Next]_vars => LockHeld'
<1> SUFFICES ASSUME TypeOK, LockHeld, [Next]_vars PROVE LockHeld'
  OBVIOUS
<1> USE DEF LockHeld, Redeeming
<1>1. ASSUME NEW r \in Request, NEW i \in Invite, NEW u \in User, BeginRedeem(r, i, u)
      PROVE  LockHeld'
  BY <1>1 DEF BeginRedeem, Open, rowVars, Locked, Live, TypeOK
<1>2. ASSUME NEW r \in Request, CommitRedeem(r) PROVE LockHeld'
  <2>1. request' = [request EXCEPT ![r] = Closed]
    BY <1>2 DEF CommitRedeem, Closes
  <2>2. \A j \in Invite : j # request[r].link => invite'[j] = invite[j]
    BY <1>2 DEF CommitRedeem, TypeOK
  <2> QED BY <1>2, <2>1, <2>2, ClosedIsNone DEF CommitRedeem, Live, TypeOK
<1>3. ASSUME NEW r \in Request, UNCHANGED invite,
             \/ request' = [request EXCEPT ![r] = Closed]
             \/ \E read : read.kind # "redeem" /\ request' = [request EXCEPT ![r] = read]
      PROVE  LockHeld'
  BY <1>3, ClosedIsNone DEF Live, TypeOK
<1>4. CASE UNCHANGED <<invite, request>>
  BY <1>4 DEF Live
<1>5. ASSUME NEW i \in Invite, InviteStep(i) PROVE LockHeld'
  BY <1>5 DEF InviteStep, MintInvite, RevokeInvite, Locked, Live, TypeOK
<1>6. ASSUME NEW r \in Request, WebStep(r) PROVE LockHeld'
  <2>1. ASSUME NEW u \in User, BeginVerify(r, u) \/ BeginForm(r, u) PROVE LockHeld'
    BY <2>1, <1>3 DEF BeginVerify, BeginForm, Open, rowVars
  <2>2. CASE CommitVerify(r) \/ CommitForm(r) \/ RollBack(r)
    BY <2>2, <1>3 DEF CommitVerify, CommitForm, RollBack, Closes, rowVars
  <2> QED BY <1>1, <1>2, <1>6, <2>1, <2>2 DEF WebStep
<1>7. ASSUME NEW u \in User, UserStep(u) PROVE UNCHANGED <<invite, request>>
  BY <1>7 DEF UserStep, ClaimTool, CodeExpires, AssignMaintainer, ApproveClaim, RejectClaim,
      RevokeClaim, Decide
<1>8. CASE UNCHANGED vars
  BY <1>4, <1>8 DEF vars, rowVars
<1> QED BY <1>4, <1>5, <1>6, <1>7, <1>8 DEF Next

-----------------------------------------------------------------------------

\* A link is spent when a redemption commits, because its lock kept it live.
LEMMA LinksRefine ==
  ASSUME TypeOK, LockHeld, UnmintedUnused, [Next]_vars
  PROVE  [LinkSecret!Next]_(LinkSecret!secretVars)
<1> DEFINE who == [i \in Invite |-> invite[i].redeemedBy]
<1> USE DEF LinkSecret!secretVars
<1>1. CASE UNCHANGED invite
  BY <1>1 DEF linkState
<1>2. ASSUME NEW i \in Invite, MintInvite(i) PROVE LinkSecret!Issue(i)
  <2>1. invite[i] = Unminted
    BY <1>2 DEF MintInvite, UnmintedUnused
  <2>2. invite' = [invite EXCEPT ![i].minted = TRUE]
    BY <1>2 DEF MintInvite
  <2>3. linkState[i] = "unissued"
    BY <2>1 DEF linkState, Unminted
  <2>4. linkState' = [linkState EXCEPT ![i] = "open"]
    <3>1. /\ invite'[i].minted /\ ~invite'[i].revoked
          /\ invite'[i].redeemedBy = Nobody
      BY <2>1, <2>2 DEF Unminted, TypeOK, Link
    <3>2. \A j \in Invite \ {i} : invite'[j] = invite[j]
      BY <2>2 DEF TypeOK
    <3>3. \A j \in Invite : linkState'[j] = IF j = i THEN "open" ELSE linkState[j]
      BY <3>1, <3>2 DEF linkState
    <3> QED BY <3>3 DEF linkState
  <2>5. who' = who
    BY <2>2 DEF TypeOK, Link
  <2>6. linkState' = [j \in Invite |-> IF j = i THEN "open"
                                     ELSE IF j \in {} THEN "closed" ELSE linkState[j]]
    BY <2>4 DEF linkState
  <2>7. {} \in SUBSET {j \in Invite : linkState[j] = "open"}
    OBVIOUS
  <2> QED BY <2>3, <2>5, <2>6, <2>7 DEF LinkSecret!Issue
<1>3. ASSUME NEW i \in Invite, RevokeInvite(i) PROVE LinkSecret!Close(i)
  <2>1. Live(i) /\ invite' = [invite EXCEPT ![i].revoked = TRUE]
    BY <1>3 DEF RevokeInvite
  <2>2. linkState[i] = "open"
    BY <2>1 DEF Live, linkState
  <2>3. linkState' = [linkState EXCEPT ![i] = "closed"]
    BY <2>1 DEF Live, linkState, TypeOK, Link
  <2>4. who' = who
    BY <2>1 DEF TypeOK, Link
  <2> QED BY <2>2, <2>3, <2>4 DEF LinkSecret!Close
<1>4. ASSUME NEW r \in Request, CommitRedeem(r), NEW i \in Invite, i = request[r].link
      PROVE  LinkSecret!Spend(i)
  <2>1. request[r].user \in User
    BY <1>4, ClosedIsNone DEF CommitRedeem, TypeOK, Verify, Form, Redeem
  <2>2. Live(i)
    BY <1>4 DEF CommitRedeem, LockHeld, Redeeming
  <2>3. invite' = [invite EXCEPT ![i].redeemedBy = request[r].user]
    BY <1>4 DEF CommitRedeem
  <2>4. linkState[i] = "open"
    BY <2>2 DEF Live, linkState
  <2>5. linkState' = [linkState EXCEPT ![i] = "spent"]
    BY <2>1, <2>2, <2>3, NobodyAssumption DEF Live, linkState, TypeOK, Link
  <2>6. who' = [who EXCEPT ![i] = request[r].user]
    BY <2>1, <2>3 DEF TypeOK, Link
  <2> QED BY <2>1, <2>4, <2>5, <2>6 DEF LinkSecret!Spend
<1>5. ASSUME NEW r \in Request, WebStep(r), ~CommitRedeem(r) PROVE UNCHANGED invite
  BY <1>5 DEF WebStep, BeginVerify, BeginForm, BeginRedeem, CommitVerify, CommitForm,
      RollBack, Open, rowVars
<1>6. ASSUME NEW u \in User, UserStep(u) PROVE UNCHANGED invite
  BY <1>6 DEF UserStep, ClaimTool, CodeExpires, AssignMaintainer, ApproveClaim, RejectClaim,
      RevokeClaim, Decide
<1>7. CASE UNCHANGED vars
  BY <1>1, <1>7 DEF vars, rowVars
<1>8. ASSUME NEW r \in Request, CommitRedeem(r) PROVE request[r].link \in Invite
  BY <1>8, ClosedIsNone DEF CommitRedeem, TypeOK, Verify, Form, Redeem
<1>9. ASSUME NEW i \in Invite, InviteStep(i) PROVE LinkSecret!Next
  BY <1>2, <1>3, <1>9 DEF InviteStep, LinkSecret!Next
<1>10. ASSUME NEW r \in Request, WebStep(r) PROVE LinkSecret!Next \/ UNCHANGED invite
  <2>1. CASE CommitRedeem(r)
    <3>1. PICK i \in Invite : i = request[r].link
      BY <1>8, <2>1
    <3>2. LinkSecret!Spend(i)
      BY <1>4, <2>1, <3>1
    <3> QED BY <3>2 DEF LinkSecret!Next
  <2>2. CASE ~CommitRedeem(r)
    BY <1>5, <1>10, <2>2
  <2> QED BY <2>1, <2>2
<1>11. LinkSecret!Next \/ UNCHANGED invite
  BY <1>6, <1>7, <1>9, <1>10 DEF Next, vars, rowVars
<1> QED BY <1>1, <1>11

\* A claim link is spent at most once, by one person, and never after it was
\* revoked, however many people open it at the same moment.
THEOREM ClaimLinksAreOneTime == Spec => LinksAreOneTime
<1>1. Init => LinkSecret!Init /\ LockHeld /\ UnmintedUnused
  BY ClosedIsNone DEF Init, LinkSecret!Init, linkState, Unminted, LockHeld, Redeeming,
     UnmintedUnused
<1> QED BY <1>1, TypeCorrect, LockNext, UnmintedNext, LinksRefine, PTL
        DEF Spec, LinksAreOneTime, LinkSecret!Spec
=============================================================================
