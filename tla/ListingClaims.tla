--------------------------- MODULE ListingClaims ---------------------------
(***************************************************************************)
(* Who maintains one listing of apps/catalog: the claims people file on it, *)
(* the code that proves their work address, the links staff send and the    *)
(* decisions staff make.  One claim per user is a database constraint, and  *)
(* a listing shares nothing with another.                                   *)
(*                                                                          *)
(* A web request is a transaction of two steps as in BenchmarkSubmissions:  *)
(* what it read, and its commit.  Redeeming a link locks the link's row     *)
(* from the first to the second.  A staff decision made in the admin's list *)
(* is one UPDATE, filter included, so it is one step.                       *)
(*                                                                          *)
(* Deleting accounts, claims or links in the admin is left out.             *)
(***************************************************************************)
EXTENDS Naturals

CONSTANTS
  User,         \* the people who may maintain the listing
  Nobody,       \* who redeemed a link that is not redeemed
  Invite,       \* the links staff may mint
  Request,      \* the web requests that may be open at once
  Kinds,        \* the kinds of request people make
  MaxAttempts   \* ToolClaimCode.MAX_ATTEMPTS

ASSUME NobodyAssumption == Nobody \notin User
ASSUME AttemptsAssumption == MaxAttempts \in Nat
ASSUME KindsAssumption == Kinds \subseteq {"verify", "redeem", "form"}

VARIABLES
  claim,    \* the claim of each user, or NoClaim
  code,     \* the code mailed for it, or NoCode
  invite,   \* the links
  request   \* the open web requests

rowVars == <<claim, code, invite>>
vars == <<rowVars, request>>

-----------------------------------------------------------------------------
(* The rows.  *)

ClaimStatus == {"pending_verification", "pending_review", "approved",
                "rejected", "revoked"}

\* verified says that email_verified_at is set.
Claim == [status: ClaimStatus, verified: BOOLEAN]
NoClaim == [status |-> "none", verified |-> FALSE]

\* open says that the code is neither used nor expired.
Code == [attempts: 0..MaxAttempts, open: BOOLEAN]
NoCode == [attempts |-> 0, open |-> FALSE]

\* Variant with a fault: guesses are counted and not limited.
UsableWhileOpen(c) == c.open

Usable(c) == c.open /\ c.attempts < MaxAttempts

Link == [minted: BOOLEAN, revoked: BOOLEAN, redeemedBy: User \cup {Nobody}]
Unminted == [minted |-> FALSE, revoked |-> FALSE, redeemedBy |-> Nobody]

Live(i) == invite[i].minted /\ ~invite[i].revoked /\ invite[i].redeemedBy = Nobody

-----------------------------------------------------------------------------
(* Web requests.  *)

Closed == [kind |-> "none"]
Verify == [kind: {"verify"}, user: User, right: BOOLEAN,
           attempts: {n \in Nat : n < MaxAttempts}]
Redeem == [kind: {"redeem"}, user: User, link: Invite]
Form == [kind: {"form"}, user: User, row: Claim]

Open(r, read) ==
  /\ read.kind \in Kinds
  /\ request[r] = Closed
  /\ request' = [request EXCEPT ![r] = read]
  /\ UNCHANGED rowVars

Closes(r) == request' = [request EXCEPT ![r] = Closed]

\* Variant with a fault: the row is read without a lock.
NeverLocked(i) == FALSE

\* SELECT FOR UPDATE: from reading the link to the end of the request.
Locked(i) == \E r \in Request : request[r].kind = "redeem" /\ request[r].link = i

\* claim_tool; the unique constraint makes a second one of the user fail.
ClaimTool(u) ==
  /\ claim[u] = NoClaim
  /\ claim' = [claim EXCEPT ![u] = [status |-> "pending_verification", verified |-> FALSE]]
  /\ code' = [code EXCEPT ![u] = [attempts |-> 0, open |-> TRUE]]
  /\ UNCHANGED <<invite, request>>

CodeExpires(u) ==
  /\ code[u].open
  /\ code' = [code EXCEPT ![u].open = FALSE]
  /\ UNCHANGED <<claim, invite, request>>

\* verify_tool_claim with a code that is right or wrong.
BeginVerify(r, u) ==
  /\ Usable(code[u])
  /\ \E right \in BOOLEAN :
       Open(r, [kind |-> "verify", user |-> u, right |-> right, attempts |-> code[u].attempts])

\* A right code sends the claim to review whatever became of it meanwhile; a
\* wrong one counts up what was read.
CommitVerify(r) ==
  /\ request[r].kind = "verify"
  /\ LET u == request[r].user IN
       IF request[r].right
       THEN /\ code' = [code EXCEPT ![u].open = FALSE]
            /\ claim' = [claim EXCEPT ![u] = [status |-> "pending_review", verified |-> TRUE]]
       ELSE /\ code' = [code EXCEPT ![u].attempts = request[r].attempts + 1]
            /\ UNCHANGED claim
  /\ Closes(r)
  /\ UNCHANGED invite

\* grant_listing: the claim the user filed is approved, or an approved one made.
Granted(u) == [claim EXCEPT ![u] = [status |-> "approved", verified |-> TRUE]]

\* A link that is revoked or redeemed changes nothing, whoever opens it.
BeginRedeem(r, i, u) ==
  /\ Live(i)
  /\ ~Locked(i)
  /\ Open(r, [kind |-> "redeem", user |-> u, link |-> i])

\* ToolClaimInvite.claim is one to one: a claim holds one link.
HoldsAnother(u, i) == \E j \in Invite \ {i} : invite[j].redeemedBy = u

CommitRedeem(r) ==
  /\ request[r].kind = "redeem"
  /\ LET u == request[r].user
         i == request[r].link
     IN /\ ~HoldsAnother(u, i)
        /\ claim' = Granted(u)
        /\ invite' = [invite EXCEPT ![i].redeemedBy = u]
  /\ Closes(r)
  /\ UNCHANGED code

\* The claim's change form: staff set the status, and the whole row is written
\* back with the rest of it as the request read it.
BeginForm(r, u) ==
  /\ claim[u] # NoClaim
  /\ \E status \in ClaimStatus :
       Open(r, [kind |-> "form", user |-> u, row |-> [claim[u] EXCEPT !.status = status]])

CommitForm(r) ==
  /\ request[r].kind = "form"
  /\ claim' = [claim EXCEPT ![request[r].user] = request[r].row]
  /\ Closes(r)
  /\ UNCHANGED <<code, invite>>

\* A lost connection, a restart, or the IntegrityError of a link that would be
\* the user's second.
RollBack(r) ==
  /\ request[r] # Closed
  /\ Closes(r)
  /\ UNCHANGED rowVars

-----------------------------------------------------------------------------
(* What staff do.  *)

MintInvite(i) ==
  /\ ~invite[i].minted
  /\ invite' = [invite EXCEPT ![i].minted = TRUE]
  /\ UNCHANGED <<claim, code, request>>

\* The update waits for a lock, and then looks at the row again.
RevokeInvite(i) ==
  /\ Live(i)
  /\ ~Locked(i)
  /\ invite' = [invite EXCEPT ![i].revoked = TRUE]
  /\ UNCHANGED <<claim, code, request>>

AssignMaintainer(u) ==
  /\ claim' = Granted(u)
  /\ UNCHANGED <<code, invite, request>>

Decide(u, status) ==
  /\ claim[u] # NoClaim
  /\ claim' = [claim EXCEPT ![u].status = status]
  /\ UNCHANGED <<code, invite, request>>

ApproveClaim(u) == claim[u].verified /\ Decide(u, "approved")
RejectClaim(u) == Decide(u, "rejected")
RevokeClaim(u) == Decide(u, "revoked")

-----------------------------------------------------------------------------

Init ==
  /\ claim = [u \in User |-> NoClaim]
  /\ code = [u \in User |-> NoCode]
  /\ invite = [i \in Invite |-> Unminted]
  /\ request = [r \in Request |-> Closed]

UserStep(u) ==
  \/ ClaimTool(u) \/ CodeExpires(u)
  \/ AssignMaintainer(u) \/ ApproveClaim(u) \/ RejectClaim(u) \/ RevokeClaim(u)

InviteStep(i) == MintInvite(i) \/ RevokeInvite(i)

WebStep(r) ==
  \/ \E u \in User : BeginVerify(r, u) \/ BeginForm(r, u)
  \/ \E u \in User, i \in Invite : BeginRedeem(r, i, u)
  \/ CommitVerify(r) \/ CommitRedeem(r) \/ CommitForm(r) \/ RollBack(r)

Next ==
  \/ \E u \in User : UserStep(u)
  \/ \E i \in Invite : InviteStep(i)
  \/ \E r \in Request : WebStep(r)

Spec == Init /\ [][Next]_vars

-----------------------------------------------------------------------------
(* Properties.  *)

\* The rows and the open requests hold values of their types.
TypeOK ==
  /\ claim \in [User -> Claim \cup {NoClaim}]
  /\ code \in [User -> Code \cup {NoCode}]
  /\ invite \in [Invite -> Link]
  /\ request \in [Request -> {Closed} \cup Verify \cup Redeem \cup Form]

\* The lock and the two filters of redeem_claim_invite and revoke_invites: a
\* link grants the listing to one person, once, and never after it was revoked,
\* whatever requests on it overlap.
linkState ==
  [i \in Invite |-> IF ~invite[i].minted THEN "unissued"
                    ELSE IF invite[i].revoked THEN "closed"
                    ELSE IF invite[i].redeemedBy # Nobody THEN "spent" ELSE "open"]

LinkSecret == INSTANCE OneTimeSecret WITH
  Secret <- Invite, Holder <- User, state <- linkState,
  holder <- [i \in Invite |-> invite[i].redeemedBy]

LinksAreOneTime == LinkSecret!Spec

\* "A staff-issued link skips both the code and the review": what a link
\* granted is not put back into review.
LinkSkipsReview ==
  [][\A i \in Invite : LET u == invite[i].redeemedBy IN
       u # Nobody /\ claim[u].status = "approved" => claim'[u].status # "pending_review"]_vars
=============================================================================
