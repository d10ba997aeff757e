------------------------------- MODULE SignIn -------------------------------
(***************************************************************************)
(* Signing in to apps/accounts without a password: the mails with a code    *)
(* and a link (email_login), the logins of the command line that a browser  *)
(* approves (cli_login), and the API keys these end in.                     *)
(*                                                                          *)
(* A web request is a transaction of two steps as in BenchmarkSubmissions.  *)
(* A row it selects for update, or has updated, is locked until it ends.    *)
(* Asking for a mail has a third step, since sending one takes seconds: it  *)
(* looks, it spends the earlier mails, it sends and commits.                *)
(*                                                                          *)
(* Tokens are signatures without state, and are left out; so is signing in  *)
(* with Google, but for the account that it makes.                          *)
(***************************************************************************)
EXTENDS Naturals

CONSTANTS
  User,         \* the people, each with one address
  Nobody,       \* who approved a login that nobody approved
  Device,       \* the logins the command line may start
  Request,      \* the web requests that may be open at once
  Kinds,        \* the kinds of request people make
  MaxMail,      \* bound: mails ever sent
  MaxAttempts,  \* email_login.MAX_ATTEMPTS
  MaxKeys       \* settings.MAX_API_KEYS_PER_USER

ASSUME NobodyAssumption == Nobody \notin User
ASSUME LimitsAssumption == MaxMail \in Nat /\ MaxAttempts \in Nat /\ MaxKeys \in Nat
ASSUME KindsAssumption == Kinds \subseteq {"send", "confirm", "decide", "poll", "create"}

VARIABLES
  account,  \* the account of each person
  sent,     \* the last primary key a mail was given
  mail,     \* the EmailLogin rows
  device,   \* the CliLogin rows
  keys,     \* how many live API keys each person holds
  request   \* the open web requests

rowVars == <<account, sent, mail, device, keys>>
vars == <<rowVars, request>>

-----------------------------------------------------------------------------
(* The rows.  *)

Account == {"none", "active", "inactive"}

\* A mail is recent during the cooldown and expires after its lifetime; used
\* says that used_at is set.  signIns counts what it was used for.
Mail == 1..MaxMail
Login == [to: User, age: {"recent", "aged", "expired"}, attempts: 0..MaxAttempts,
          used: BOOLEAN, signIns: Nat]
NoMail == [to |-> Nobody, age |-> "expired", attempts |-> 0, used |-> TRUE, signIns |-> 0]

\* issued counts the keys that a login was answered with.
CliLogin == [status: {"pending", "approved", "denied", "consumed"}, expired: BOOLEAN,
             user: User \cup {Nobody}, issued: Nat]
Started == [status |-> "pending", expired |-> FALSE, user |-> Nobody, issued |-> 0]
NoLogin == [status |-> "unstarted", expired |-> FALSE, user |-> Nobody, issued |-> 0]

\* Rows that can still sign someone in.
IsOpen(m) == ~mail[m].used /\ mail[m].age # "expired"

-----------------------------------------------------------------------------
(* Web requests and their locks.  *)

Closed == [kind |-> "none"]
Send == [kind: {"send"}, phase: {"checked", "spent"}, user: User, closes: SUBSET Mail]
Confirm == [kind: {"confirm"}, mail: Mail, right: BOOLEAN, account: Account]
Decide == [kind: {"decide"}, device: Device, user: User, status: {"approved", "denied"}]
Poll == [kind: {"poll"}, device: Device]
Create == [kind: {"create"}, user: User]

Open(r, read) ==
  /\ read.kind \in Kinds
  /\ request[r] = Closed
  /\ request' = [request EXCEPT ![r] = read]
  /\ UNCHANGED rowVars

Closes(r) == request' = [request EXCEPT ![r] = Closed]

\* Variant with a fault: the login is read without a lock.
NeverLocked(d) == FALSE

Confirming(m) == \E r \in Request : request[r].kind = "confirm" /\ request[r].mail = m
Spending(m) == \E r \in Request : request[r].kind = "send" /\ m \in request[r].closes
DeviceLocked(d) == \E r \in Request : request[r].kind \in {"decide", "poll"} /\ request[r].device = d

-----------------------------------------------------------------------------
(* Signing in by mail.  *)

\* One mail per address and cooldown; an inactive account gets none.
BeginSend(r, u) ==
  /\ \A m \in Mail : mail[m].to = u => mail[m].age # "recent"
  /\ account[u] # "inactive"
  /\ sent < MaxMail
  /\ Open(r, [kind |-> "send", phase |-> "checked", user |-> u, closes |-> {}])

Unspent(u) == {m \in Mail : mail[m].to = u /\ ~mail[m].used}

\* The update of the earlier rows waits while one is being confirmed, and locks
\* them.  Two updates wait for one another, and neither sees the other's new row.
SpendEarlier(r) ==
  /\ request[r].kind = "send"
  /\ request[r].phase = "checked"
  /\ \A m \in Unspent(request[r].user) : ~Confirming(m)
  /\ request' = [request EXCEPT ![r].phase = "spent",
                                ![r].closes = Unspent(request[r].user)]
  /\ UNCHANGED rowVars

CommitSend(r) ==
  /\ request[r].kind = "send"
  /\ request[r].phase = "spent"
  /\ sent < MaxMail
  /\ sent' = sent + 1
  /\ mail' = [m \in Mail |->
       IF m = sent + 1
       THEN [to |-> request[r].user, age |-> "recent", attempts |-> 0, used |-> FALSE,
             signIns |-> 0]
       ELSE IF m \in request[r].closes THEN [mail[m] EXCEPT !.used = TRUE]
       ELSE mail[m]]
  /\ Closes(r)
  /\ UNCHANGED <<account, device, keys>>

\* Variant with a fault: guesses are counted and not limited.
AnyOpen(m) == IsOpen(m)

\* The code is tried on the newest open mail that has guesses left.
ForCode(m) == IsOpen(m) /\ mail[m].attempts < MaxAttempts
IsNewest(m) == ForCode(m) /\ \A k \in Mail : mail[k].to = mail[m].to /\ ForCode(k) => k <= m

\* Variant with a fault: the row is read without a lock.
BeginConfirmUnlocked(r, m, right) ==
  /\ IsOpen(m)
  /\ right => account[mail[m].to] # "inactive"
  /\ Open(r, [kind |-> "confirm", mail |-> m, right |-> right,
              account |-> account[mail[m].to]])

\* The row is locked; a right code or link also reads the account, and is
\* refused with nothing written when that is inactive.
BeginConfirm(r, m, right) ==
  /\ IsOpen(m)
  /\ ~Confirming(m) /\ ~Spending(m)
  /\ right => account[mail[m].to] # "inactive"
  /\ Open(r, [kind |-> "confirm", mail |-> m, right |-> right,
              account |-> account[mail[m].to]])

BeginLink(r, m) == BeginConfirm(r, m, TRUE)
BeginCode(r, m) == IsNewest(m) /\ \E right \in BOOLEAN : BeginConfirm(r, m, right)

\* Variant with a fault: the account is left to be made by others.
CommitSignInOnly(r) ==
  /\ request[r].kind = "confirm"
  /\ request[r].right
  /\ mail' = [mail EXCEPT ![request[r].mail].used = TRUE, ![request[r].mail].signIns = @ + 1]
  /\ Closes(r)
  /\ UNCHANGED <<account, sent, device, keys>>

\* The first sign-in makes the account, unless another request just did, which
\* the unique address refuses.
CommitSignIn(r) ==
  /\ request[r].kind = "confirm"
  /\ request[r].right
  /\ LET m == request[r].mail
         u == mail[m].to
     IN /\ request[r].account = "none" => account[u] = "none"
        /\ account' = [account EXCEPT ![u] = IF request[r].account = "none" THEN "active" ELSE @]
        /\ mail' = [mail EXCEPT ![m].used = TRUE, ![m].signIns = @ + 1]
  /\ Closes(r)
  /\ UNCHANGED <<sent, device, keys>>

CommitWrongCode(r) ==
  /\ request[r].kind = "confirm"
  /\ ~request[r].right
  /\ mail' = [mail EXCEPT ![request[r].mail].attempts = @ + 1]
  /\ Closes(r)
  /\ UNCHANGED <<account, sent, device, keys>>

\* Time passes for all of the rows, the oldest first.
MailAges(m) ==
  /\ mail[m] # NoMail
  /\ \/ /\ mail[m].age = "recent"
        /\ \A k \in Mail : k < m => mail[k].age # "recent"
        /\ mail' = [mail EXCEPT ![m].age = "aged"]
     \/ /\ mail[m].age = "aged"
        /\ \A k \in Mail : k < m => mail[k].age = "expired"
        /\ mail' = [mail EXCEPT ![m].age = "expired"]
  /\ UNCHANGED <<account, sent, device, keys, request>>

-----------------------------------------------------------------------------
(* The command line's logins, and API keys.  *)

StartDevice(d) ==
  /\ device[d] = NoLogin
  /\ device' = [device EXCEPT ![d] = Started]
  /\ UNCHANGED <<account, sent, mail, keys, request>>

DeviceExpires(d) ==
  /\ device[d] # NoLogin
  /\ ~device[d].expired
  /\ device' = [device EXCEPT ![d].expired = TRUE]
  /\ UNCHANGED <<account, sent, mail, keys, request>>

\* A signed-in person with the login's code approves or denies it.
BeginDecide(r, d, u) ==
  /\ account[u] = "active"
  /\ ~DeviceLocked(d)
  /\ device[d].status = "pending"
  /\ ~device[d].expired
  /\ \/ Open(r, [kind |-> "decide", device |-> d, user |-> u, status |-> "denied"])
     \/ /\ keys[u] < MaxKeys
        /\ Open(r, [kind |-> "decide", device |-> d, user |-> u, status |-> "approved"])

CommitDecide(r) ==
  /\ request[r].kind = "decide"
  /\ device' = [device EXCEPT ![request[r].device].status = request[r].status,
                              ![request[r].device].user = request[r].user]
  /\ Closes(r)
  /\ UNCHANGED <<account, sent, mail, keys>>

\* Variant with a fault: the login is not consumed.
CommitPollUnconsumed(r) ==
  /\ request[r].kind = "poll"
  /\ keys' = [keys EXCEPT ![device[request[r].device].user] = @ + 1]
  /\ device' = [device EXCEPT ![request[r].device].issued = @ + 1]
  /\ Closes(r)
  /\ UNCHANGED <<account, sent, mail>>

\* Any other poll tells the status and changes nothing.
BeginPoll(r, d) ==
  /\ ~DeviceLocked(d)
  /\ device[d].status = "approved"
  /\ Open(r, [kind |-> "poll", device |-> d])

CommitPoll(r) ==
  /\ request[r].kind = "poll"
  /\ keys' = [keys EXCEPT ![device[request[r].device].user] = @ + 1]
  /\ device' = [device EXCEPT ![request[r].device].status = "consumed",
                              ![request[r].device].issued = @ + 1]
  /\ Closes(r)
  /\ UNCHANGED <<account, sent, mail>>

\* Keys are also made by hand, under the same cap.
BeginCreate(r, u) ==
  /\ account[u] = "active"
  /\ keys[u] < MaxKeys
  /\ Open(r, [kind |-> "create", user |-> u])

CommitCreate(r) ==
  /\ request[r].kind = "create"
  /\ keys' = [keys EXCEPT ![request[r].user] = @ + 1]
  /\ Closes(r)
  /\ UNCHANGED <<account, sent, mail, device>>

RevokeKey(u) ==
  /\ account[u] = "active"
  /\ keys[u] > 0
  /\ keys' = [keys EXCEPT ![u] = @ - 1]
  /\ UNCHANGED <<account, sent, mail, device, request>>

-----------------------------------------------------------------------------
(* The rest of the site.  *)

SignUp(u) ==
  /\ account[u] = "none"
  /\ account' = [account EXCEPT ![u] = "active"]
  /\ UNCHANGED <<sent, mail, device, keys, request>>

SetActive(u) ==
  /\ account[u] # "none"
  /\ account' = [account EXCEPT ![u] = IF @ = "active" THEN "inactive" ELSE "active"]
  /\ UNCHANGED <<sent, mail, device, keys, request>>

\* A lost connection, a restart, a mail that is not sent, or an address taken.
RollBack(r) ==
  /\ request[r] # Closed
  /\ Closes(r)
  /\ UNCHANGED rowVars

-----------------------------------------------------------------------------

Init ==
  /\ account \in [User -> Account]
  /\ sent = 0
  /\ mail = [m \in Mail |-> NoMail]
  /\ device = [d \in Device |-> NoLogin]
  /\ keys = [u \in User |-> 0]
  /\ request = [r \in Request |-> Closed]

MailStep(r) ==
  \/ \E u \in User : BeginSend(r, u)
  \/ SpendEarlier(r) \/ CommitSend(r)
  \/ \E m \in Mail : BeginLink(r, m) \/ BeginCode(r, m)
  \/ CommitSignIn(r) \/ CommitWrongCode(r)

DeviceStep(r) ==
  \/ \E d \in Device : BeginPoll(r, d) \/ \E u \in User : BeginDecide(r, d, u)
  \/ CommitDecide(r) \/ CommitPoll(r)

KeyStep(r) == CommitCreate(r) \/ \E u \in User : BeginCreate(r, u)

Next ==
  \/ \E r \in Request : MailStep(r) \/ DeviceStep(r) \/ KeyStep(r) \/ RollBack(r)
  \/ \E m \in Mail : MailAges(m)
  \/ \E d \in Device : StartDevice(d) \/ DeviceExpires(d)
  \/ \E u \in User : RevokeKey(u) \/ SignUp(u) \/ SetActive(u)

Spec == Init /\ [][Next]_vars

-----------------------------------------------------------------------------
(* Properties.  *)

\* The rows and the open requests hold values of their types.
TypeOK ==
  /\ account \in [User -> Account]
  /\ sent \in 0..MaxMail
  /\ mail \in [Mail -> Login \cup {NoMail}]
  /\ device \in [Device -> CliLogin \cup {NoLogin}]
  /\ keys \in [User -> Nat]
  /\ request \in [Request -> {Closed} \cup Send \cup Confirm \cup Decide \cup Poll \cup Create]

\* email_login: "either of which signs in once".  The code and the link of a
\* mail sign in one person once between them, and never after a newer mail or
\* the end of its lifetime, which a request that is confirming it outlives.
MailState(m) ==
  IF mail[m] = NoMail THEN "unissued"
  ELSE IF mail[m].signIns = 1 THEN "spent"
  ELSE IF mail[m].signIns > 1 THEN "spent again"
  ELSE IF IsOpen(m) \/ (~mail[m].used /\ Confirming(m)) THEN "open"
  ELSE "closed"

MailSecret == INSTANCE OneTimeSecret WITH
  Secret <- Mail, Holder <- User, state <- [m \in Mail |-> MailState(m)],
  holder <- [m \in Mail |-> IF mail[m].signIns > 0 THEN mail[m].to ELSE Nobody]

MailsAreOneTime == MailSecret!Spec

\* cli_login.redeem: "Issued exactly once".  A login of the command line yields
\* one key, however often it is polled, and none if it was denied or if nobody
\* decided within its lifetime.
DeadlinePassed(d) == device[d].status = "pending" /\ device[d].expired /\ ~DeviceLocked(d)

DeviceState(d) ==
  IF device[d].status = "unstarted" THEN "unissued"
  ELSE IF device[d].issued = 1 THEN "spent"
  ELSE IF device[d].issued > 1 THEN "spent again"
  ELSE IF device[d].status = "denied" \/ DeadlinePassed(d) THEN "closed"
  ELSE "open"

DeviceSecret == INSTANCE OneTimeSecret WITH
  Secret <- Device, Holder <- User, state <- [d \in Device |-> DeviceState(d)],
  holder <- [d \in Device |-> IF device[d].issued > 0 THEN device[d].user ELSE Nobody]

DevicesAreOneTime == DeviceSecret!Spec

\* decide looks at the status under the lock: what one person decided about a
\* login nobody else's overlapping decision changes, so the key goes to the
\* person who approved it.
DecisionStands ==
  [][\A d \in Device : device[d].status \in {"approved", "denied", "consumed"}
       => /\ device'[d].user = device[d].user
          /\ device'[d].status \in {device[d].status} \cup
               (IF device[d].status = "approved" THEN {"consumed"} ELSE {})]_vars

\* "The first sign-in creates the account", also when the account was found
\* missing by two requests at once: whoever a mail signed in has one.
SignedInHasAccount ==
  \A m \in Mail : mail[m].signIns > 0 => account[mail[m].to] # "none"

\* request_login: "Only the newest mail works".  The cooldown is looked at before
\* the row is written and committed with the mail, so it does not keep two apart.
OnlyNewestWorks ==
  \A m, k \in Mail : mail[m].to = mail[k].to /\ IsOpen(m) /\ IsOpen(k) => m = k
=============================================================================
