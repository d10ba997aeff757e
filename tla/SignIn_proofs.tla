--------------------------- MODULE SignIn_proofs ----------------------------
(***************************************************************************)
(* Theorems of SignIn: the types; that a mail signs in once and a login of  *)
(* the command line yields one key; that a decision on a login stands; for  *)
(* any number of people, mails, logins and open requests.                   *)
(***************************************************************************)
EXTENDS SignIn, TLAPS

OpenRequest == Send \cup Confirm \cup Decide \cup Poll \cup Create

USE DEF Mail

LEMMA ClosedIsNone == Closed \notin OpenRequest /\ Closed.kind = "none"
BY DEF Closed, OpenRequest, Send, Confirm, Decide, Poll, Create

\* A request is of the shape its kind says.
LEMMA Shapes ==
  ASSUME TypeOK, NEW r \in Request
  PROVE  /\ request[r].kind = "send" => request[r] \in Send
         /\ request[r].kind = "confirm" => request[r] \in Confirm
         /\ request[r].kind = "decide" => request[r] \in Decide
         /\ request[r].kind = "poll" => request[r] \in Poll
         /\ request[r].kind = "create" => request[r] \in Create
BY ClosedIsNone DEF TypeOK, Send, Confirm, Decide, Poll, Create

LEMMA MailFacts ==
  /\ NoMail \notin Login
  /\ NoMail.used
  /\ NoMail.to = Nobody
  /\ NoMail.signIns = 0
BY NobodyAssumption DEF NoMail, Login

LEMMA OpenType ==
  ASSUME TypeOK, NEW r \in Request, NEW read \in OpenRequest, Open(r, read)
  PROVE  TypeOK'
BY DEF Open, rowVars, TypeOK, OpenRequest

LEMMA ClosesType ==
  ASSUME TypeOK, NEW r \in Request, Closes(r)
  PROVE  request' \in [Request -> {Closed} \cup Send \cup Confirm \cup Decide \cup Poll \cup Create]
BY DEF Closes, TypeOK

-----------------------------------------------------------------------------
(* The locks of the mails: a mail that is being confirmed is unused, by one  *)
(* request, and not being superseded; a code is tried while guesses are left; *)
(* an account that was found stays.                                          *)

ConfirmingBy(r, m) == request[r].kind = "confirm" /\ request[r].mail = m

EarlierSent ==
  \A r \in Request : request[r].kind = "send" => \A m \in request[r].closes : mail[m] \in Login

Confirmed ==
  \A r \in Request, m \in Mail : ConfirmingBy(r, m) =>
    /\ ~mail[m].used
    /\ \A q \in Request : ConfirmingBy(q, m) => q = r
    /\ ~Spending(m)
    /\ ~request[r].right => mail[m].attempts < MaxAttempts
    /\ request[r].account # "none" => account[mail[m].to] # "none"

MailLocks == EarlierSent /\ Confirmed

\* Mails are numbered as they are sent.
SentInOrder == \A m \in Mail : m > sent <=> mail[m] = NoMail

LEMMA UnusedIsLogin ==
  ASSUME TypeOK, NEW m \in Mail, ~mail[m].used
  PROVE  mail[m] \in Login
BY MailFacts DEF TypeOK

LEMMA MailType ==
  ASSUME TypeOK, MailLocks, NEW r \in Request, MailStep(r)
  PROVE  TypeOK'
<1>1. ASSUME NEW u \in User, BeginSend(r, u) PROVE TypeOK'
  BY <1>1, OpenType DEF BeginSend, OpenRequest, Send
<1>2. CASE SpendEarlier(r)
  <2>1. Unspent(request[r].user) \in SUBSET Mail
    BY DEF Unspent
  <2>2. request[r] \in Send
    BY <1>2, Shapes DEF SpendEarlier
  <2>3. request'[r] \in Send
    BY <1>2, <2>1, <2>2 DEF SpendEarlier, Send, TypeOK
  <2> QED BY <1>2, <2>3 DEF SpendEarlier, rowVars, TypeOK
<1>3. CASE CommitSend(r)
  <2>1. request[r] \in Send
    BY <1>3, Shapes DEF CommitSend
  <2>2. sent' \in 0..MaxMail
    BY <1>3, LimitsAssumption DEF CommitSend, TypeOK
  <2>3. [to |-> request[r].user, age |-> "recent", attempts |-> 0, used |-> FALSE,
         signIns |-> 0] \in Login
    BY <2>1, LimitsAssumption DEF Send, Login
  <2>4. ASSUME NEW m \in Mail, m \in request[r].closes PROVE [mail[m] EXCEPT !.used = TRUE] \in Login
    BY <1>3, <2>4 DEF CommitSend, MailLocks, EarlierSent, Login
  <2>5. mail' \in [Mail -> Login \cup {NoMail}]
    BY <1>3, <2>3, <2>4 DEF CommitSend, TypeOK
  <2> QED BY <1>3, <2>2, <2>5, ClosesType DEF CommitSend, TypeOK
<1>4. ASSUME NEW m \in Mail, NEW right \in BOOLEAN, BeginConfirm(r, m, right) PROVE TypeOK'
  <2>1. account[mail[m].to] \in Account
    BY <1>4, UnusedIsLogin DEF BeginConfirm, IsOpen, Login, TypeOK
  <2> QED BY <1>4, <2>1, OpenType DEF BeginConfirm, OpenRequest, Confirm
<1>5. CASE CommitSignIn(r)
  <2>1. request[r].mail \in Mail
    BY <1>5, Shapes DEF CommitSignIn, Confirm
  <2>2. account' \in [User -> Account]
    BY <1>5 DEF CommitSignIn, TypeOK, Account
  <2>3. mail[request[r].mail] \in Login
    BY <1>5, <2>1, UnusedIsLogin DEF CommitSignIn, MailLocks, Confirmed, ConfirmingBy
  <2>4. mail' \in [Mail -> Login \cup {NoMail}]
    BY <1>5, <2>1, <2>3, SMTT(30) DEF CommitSignIn, TypeOK, Login
  <2> QED BY <1>5, <2>2, <2>4, ClosesType DEF CommitSignIn, TypeOK
<1>6. CASE CommitWrongCode(r)
  <2>1. request[r].mail \in Mail
    BY <1>6, Shapes DEF CommitWrongCode, Confirm
  <2>2. mail[request[r].mail] \in Login /\ mail[request[r].mail].attempts < MaxAttempts
    BY <1>6, <2>1, UnusedIsLogin DEF CommitWrongCode, MailLocks, Confirmed, ConfirmingBy
  <2>3. mail[request[r].mail].attempts + 1 \in 0..MaxAttempts
    BY <2>2, LimitsAssumption DEF Login
  <2>4. mail' \in [Mail -> Login \cup {NoMail}]
    BY <1>6, <2>1, <2>2, <2>3 DEF CommitWrongCode, TypeOK, Login
  <2> QED BY <1>6, <2>4, ClosesType DEF CommitWrongCode, TypeOK
<1>7. ASSUME NEW m \in Mail, BeginLink(r, m) \/ BeginCode(r, m) PROVE TypeOK'
  BY <1>4, <1>7 DEF BeginLink, BeginCode
<1> QED BY <1>1, <1>2, <1>3, <1>5, <1>6, <1>7 DEF MailStep

\* A row of either kind is a row with any of the five statuses.
AnyLogin == [status: {"unstarted", "pending", "approved", "denied", "consumed"},
             expired: BOOLEAN, user: User \cup {Nobody}, issued: Nat]

LEMMA DeviceFields ==
  ASSUME TypeOK, NEW d \in Device
  PROVE  device[d] \in AnyLogin
<1>1. CASE device[d] \in CliLogin
  BY <1>1 DEF CliLogin, AnyLogin
<1>2. NoLogin \in AnyLogin
  BY DEF NoLogin, AnyLogin
<1> QED BY <1>1, <1>2 DEF TypeOK

LEMMA OneMoreKey ==
  ASSUME TypeOK, NEW u
  PROVE  [keys EXCEPT ![u] = @ + 1] \in [User -> Nat]
<1>1. CASE u \in User
  BY <1>1 DEF TypeOK
<1>2. CASE u \notin User
  <2>1. [keys EXCEPT ![u] = @ + 1] = keys
    BY <1>2 DEF TypeOK
  <2> QED BY <2>1 DEF TypeOK
<1> QED BY <1>1, <1>2

LEMMA OtherType ==
  ASSUME TypeOK, NEW r \in Request, DeviceStep(r) \/ KeyStep(r) \/ RollBack(r)
  PROVE  TypeOK'
<1>1. ASSUME NEW d \in Device, BeginPoll(r, d) PROVE TypeOK'
  BY <1>1, OpenType DEF BeginPoll, OpenRequest, Poll
<1>2. ASSUME NEW d \in Device, NEW u \in User, BeginDecide(r, d, u) PROVE TypeOK'
  BY <1>2, OpenType DEF BeginDecide, OpenRequest, Decide
<1>3. CASE CommitDecide(r)
  <2>1. request[r] \in Decide
    BY <1>3, Shapes DEF CommitDecide
  <2>2. PICK d \in Device : d = request[r].device
    BY <2>1 DEF Decide
  <2>3. device'[d] = [device[d] EXCEPT !.status = request[r].status, !.user = request[r].user]
    BY <1>3, <2>2 DEF CommitDecide, TypeOK
  <2>4. device'[d] \in CliLogin
    BY <2>1, <2>3, DeviceFields DEF CliLogin, AnyLogin, Decide
  <2>5. device' \in [Device -> CliLogin \cup {NoLogin}]
    BY <1>3, <2>2, <2>4 DEF CommitDecide, TypeOK
  <2> QED BY <1>3, <2>5, ClosesType DEF CommitDecide, TypeOK
<1>4. CASE CommitPoll(r)
  <2>1. PICK d \in Device : d = request[r].device
    BY <1>4, Shapes DEF CommitPoll, Poll
  <2>2. device'[d] = [device[d] EXCEPT !.status = "consumed", !.issued = device[d].issued + 1]
    BY <1>4, <2>1 DEF CommitPoll, TypeOK
  <2>3. device[d] \in AnyLogin /\ device[d].issued + 1 \in Nat
    BY DeviceFields DEF AnyLogin
  <2>4. device'[d] \in CliLogin
    BY <2>2, <2>3 DEF CliLogin, AnyLogin
  <2>5. device' \in [Device -> CliLogin \cup {NoLogin}]
    BY <1>4, <2>1, <2>4 DEF CommitPoll, TypeOK
  <2>6. keys' \in [User -> Nat]
    BY <1>4, OneMoreKey DEF CommitPoll
  <2> QED BY <1>4, <2>5, <2>6, ClosesType DEF CommitPoll, TypeOK
<1>5. ASSUME NEW u \in User, BeginCreate(r, u) PROVE TypeOK'
  BY <1>5, OpenType DEF BeginCreate, OpenRequest, Create
<1>6. CASE CommitCreate(r)
  <2>1. keys' \in [User -> Nat]
    BY <1>6, OneMoreKey DEF CommitCreate
  <2> QED BY <1>6, <2>1, ClosesType DEF CommitCreate, TypeOK
<1>7. CASE RollBack(r)
  BY <1>7, ClosesType DEF RollBack, rowVars, TypeOK
<1> QED BY <1>1, <1>2, <1>3, <1>4, <1>5, <1>6, <1>7 DEF DeviceStep, KeyStep

LEMMA TypeNext == TypeOK /\ MailLocks /\ [Next]_vars => TypeOK'
<1> SUFFICES ASSUME TypeOK, MailLocks, [Next]_vars PROVE TypeOK'
  OBVIOUS
<1>1. ASSUME NEW m \in Mail, MailAges(m) PROVE TypeOK'
  <2>1. mail[m] \in Login
    BY <1>1 DEF MailAges, TypeOK
  <2>2. PICK age \in {"aged", "expired"} : mail' = [mail EXCEPT ![m].age = age]
    BY <1>1 DEF MailAges
  <2>3. [mail[m] EXCEPT !.age = age] \in Login
    BY <2>1 DEF Login
  <2>4. mail' \in [Mail -> Login \cup {NoMail}]
    BY <2>2, <2>3 DEF TypeOK
  <2> QED BY <1>1, <2>4 DEF MailAges, TypeOK
<1>2. ASSUME NEW d \in Device, StartDevice(d) \/ DeviceExpires(d) PROVE TypeOK'
  <2>1. CASE StartDevice(d)
    BY <2>1 DEF StartDevice, TypeOK, CliLogin, Started
  <2>2. CASE DeviceExpires(d)
    <3>1. device[d] \in CliLogin
      BY <2>2 DEF DeviceExpires, TypeOK
    <3>2. [device[d] EXCEPT !.expired = TRUE] \in CliLogin
      BY <3>1 DEF CliLogin
    <3> QED BY <2>2, <3>2 DEF DeviceExpires, TypeOK
  <2> QED BY <1>2, <2>1, <2>2
<1>3. ASSUME NEW u \in User, RevokeKey(u) \/ SignUp(u) \/ SetActive(u) PROVE TypeOK'
  <2>1. keys' \in [User -> Nat]
    BY <1>3 DEF RevokeKey, SignUp, SetActive, TypeOK
  <2>2. account' \in [User -> Account]
    BY <1>3 DEF RevokeKey, SignUp, SetActive, TypeOK, Account
  <2> QED BY <1>3, <2>1, <2>2 DEF RevokeKey, SignUp, SetActive, TypeOK
<1>4. CASE UNCHANGED vars
  BY <1>4 DEF vars, rowVars, TypeOK
<1> QED BY <1>1, <1>2, <1>3, <1>4, MailType, OtherType DEF Next

\* What a step has to leave alone: who is confirming, or stops; the mails being
\* confirmed; and the accounts that exist.
LEMMA LocksKept ==
  ASSUME TypeOK, MailLocks,
         \A q \in Request :
           \/ request'[q] = request[q]
           \/ /\ request'[q].kind # "confirm"
              /\ request'[q].kind = "send" => \A m \in request'[q].closes :
                   m \in Mail /\ mail[m] \in Login /\ ~Confirming(m),
         \A q \in Request, m \in Mail :
           ConfirmingBy(q, m) /\ request'[q] = request[q] =>
             /\ mail'[m].used = mail[m].used
             /\ mail'[m].attempts = mail[m].attempts,
         \A m \in Mail : mail[m] \in Login => mail'[m] \in Login /\ mail'[m].to = mail[m].to,
         \A u \in User : account[u] # "none" => account'[u] # "none"
  PROVE  MailLocks'
<1>1. EarlierSent'
  <2> SUFFICES ASSUME NEW q \in Request, request'[q].kind = "send", NEW m \in request'[q].closes
               PROVE  mail'[m] \in Login
    BY DEF EarlierSent
  <2>1. CASE request'[q] = request[q]
    <3>1. request[q] \in Send
      BY <2>1, Shapes
    <3> QED BY <2>1, <3>1 DEF MailLocks, EarlierSent, Send
  <2>2. CASE request'[q] # request[q]
    BY <2>2
  <2> QED BY <2>1, <2>2
<1>2. Confirmed'
  <2> SUFFICES ASSUME NEW r \in Request, NEW m \in Mail, ConfirmingBy(r, m)'
               PROVE  /\ ~mail'[m].used
                      /\ \A q \in Request : ConfirmingBy(q, m)' => q = r
                      /\ ~Spending(m)'
                      /\ ~request'[r].right => mail'[m].attempts < MaxAttempts
                      /\ request'[r].account # "none" => account'[mail'[m].to] # "none"
    BY DEF Confirmed
  <2>1. request'[r] = request[r] /\ ConfirmingBy(r, m)
    BY DEF ConfirmingBy
  <2>2. ~mail[m].used /\ ~Spending(m) /\ \A q \in Request : ConfirmingBy(q, m) => q = r
    BY <2>1 DEF MailLocks, Confirmed
  <2>3. mail[m] \in Login
    BY <2>2, UnusedIsLogin
  <2>4. ~mail'[m].used /\ mail'[m].attempts = mail[m].attempts /\ mail'[m].to = mail[m].to
    BY <2>1, <2>2, <2>3
  <2>5. ASSUME NEW q \in Request, ConfirmingBy(q, m)' PROVE q = r
    BY <2>2, <2>5 DEF ConfirmingBy
  <2>6. ASSUME NEW q \in Request, request'[q].kind = "send", m \in request'[q].closes
        PROVE  FALSE
    BY <2>1, <2>2, <2>6 DEF Spending, Confirming, ConfirmingBy
  <2>7. ~request'[r].right => mail'[m].attempts < MaxAttempts
    BY <2>1, <2>4 DEF MailLocks, Confirmed
  <2>8. request'[r].account # "none" => account'[mail'[m].to] # "none"
    BY <2>1, <2>3, <2>4 DEF MailLocks, Confirmed, Login
  <2> QED BY <2>4, <2>5, <2>6, <2>7, <2>8 DEF Spending
<1> QED BY <1>1, <1>2 DEF MailLocks

LEMMA LocksQuiet ==
  ASSUME TypeOK, MailLocks, UNCHANGED mail, NEW r \in Request, NEW read,
         request' = [request EXCEPT ![r] = read] \/ UNCHANGED request,
         read.kind # "confirm",
         read.kind = "send" => read.closes = {},
         \A u \in User : account[u] # "none" => account'[u] # "none"
  PROVE  MailLocks'
<1>1. \A q \in Request : request'[q] = request[q] \/ request'[q] = read
  BY DEF TypeOK
<1> QED BY <1>1, LocksKept

LEMMA LocksMail ==
  ASSUME TypeOK, MailLocks, SentInOrder, NEW r \in Request, MailStep(r)
  PROVE  MailLocks'
<1>1. ASSUME NEW u \in User, BeginSend(r, u) PROVE MailLocks'
  <2> DEFINE read == [kind |-> "send", phase |-> "checked", user |-> u, closes |-> {}]
  <2>1. request' = [request EXCEPT ![r] = read] /\ UNCHANGED <<mail, account>>
    BY <1>1 DEF BeginSend, Open, rowVars
  <2>2. read.kind = "send" /\ read.closes = {}
    OBVIOUS
  <2> HIDE DEF read
  <2> QED BY <2>1, <2>2, LocksQuiet
<1>2. CASE SpendEarlier(r)
  <2>1. request[r] \in Send
    BY <1>2, Shapes DEF SpendEarlier
  <2>2. /\ request'[r].kind = "send"
        /\ request'[r].closes = Unspent(request[r].user)
        /\ \A q \in Request : q # r => request'[q] = request[q]
    BY <1>2, <2>1 DEF SpendEarlier, TypeOK, Send
  <2>3. \A m \in Unspent(request[r].user) : m \in Mail /\ mail[m] \in Login /\ ~Confirming(m)
    BY <1>2, UnusedIsLogin DEF SpendEarlier, Unspent
  <2>4. UNCHANGED <<mail, account>>
    BY <1>2 DEF SpendEarlier, rowVars
  <2> QED BY <2>2, <2>3, <2>4, LocksKept
<1>3. CASE CommitSend(r)
  <2>1. request[r] \in Send
    BY <1>3, Shapes DEF CommitSend
  <2>2. \A q \in Request : request'[q] = IF q = r THEN Closed ELSE request[q]
    BY <1>3 DEF CommitSend, Closes, TypeOK
  <2>3. ASSUME NEW q \in Request, NEW m \in Mail, ConfirmingBy(q, m)
        PROVE  mail[m] \in Login /\ m \notin request[r].closes
    BY <1>3, <2>3, UnusedIsLogin DEF CommitSend, MailLocks, Confirmed, Spending
  <2>4. \A m \in Mail : mail[m] \in Login => m # sent + 1
    BY MailFacts DEF SentInOrder, TypeOK
  <2>5. \A m \in Mail : mail[m] \in Login =>
           mail'[m] = IF m \in request[r].closes THEN [mail[m] EXCEPT !.used = TRUE] ELSE mail[m]
    BY <1>3, <2>4 DEF CommitSend
  <2>6. \A m \in Mail : mail[m] \in Login => mail'[m] \in Login /\ mail'[m].to = mail[m].to
    BY <2>5 DEF Login
  <2>7. ASSUME NEW q \in Request, NEW m \in Mail, ConfirmingBy(q, m)
        PROVE  mail'[m] = mail[m]
    BY <2>3, <2>5, <2>7
  <2>8. UNCHANGED account
    BY <1>3 DEF CommitSend
  <2> QED BY <2>2, <2>6, <2>7, <2>8, LocksKept, ClosedIsNone
<1>4. ASSUME NEW m \in Mail, NEW right \in BOOLEAN, BeginConfirm(r, m, right),
             right \/ mail[m].attempts < MaxAttempts
      PROVE  MailLocks'
  <2> DEFINE read == [kind |-> "confirm", mail |-> m, right |-> right,
                      account |-> account[mail[m].to]]
  <2>1. /\ request' = [request EXCEPT ![r] = read]
        /\ UNCHANGED <<mail, account>>
        /\ ~mail[m].used /\ ~Confirming(m) /\ ~Spending(m)
    BY <1>4 DEF BeginConfirm, Open, rowVars, IsOpen
  <2>2. \A q \in Request : request'[q] = IF q = r THEN read ELSE request[q]
    BY <2>1 DEF TypeOK
  <2>3. EarlierSent'
    BY <2>1, <2>2 DEF MailLocks, EarlierSent
  <2>4. \A k \in Mail : Spending(k)' => Spending(k)
    BY <2>2 DEF Spending
  <2>5. Confirmed'
    BY <1>4, <2>1, <2>2, <2>4 DEF MailLocks, Confirmed, ConfirmingBy, Confirming
  <2> QED BY <2>3, <2>5 DEF MailLocks
<1>5. CASE CommitSignIn(r) \/ CommitWrongCode(r)
  <2>1. PICK m \in Mail : ConfirmingBy(r, m)
    BY <1>5, Shapes DEF CommitSignIn, CommitWrongCode, Confirm, ConfirmingBy
  <2>2. \A q \in Request : request'[q] = IF q = r THEN Closed ELSE request[q]
    BY <1>5 DEF CommitSignIn, CommitWrongCode, Closes, TypeOK
  <2>3. \A k \in Mail : k # m => mail'[k] = mail[k]
    BY <1>5, <2>1 DEF CommitSignIn, CommitWrongCode, ConfirmingBy, TypeOK
  <2>4. \A q \in Request : ConfirmingBy(q, m) => q = r
    BY <2>1 DEF MailLocks, Confirmed
  <2>5. mail[m] \in Login
    BY <2>1, UnusedIsLogin DEF MailLocks, Confirmed
  <2>6. mail'[m].to = mail[m].to
    <3>1. \/ mail'[m] = [mail[m] EXCEPT !.used = TRUE, !.signIns = @ + 1]
          \/ mail'[m] = [mail[m] EXCEPT !.attempts = @ + 1]
      BY <1>5, <2>1 DEF CommitSignIn, CommitWrongCode, ConfirmingBy, TypeOK
    <3> QED BY <2>5, <3>1 DEF Login
  <2>7. TypeOK'
    BY MailType
  <2>8. mail'[m] \in Login
    BY <2>5, <2>6, <2>7, MailFacts, NobodyAssumption DEF TypeOK, Login
  <2>9. \A u \in User : account[u] # "none" => account'[u] # "none"
    BY <1>5 DEF CommitSignIn, CommitWrongCode, TypeOK
  <2>10. request'[r] = Closed /\ request'[r] # request[r]
    BY <2>1, <2>2, ClosedIsNone DEF ConfirmingBy
  <2>11. ASSUME NEW q \in Request, NEW k \in Mail, ConfirmingBy(q, k), request'[q] = request[q]
         PROVE  mail'[k] = mail[k]
    BY <2>3, <2>4, <2>10, <2>11
  <2>12. \A k \in Mail : mail[k] \in Login => mail'[k] \in Login /\ mail'[k].to = mail[k].to
    BY <2>3, <2>6, <2>8
  <2> QED BY <2>2, <2>9, <2>11, <2>12, LocksKept, ClosedIsNone
<1>6. ASSUME NEW m \in Mail, BeginLink(r, m) \/ BeginCode(r, m) PROVE MailLocks'
  BY <1>4, <1>6 DEF BeginLink, BeginCode, IsNewest, ForCode
<1> QED BY <1>1, <1>2, <1>3, <1>5, <1>6 DEF MailStep

\* Only what signing in by mail does touches the locks of the mails.
LEMMA LocksNext == TypeOK /\ MailLocks /\ SentInOrder /\ [Next]_vars => MailLocks'
<1> SUFFICES ASSUME TypeOK, MailLocks, SentInOrder, [Next]_vars PROVE MailLocks'
  OBVIOUS
<1>1. ASSUME NEW r \in Request, DeviceStep(r) \/ KeyStep(r) \/ RollBack(r) PROVE MailLocks'
  <2>1. /\ UNCHANGED <<mail, account>>
        /\ \E read : /\ request' = [request EXCEPT ![r] = read]
                     /\ read.kind \in {"decide", "poll", "create", "none"}
    BY <1>1, ClosedIsNone DEF DeviceStep, BeginPoll, BeginDecide, CommitDecide, CommitPoll, KeyStep,
       BeginCreate, CommitCreate, RollBack, Open, Closes, rowVars
  <2> QED BY <2>1, LocksQuiet
<1>2. ASSUME NEW m \in Mail, MailAges(m) PROVE MailLocks'
  <2>1. mail[m] \in Login
    BY <1>2 DEF MailAges, TypeOK
  <2>2. PICK age \in {"aged", "expired"} : mail' = [mail EXCEPT ![m].age = age]
    BY <1>2 DEF MailAges
  <2>3. [mail[m] EXCEPT !.age = age] \in Login
    BY <2>1 DEF Login
  <2>4. \A k \in Mail : k # m => mail'[k] = mail[k]
    BY <2>2 DEF TypeOK
  <2>5. /\ mail'[m] \in Login /\ mail'[m].to = mail[m].to
        /\ mail'[m].used = mail[m].used /\ mail'[m].attempts = mail[m].attempts
    BY <2>1, <2>2, <2>3 DEF TypeOK, Login
  <2>6. UNCHANGED <<request, account>>
    BY <1>2 DEF MailAges
  <2> QED BY <2>4, <2>5, <2>6, LocksKept
<1>3. CASE /\ UNCHANGED <<mail, request>>
           /\ \A u \in User : account[u] # "none" => account'[u] # "none"
  BY <1>3, LocksKept
<1>4. ASSUME NEW d \in Device, StartDevice(d) \/ DeviceExpires(d) PROVE MailLocks'
  BY <1>3, <1>4 DEF StartDevice, DeviceExpires
<1>5. ASSUME NEW u \in User, RevokeKey(u) \/ SignUp(u) \/ SetActive(u) PROVE MailLocks'
  <2>1. UNCHANGED <<mail, request>>
    BY <1>5 DEF RevokeKey, SignUp, SetActive
  <2>2. \A v \in User : account[v] # "none" => account'[v] # "none"
    BY <1>5 DEF RevokeKey, SignUp, SetActive, TypeOK
  <2> QED BY <1>3, <2>1, <2>2
<1>6. CASE UNCHANGED vars
  BY <1>3, <1>6 DEF vars, rowVars
<1> QED BY <1>1, <1>2, <1>4, <1>5, <1>6, LocksMail DEF Next

LEMMA SentNext == TypeOK /\ MailLocks /\ SentInOrder /\ [Next]_vars => SentInOrder'
<1> SUFFICES ASSUME TypeOK, MailLocks, SentInOrder, [Next]_vars PROVE SentInOrder'
  OBVIOUS
<1>1. CASE UNCHANGED <<mail, sent>>
  BY <1>1 DEF SentInOrder
<1>2. ASSUME UNCHANGED sent, NEW m \in Mail, mail[m] \in Login, mail'[m] # NoMail,
             \A k \in Mail \ {m} : mail'[k] = mail[k]
      PROVE  SentInOrder'
  BY <1>2, MailFacts DEF SentInOrder
<1>3. TypeOK'
  BY TypeNext
<1>4. ASSUME NEW r \in Request, CommitSend(r) PROVE SentInOrder'
  <2>1. /\ sent' = sent + 1
        /\ \A k \in Mail : mail'[k].to = IF k = sent + 1 THEN request[r].user ELSE mail[k].to
        /\ \A k \in Mail : k # sent + 1 /\ k \notin request[r].closes => mail'[k] = mail[k]
    <3>1. \A k \in request[r].closes : mail[k] \in Login
      BY <1>4 DEF CommitSend, MailLocks, EarlierSent
    <3> QED BY <1>4, <3>1 DEF CommitSend, Login
  <2>2. request[r].user \in User
    BY <1>4, Shapes DEF CommitSend, Send
  <2>3. \A k \in request[r].closes : mail[k].to \in User
    BY <1>4 DEF CommitSend, MailLocks, EarlierSent, Login
  <2>4. ASSUME NEW k \in Mail PROVE k > sent + 1 <=> mail'[k] = NoMail
    <3>1. CASE k = sent + 1
      BY <2>1, <2>2, <3>1, MailFacts, NobodyAssumption DEF TypeOK
    <3>2. CASE k # sent + 1 /\ k \in request[r].closes
      <4>1. mail[k] # NoMail
        BY <2>3, <3>2, MailFacts, NobodyAssumption
      <4>2. mail'[k] # NoMail
        BY <2>1, <2>3, <3>2, MailFacts, NobodyAssumption
      <4> QED BY <4>1, <4>2 DEF SentInOrder, TypeOK
    <3>3. CASE k # sent + 1 /\ k \notin request[r].closes
      BY <2>1, <3>3 DEF TypeOK, SentInOrder
    <3> QED BY <3>1, <3>2, <3>3
  <2> QED BY <2>1, <2>4 DEF SentInOrder
<1>5. ASSUME NEW r \in Request, CommitSignIn(r) \/ CommitWrongCode(r) PROVE SentInOrder'
  <2>1. PICK m \in Mail : ConfirmingBy(r, m)
    BY <1>5, Shapes DEF CommitSignIn, CommitWrongCode, Confirm, ConfirmingBy
  <2>2. mail[m] \in Login
    BY <2>1, UnusedIsLogin DEF MailLocks, Confirmed
  <2>3. UNCHANGED sent /\ \A k \in Mail \ {m} : mail'[k] = mail[k]
    BY <1>5, <2>1 DEF CommitSignIn, CommitWrongCode, ConfirmingBy, TypeOK
  <2>4. mail'[m].to = mail[m].to
    <3>1. \/ mail'[m] = [mail[m] EXCEPT !.used = TRUE, !.signIns = @ + 1]
          \/ mail'[m] = [mail[m] EXCEPT !.attempts = @ + 1]
      BY <1>5, <2>1 DEF CommitSignIn, CommitWrongCode, ConfirmingBy, TypeOK
    <3> QED BY <2>2, <3>1 DEF Login
  <2>5. mail'[m] # NoMail
    BY <2>2, <2>4, MailFacts, NobodyAssumption DEF Login
  <2> QED BY <1>2, <2>2, <2>3, <2>5
<1>6. ASSUME NEW m \in Mail, MailAges(m) PROVE SentInOrder'
  <2>1. mail[m] \in Login /\ UNCHANGED sent
    BY <1>6 DEF MailAges, TypeOK
  <2>2. PICK age \in {"aged", "expired"} : mail' = [mail EXCEPT ![m].age = age]
    BY <1>6 DEF MailAges
  <2>3. mail'[m].to = mail[m].to /\ \A k \in Mail \ {m} : mail'[k] = mail[k]
    BY <2>1, <2>2 DEF TypeOK, Login
  <2>4. mail'[m] # NoMail
    BY <2>1, <2>3, MailFacts, NobodyAssumption DEF Login
  <2> QED BY <1>2, <2>1, <2>3, <2>4
<1>7. ASSUME NEW r \in Request, MailStep(r), ~CommitSend(r), ~CommitSignIn(r), ~CommitWrongCode(r)
      PROVE  UNCHANGED <<mail, sent>>
  BY <1>7 DEF MailStep, BeginSend, SpendEarlier, BeginLink, BeginCode, BeginConfirm, Open, rowVars
<1>8. ASSUME NEW r \in Request, DeviceStep(r) \/ KeyStep(r) \/ RollBack(r)
      PROVE  UNCHANGED <<mail, sent>>
  BY <1>8 DEF DeviceStep, BeginPoll, BeginDecide, CommitDecide, CommitPoll, KeyStep, BeginCreate,
     CommitCreate, RollBack, Open, rowVars
<1>9. ASSUME NEW d \in Device, StartDevice(d) \/ DeviceExpires(d) PROVE UNCHANGED <<mail, sent>>
  BY <1>9 DEF StartDevice, DeviceExpires
<1>10. ASSUME NEW u \in User, RevokeKey(u) \/ SignUp(u) \/ SetActive(u)
       PROVE  UNCHANGED <<mail, sent>>
  BY <1>10 DEF RevokeKey, SignUp, SetActive
<1>11. CASE UNCHANGED vars
  BY <1>1, <1>11 DEF vars, rowVars
<1> QED BY <1>1, <1>4, <1>5, <1>6, <1>7, <1>8, <1>9, <1>10, <1>11 DEF Next

MailInv == TypeOK /\ MailLocks /\ SentInOrder

LEMMA MailCorrect == Spec => []MailInv
<1>1. Init => TypeOK
  BY LimitsAssumption DEF Init, TypeOK
<1>2. Init => MailLocks /\ SentInOrder
  BY ClosedIsNone DEF Init, MailLocks, EarlierSent, Confirmed, ConfirmingBy, SentInOrder
<1> QED BY <1>1, <1>2, TypeNext, LocksNext, SentNext, PTL DEF Spec, MailInv

\* Every row and every open request keeps its type.
THEOREM TypeCorrect == Spec => []TypeOK
BY MailCorrect, PTL DEF MailInv

-----------------------------------------------------------------------------
(* A mail signs in once.                                                     *)

\* What a step can do to the mails.
LEMMA MailSteps ==
  ASSUME MailInv, [Next]_vars
  PROVE  \/ UNCHANGED mail
         \/ \E r \in Request : CommitSend(r)
         \/ \E r \in Request, m \in Mail :
              ConfirmingBy(r, m) /\ (CommitSignIn(r) \/ CommitWrongCode(r))
         \/ \E m \in Mail : MailAges(m)
<1>1. ASSUME NEW r \in Request, CommitSignIn(r) \/ CommitWrongCode(r)
      PROVE  \E m \in Mail : ConfirmingBy(r, m)
  BY <1>1, Shapes DEF CommitSignIn, CommitWrongCode, Confirm, ConfirmingBy, MailInv
<1>2. ASSUME NEW r \in Request, MailStep(r), ~CommitSend(r), ~CommitSignIn(r), ~CommitWrongCode(r)
      PROVE  UNCHANGED mail
  BY <1>2 DEF MailStep, BeginSend, SpendEarlier, BeginLink, BeginCode, BeginConfirm, Open, rowVars
<1>3. ASSUME NEW r \in Request, DeviceStep(r) \/ KeyStep(r) \/ RollBack(r)
      PROVE  UNCHANGED mail
  BY <1>3 DEF DeviceStep, BeginPoll, BeginDecide, CommitDecide, CommitPoll, KeyStep, BeginCreate,
     CommitCreate, RollBack, Open, rowVars
<1>4. ASSUME NEW d \in Device, StartDevice(d) \/ DeviceExpires(d) PROVE UNCHANGED mail
  BY <1>4 DEF StartDevice, DeviceExpires
<1>5. ASSUME NEW u \in User, RevokeKey(u) \/ SignUp(u) \/ SetActive(u) PROVE UNCHANGED mail
  BY <1>5 DEF RevokeKey, SignUp, SetActive
<1>6. CASE UNCHANGED vars
  BY <1>6 DEF vars, rowVars
<1> QED BY <1>1, <1>2, <1>3, <1>4, <1>5, <1>6 DEF Next

\* What a confirmation and the passing of time write.
LEMMA ConfirmWrites ==
  ASSUME MailInv, NEW r \in Request, NEW m \in Mail, ConfirmingBy(r, m),
         CommitSignIn(r) \/ CommitWrongCode(r)
  PROVE  /\ mail[m] \in Login /\ ~mail[m].used
         /\ \A k \in Mail \ {m} : mail'[k] = mail[k]
         /\ mail'[m] = IF request[r].right
                       THEN [mail[m] EXCEPT !.used = TRUE, !.signIns = @ + 1]
                       ELSE [mail[m] EXCEPT !.attempts = @ + 1]
         /\ request' = [request EXCEPT ![r] = Closed]
BY UnusedIsLogin, ZenonT(30)
   DEF CommitSignIn, CommitWrongCode, ConfirmingBy, MailInv, TypeOK, MailLocks, Confirmed, Closes

LEMMA AgeWrites ==
  ASSUME MailInv, NEW m \in Mail, MailAges(m)
  PROVE  /\ mail[m] \in Login
         /\ \A k \in Mail \ {m} : mail'[k] = mail[k]
         /\ \E age \in {"aged", "expired"} : mail'[m] = [mail[m] EXCEPT !.age = age]
         /\ UNCHANGED request
BY DEF MailAges, MailInv, TypeOK

LEMMA SendWrites ==
  ASSUME MailInv, NEW r \in Request, CommitSend(r)
  PROVE  /\ sent + 1 \in Mail /\ mail[sent + 1] = NoMail
         /\ mail'[sent + 1] = [to |-> request[r].user, age |-> "recent", attempts |-> 0,
                               used |-> FALSE, signIns |-> 0]
         /\ request[r].user \in User
         /\ \A k \in Mail \ {sent + 1} :
              mail'[k] = IF k \in request[r].closes THEN [mail[k] EXCEPT !.used = TRUE] ELSE mail[k]
         /\ \A k \in request[r].closes : k \in Mail /\ mail[k] \in Login /\ ~Confirming(k)
         /\ request' = [request EXCEPT ![r] = Closed]
<1>1. request[r] \in Send
  BY Shapes DEF CommitSend, MailInv
<1>2. sent + 1 \in Mail /\ mail[sent + 1] = NoMail
  BY LimitsAssumption DEF CommitSend, MailInv, TypeOK, SentInOrder
<1>3. ASSUME NEW k \in request[r].closes PROVE k \in Mail /\ mail[k] \in Login /\ ~Confirming(k)
  <2>1. k \in Mail /\ mail[k] \in Login /\ Spending(k)
    BY <1>1 DEF CommitSend, MailInv, MailLocks, EarlierSent, Send, Spending
  <2> QED BY <2>1 DEF MailInv, MailLocks, Confirmed, ConfirmingBy, Confirming
<1> QED BY <1>1, <1>2, <1>3 DEF CommitSend, Send, Closes

LEMMA AccountsStay ==
  ASSUME MailInv, [Next]_vars, NEW u \in User, account[u] # "none"
  PROVE  account'[u] # "none"
<1>1. ASSUME NEW r \in Request, MailStep(r) \/ DeviceStep(r) \/ KeyStep(r) \/ RollBack(r),
             ~CommitSignIn(r)
      PROVE  UNCHANGED account
  BY <1>1 DEF MailStep, BeginSend, SpendEarlier, CommitSend, BeginLink, BeginCode, BeginConfirm,
     CommitWrongCode, DeviceStep, BeginPoll, BeginDecide, CommitDecide, CommitPoll, KeyStep,
     BeginCreate, CommitCreate, RollBack, Open, rowVars
<1>2. ASSUME NEW r \in Request, CommitSignIn(r) PROVE account'[u] # "none"
  BY <1>2 DEF CommitSignIn, MailInv, TypeOK
<1>3. ASSUME NEW m \in Mail, MailAges(m) PROVE UNCHANGED account
  BY <1>3 DEF MailAges
<1>4. ASSUME NEW d \in Device, StartDevice(d) \/ DeviceExpires(d) PROVE UNCHANGED account
  BY <1>4 DEF StartDevice, DeviceExpires
<1>5. ASSUME NEW v \in User, RevokeKey(v) \/ SignUp(v) \/ SetActive(v)
      PROVE  account'[u] # "none"
  BY <1>5 DEF RevokeKey, SignUp, SetActive, MailInv, TypeOK
<1>6. CASE UNCHANGED vars
  BY <1>6 DEF vars, rowVars
<1> QED BY <1>1, <1>2, <1>3, <1>4, <1>5, <1>6 DEF Next

\* Whoever is signed in by a mail has an account, because accounts stay and the
\* one that a request did not find is made when it commits.
THEOREM EverySignInHasAnAccount == Spec => []SignedInHasAccount
<1>1. Init => SignedInHasAccount
  BY MailFacts DEF Init, SignedInHasAccount
<1>2. MailInv /\ SignedInHasAccount /\ [Next]_vars => SignedInHasAccount'
  <2> SUFFICES ASSUME MailInv, SignedInHasAccount, [Next]_vars,
                      NEW m \in Mail, mail'[m].signIns > 0
               PROVE  account'[mail'[m].to] # "none"
    BY DEF SignedInHasAccount
  <2>1. ASSUME mail[m].signIns > 0, mail[m] \in Login, mail'[m].to = mail[m].to
        PROVE  account'[mail'[m].to] # "none"
    <3>1. mail[m].to \in User /\ account[mail[m].to] # "none"
      BY <2>1 DEF SignedInHasAccount, Login
    <3> QED BY <2>1, <3>1, AccountsStay
  <2>2. mail[m].signIns > 0 => mail[m] \in Login
    BY MailFacts DEF MailInv, TypeOK
  <2>3. CASE mail'[m] = mail[m]
    BY <2>1, <2>2, <2>3
  <2>4. ASSUME NEW r \in Request, CommitSend(r) PROVE account'[mail'[m].to] # "none"
    <3>1. CASE m = sent + 1
      <4>1. mail'[m] = [to |-> request[r].user, age |-> "recent", attempts |-> 0,
                        used |-> FALSE, signIns |-> 0]
        BY <2>4, <3>1, SendWrites
      <4>2. mail'[m].signIns = 0
        BY <4>1
      <4> QED BY <4>2
    <3>2. CASE m # sent + 1 /\ m \in request[r].closes
      <4>1. mail[m] \in Login /\ mail'[m] = [mail[m] EXCEPT !.used = TRUE]
        BY <2>4, <3>2, SendWrites
      <4>2. mail'[m].signIns = mail[m].signIns /\ mail'[m].to = mail[m].to
        BY <4>1 DEF Login
      <4> QED BY <2>1, <4>1, <4>2
    <3>3. CASE m # sent + 1 /\ m \notin request[r].closes
      BY <2>3, <2>4, <3>3, SendWrites
    <3> QED BY <3>1, <3>2, <3>3
  <2>5. ASSUME NEW r \in Request, ConfirmingBy(r, m), CommitSignIn(r) \/ CommitWrongCode(r)
        PROVE  account'[mail'[m].to] # "none"
    <3>1. mail[m] \in Login
      BY <2>5, ConfirmWrites
    <3>2. mail'[m].to = mail[m].to
      <4>1. \/ mail'[m] = [mail[m] EXCEPT !.used = TRUE, !.signIns = @ + 1]
            \/ mail'[m] = [mail[m] EXCEPT !.attempts = @ + 1]
        BY <2>5, ConfirmWrites
      <4> QED BY <3>1, <4>1 DEF Login
    <3>3. CASE ~request[r].right
      <4>1. mail'[m] = [mail[m] EXCEPT !.attempts = @ + 1]
        BY <2>5, <3>3, ConfirmWrites
      <4>2. mail'[m].signIns = mail[m].signIns
        BY <3>1, <4>1 DEF Login
      <4> QED BY <2>1, <3>1, <3>2, <4>2
    <3>4. CASE request[r].right
      <4>1. CommitSignIn(r)
        BY <2>5, <3>4 DEF CommitWrongCode
      <4>2. CASE request[r].account = "none"
        BY <2>5, <3>1, <3>2, <4>1, <4>2 DEF CommitSignIn, ConfirmingBy, MailInv, TypeOK, Login
      <4>3. CASE request[r].account # "none"
        <5>1. account[mail[m].to] # "none"
          BY <2>5, <4>3 DEF MailInv, MailLocks, Confirmed
        <5> QED BY <3>1, <3>2, <5>1, AccountsStay DEF Login
      <4> QED BY <4>2, <4>3
    <3> QED BY <3>3, <3>4
  <2>6. ASSUME NEW r \in Request, NEW k \in Mail, ConfirmingBy(r, k), k # m,
               CommitSignIn(r) \/ CommitWrongCode(r)
        PROVE  mail'[m] = mail[m]
    BY <2>6, ConfirmWrites
  <2>7. ASSUME NEW k \in Mail, MailAges(k) PROVE account'[mail'[m].to] # "none"
    <3>1. CASE k # m
      BY <2>3, <2>7, <3>1, AgeWrites
    <3>2. CASE k = m
      <4>1. mail[m] \in Login
        BY <2>7, <3>2, AgeWrites
      <4>2. mail'[m].signIns = mail[m].signIns /\ mail'[m].to = mail[m].to
        BY <2>7, <3>2, <4>1, AgeWrites, ZenonT(30) DEF Login
      <4> QED BY <2>1, <4>1, <4>2
    <3> QED BY <3>1, <3>2
  <2> QED BY <2>3, <2>4, <2>5, <2>6, <2>7, MailSteps
<1> QED BY <1>1, <1>2, MailCorrect, PTL DEF Spec

\* A mail that is not used yet signed nobody in.
UnusedUnspent == \A m \in Mail : ~mail[m].used => mail[m].signIns = 0

MailStates == [m \in Mail |-> MailState(m)]
MailHolders == [m \in Mail |-> IF mail[m].signIns > 0 THEN mail[m].to ELSE Nobody]

\* Who is confirming changes when a confirmation begins, on an open mail, and
\* when one ends.
LEMMA QuietRequest ==
  ASSUME TypeOK, NEW r \in Request, NEW read, read.kind # "confirm",
         request[r].kind # "confirm", request' = [request EXCEPT ![r] = read]
  PROVE  \A m \in Mail : Confirming(m)' = Confirming(m)
BY DEF Confirming, TypeOK

LEMMA ConfirmationEnds ==
  ASSUME MailInv, NEW r \in Request, NEW m \in Mail, ConfirmingBy(r, m), Closes(r)
  PROVE  /\ Confirming(m) /\ ~Confirming(m)'
         /\ \A k \in Mail \ {m} : Confirming(k)' = Confirming(k)
BY ClosedIsNone DEF Closes, Confirming, ConfirmingBy, MailInv, TypeOK, MailLocks, Confirmed

LEMMA ConfirmationBegins ==
  ASSUME MailInv, NEW r \in Request, NEW m \in Mail, NEW right, BeginConfirm(r, m, right)
  PROVE  IsOpen(m) /\ \A k \in Mail \ {m} : Confirming(k)' = Confirming(k)
BY ClosedIsNone DEF BeginConfirm, Open, Confirming, MailInv, TypeOK

ConfirmingStep ==
  \/ \A m \in Mail : Confirming(m)' = Confirming(m)
  \/ \E m \in Mail : /\ IsOpen(m) \/ (Confirming(m) /\ ~Confirming(m)')
                     /\ \A k \in Mail \ {m} : Confirming(k)' = Confirming(k)

LEMMA ConfirmingSteps ==
  ASSUME MailInv, [Next]_vars, UNCHANGED mail
  PROVE  ConfirmingStep
<1> USE DEF ConfirmingStep
<1>1. ASSUME NEW r \in Request, NEW m \in Mail, BeginLink(r, m) \/ BeginCode(r, m)
      PROVE  ConfirmingStep
  BY <1>1, ConfirmationBegins DEF BeginLink, BeginCode
<1>2. ASSUME NEW r \in Request, Closes(r) PROVE ConfirmingStep
  <2>1. CASE request[r].kind = "confirm"
    <3>1. PICK m \in Mail : ConfirmingBy(r, m)
      BY <2>1, Shapes DEF Confirm, ConfirmingBy, MailInv
    <3> QED BY <1>2, <3>1, ConfirmationEnds
  <2>2. CASE request[r].kind # "confirm"
    BY <1>2, <2>2, QuietRequest, ClosedIsNone DEF Closes, MailInv
  <2> QED BY <2>1, <2>2
<1>3. ASSUME NEW r \in Request, SpendEarlier(r) PROVE ConfirmingStep
  BY <1>3, Shapes DEF SpendEarlier, Confirming, MailInv, TypeOK, Send
<1>4. ASSUME NEW r \in Request, NEW read, Open(r, read), read.kind # "confirm" PROVE ConfirmingStep
  BY <1>4, QuietRequest, ClosedIsNone DEF Open, MailInv
<1>5. ASSUME NEW r \in Request, MailStep(r) \/ DeviceStep(r) \/ KeyStep(r) \/ RollBack(r)
      PROVE  ConfirmingStep
  <2>1. ASSUME NEW u \in User, BeginSend(r, u) \/ BeginCreate(r, u) PROVE ConfirmingStep
    BY <1>4, <2>1 DEF BeginSend, BeginCreate
  <2>2. ASSUME NEW d \in Device, NEW u \in User, BeginDecide(r, d, u) PROVE ConfirmingStep
    BY <1>4, <2>2 DEF BeginDecide
  <2>3. ASSUME NEW d \in Device, BeginPoll(r, d) PROVE ConfirmingStep
    BY <1>4, <2>3 DEF BeginPoll
  <2>4. CASE CommitSend(r) \/ CommitSignIn(r) \/ CommitWrongCode(r) \/ CommitDecide(r)
             \/ CommitPoll(r) \/ CommitCreate(r) \/ RollBack(r)
    BY <1>2, <2>4 DEF CommitSend, CommitSignIn, CommitWrongCode, CommitDecide, CommitPoll,
       CommitCreate, RollBack
  <2> QED BY <1>1, <1>3, <1>5, <2>1, <2>2, <2>3, <2>4 DEF MailStep, DeviceStep, KeyStep
<1>6. ASSUME UNCHANGED request PROVE ConfirmingStep
  BY <1>6 DEF Confirming
<1>7. ASSUME NEW m \in Mail, MailAges(m) PROVE UNCHANGED request
  BY <1>7 DEF MailAges
<1>8. ASSUME NEW d \in Device, StartDevice(d) \/ DeviceExpires(d) PROVE UNCHANGED request
  BY <1>8 DEF StartDevice, DeviceExpires
<1>9. ASSUME NEW u \in User, RevokeKey(u) \/ SignUp(u) \/ SetActive(u) PROVE UNCHANGED request
  BY <1>9 DEF RevokeKey, SignUp, SetActive
<1>10. CASE UNCHANGED vars
  BY <1>6, <1>10 DEF vars
<1> QED BY <1>5, <1>6, <1>7, <1>8, <1>9, <1>10 DEF Next

\* One mail closing is a step of the abstract secret.
LEMMA OneCloses ==
  ASSUME NEW m \in Mail, UNCHANGED MailHolders,
         \A k \in Mail \ {m} : MailState(k)' = MailState(k),
         \/ MailState(m)' = MailState(m)
         \/ MailState(m) = "open" /\ MailState(m)' = "closed"
  PROVE  MailSecret!Next \/ UNCHANGED MailSecret!secretVars
<1>1. CASE MailState(m)' = MailState(m)
  <2>1. \A k \in Mail : MailState(k)' = MailState(k)
    BY <1>1
  <2> QED BY <2>1 DEF MailSecret!secretVars, MailHolders
<1>2. CASE MailState(m) = "open" /\ MailState(m)' = "closed"
  <2>1. MailStates[m] = "open"
    BY <1>2 DEF MailStates
  <2>2. MailStates' = [MailStates EXCEPT ![m] = "closed"]
    BY <1>2 DEF MailStates
  <2> QED BY <2>1, <2>2 DEF MailSecret!Next, MailSecret!Close, MailStates, MailHolders
<1> QED BY <1>1, <1>2

\* What a step does to one row.
LEMMA RowSteps ==
  ASSUME MailInv, [Next]_vars, NEW m \in Mail
  PROVE  \/ mail'[m] = mail[m]
         \/ mail'[m].used = FALSE /\ mail'[m].signIns = 0
         \/ mail[m] \in Login /\ mail'[m].used /\ mail'[m].signIns = mail[m].signIns
         \/ /\ mail[m] \in Login /\ ~mail[m].used
            /\ mail'[m].used \/ (~mail'[m].used /\ mail'[m].signIns = mail[m].signIns)
         \/ mail[m] \in Login /\ mail'[m].used = mail[m].used /\ mail'[m].signIns = mail[m].signIns
<1>1. CASE UNCHANGED mail
  BY <1>1
<1>2. ASSUME NEW r \in Request, CommitSend(r)
      PROVE  \/ mail'[m] = mail[m]
             \/ mail'[m].used = FALSE /\ mail'[m].signIns = 0
             \/ mail[m] \in Login /\ mail'[m].used /\ mail'[m].signIns = mail[m].signIns
  <2>1. CASE m = sent + 1
    <3>1. mail'[m] = [to |-> request[r].user, age |-> "recent", attempts |-> 0,
                      used |-> FALSE, signIns |-> 0]
      BY <1>2, <2>1, SendWrites
    <3> QED BY <3>1
  <2>2. CASE m # sent + 1 /\ m \in request[r].closes
    <3>1. mail[m] \in Login /\ mail'[m] = [mail[m] EXCEPT !.used = TRUE]
      BY <1>2, <2>2, SendWrites
    <3>2. mail'[m].used /\ mail'[m].signIns = mail[m].signIns
      BY <3>1 DEF Login
    <3> QED BY <3>1, <3>2
  <2>3. CASE m # sent + 1 /\ m \notin request[r].closes
    BY <1>2, <2>3, SendWrites
  <2> QED BY <2>1, <2>2, <2>3
<1>3. ASSUME NEW r \in Request, NEW k \in Mail, ConfirmingBy(r, k),
             CommitSignIn(r) \/ CommitWrongCode(r)
      PROVE  \/ mail'[m] = mail[m]
             \/ /\ mail[m] \in Login /\ ~mail[m].used
                /\ mail'[m].used \/ (~mail'[m].used /\ mail'[m].signIns = mail[m].signIns)
  <2>1. CASE k # m
    BY <1>3, <2>1, ConfirmWrites
  <2>2. CASE k = m
    <3>1. mail[m] \in Login /\ ~mail[m].used
      BY <1>3, <2>2, ConfirmWrites
    <3>2. \/ mail'[m] = [mail[m] EXCEPT !.used = TRUE, !.signIns = @ + 1]
          \/ mail'[m] = [mail[m] EXCEPT !.attempts = @ + 1]
      BY <1>3, <2>2, ConfirmWrites
    <3> QED BY <3>1, <3>2 DEF Login
  <2> QED BY <2>1, <2>2
<1>4. ASSUME NEW k \in Mail, MailAges(k)
      PROVE  \/ mail'[m] = mail[m]
             \/ /\ mail[m] \in Login
                /\ mail'[m].used = mail[m].used /\ mail'[m].signIns = mail[m].signIns
  <2>1. CASE k # m
    BY <1>4, <2>1, AgeWrites
  <2>2. CASE k = m
    <3>1. mail[m] \in Login
      BY <1>4, <2>2, AgeWrites
    <3> QED BY <1>4, <2>2, <3>1, AgeWrites, ZenonT(30) DEF Login
  <2> QED BY <2>1, <2>2
<1> QED BY <1>1, <1>2, <1>3, <1>4, MailSteps

LEMMA UnspentNext == MailInv /\ UnusedUnspent /\ [Next]_vars => UnusedUnspent'
BY RowSteps DEF UnusedUnspent

-----------------------------------------------------------------------------
(* Each step of the mails is a step of the secret.                           *)

\* The state of a mail follows its row, unless its confirmation outlives it.
LEMMA SameState ==
  ASSUME NEW m \in Mail, mail'[m] = mail[m],
         Confirming(m)' = Confirming(m) \/ mail[m].used \/ IsOpen(m)
  PROVE  MailState(m)' = MailState(m)
BY DEF MailState, IsOpen

LEMMA QuietRefines ==
  ASSUME MailInv, [Next]_vars, UNCHANGED mail
  PROVE  MailSecret!Next \/ UNCHANGED MailSecret!secretVars
<1>1. UNCHANGED MailHolders
  BY DEF MailHolders
<1>2. CASE \A m \in Mail : Confirming(m)' = Confirming(m)
  <2>1. \A m \in Mail : MailState(m)' = MailState(m)
    BY <1>2, SameState
  <2> QED BY <1>1, <2>1 DEF MailSecret!secretVars, MailHolders
<1>3. ASSUME NEW m \in Mail, IsOpen(m) \/ (Confirming(m) /\ ~Confirming(m)'),
             \A k \in Mail \ {m} : Confirming(k)' = Confirming(k)
      PROVE  MailSecret!Next \/ UNCHANGED MailSecret!secretVars
  <2>1. \A k \in Mail \ {m} : MailState(k)' = MailState(k)
    BY <1>3, SameState
  <2>2. \/ MailState(m)' = MailState(m)
        \/ MailState(m) = "open" /\ MailState(m)' = "closed"
    BY <1>3 DEF MailState, IsOpen
  <2> QED BY <1>1, <2>1, <2>2, OneCloses
<1> QED BY <1>2, <1>3, ConfirmingSteps DEF ConfirmingStep

LEMMA SendRefines ==
  ASSUME MailInv, NEW r \in Request, CommitSend(r)
  PROVE  MailSecret!Next
<1>0. PICK s \in Mail : s = sent + 1
  BY SendWrites
<1> DEFINE old == {k \in request[r].closes : MailState(k) = "open"}
<1>1. mail[s] = NoMail /\ s \notin request[r].closes
  <2>1. mail[s] = NoMail /\ mail[s] \notin Login
    BY <1>0, SendWrites, MailFacts
  <2> QED BY <2>1, SendWrites
<1>2. \A m \in Mail : Confirming(m)' = Confirming(m)
  BY SendWrites, QuietRequest, ClosedIsNone DEF CommitSend, MailInv
<1>3. MailState(s) = "unissued" /\ MailState(s)' = "open" /\ mail'[s].signIns = 0
  <2>1. mail'[s] = [to |-> request[r].user, age |-> "recent", attempts |-> 0,
                    used |-> FALSE, signIns |-> 0]
    BY <1>0, SendWrites
  <2>2. /\ ~mail'[s].used /\ mail'[s].age = "recent" /\ mail'[s].signIns = 0
        /\ mail'[s] # NoMail
    BY <2>1, MailFacts
  <2>3. MailState(s)' = "open"
    BY <2>2 DEF MailState, IsOpen
  <2> QED BY <1>1, <2>2, <2>3 DEF MailState
<1>4. ASSUME NEW k \in Mail \ {s}
      PROVE  /\ MailState(k)' = IF k \in old THEN "closed" ELSE MailState(k)
             /\ mail'[k].signIns = mail[k].signIns /\ mail'[k].to = mail[k].to
  <2>1. CASE k \notin request[r].closes
    <3>1. mail'[k] = mail[k]
      BY <1>0, <2>1, SendWrites
    <3> QED BY <1>2, <2>1, <3>1, SameState
  <2>2. CASE k \in request[r].closes
    <3>1. mail[k] \in Login /\ mail'[k] = [mail[k] EXCEPT !.used = TRUE] /\ ~Confirming(k)
      BY <1>0, <2>2, SendWrites
    <3>2. /\ mail'[k] \in Login /\ mail'[k].used
          /\ mail'[k].signIns = mail[k].signIns /\ mail'[k].to = mail[k].to
          /\ mail[k].signIns \in Nat
      BY <3>1 DEF Login
    <3>3. mail[k] # NoMail /\ mail'[k] # NoMail
      BY <3>1, <3>2, MailFacts
    <3>4. MailState(k) = IF mail[k].signIns = 1 THEN "spent"
                         ELSE IF mail[k].signIns > 1 THEN "spent again"
                         ELSE IF IsOpen(k) THEN "open" ELSE "closed"
      BY <3>1, <3>3 DEF MailState
    <3>5. MailState(k)' = IF mail[k].signIns = 1 THEN "spent"
                          ELSE IF mail[k].signIns > 1 THEN "spent again" ELSE "closed"
      BY <3>2, <3>3 DEF MailState, IsOpen
    <3>6. MailState(k)' = IF MailState(k) = "open" THEN "closed" ELSE MailState(k)
      <4>1. CASE mail[k].signIns = 1 \/ mail[k].signIns > 1
        BY <3>4, <3>5, <4>1
      <4>2. CASE ~(mail[k].signIns = 1 \/ mail[k].signIns > 1)
        BY <3>4, <3>5, <4>2
      <4> QED BY <4>1, <4>2
    <3> QED BY <2>2, <3>2, <3>6
  <2> QED BY <2>1, <2>2
<1>5. UNCHANGED MailHolders
  BY <1>1, <1>3, <1>4, MailFacts DEF MailHolders
<1>6. MailStates' = [o \in Mail |-> IF o = s THEN "open"
                                   ELSE IF o \in old THEN "closed" ELSE MailStates[o]]
  BY <1>3, <1>4 DEF MailStates
<1>7. old \in SUBSET {o \in Mail : MailStates[o] = "open"}
  BY SendWrites DEF MailStates
<1>8. MailStates[s] = "unissued"
  BY <1>1, <1>3 DEF MailStates
<1> HIDE DEF old
<1> QED BY <1>1, <1>5, <1>6, <1>7, <1>8
        DEF MailSecret!Next, MailSecret!Issue, MailStates, MailHolders

LEMMA ConfirmRefines ==
  ASSUME MailInv, UnusedUnspent, NEW r \in Request, NEW m \in Mail, ConfirmingBy(r, m),
         CommitSignIn(r) \/ CommitWrongCode(r)
  PROVE  MailSecret!Next \/ UNCHANGED MailSecret!secretVars
<1>1. mail[m] \in Login /\ ~mail[m].used /\ mail[m].signIns = 0
  BY ConfirmWrites DEF UnusedUnspent
<1>2. Confirming(m)
  BY DEF Confirming, ConfirmingBy
<1>3. MailState(m) = "open"
  BY <1>1, <1>2, MailFacts DEF MailState
<1>4. \A k \in Mail \ {m} : mail'[k] = mail[k] /\ MailState(k)' = MailState(k)
  BY ConfirmWrites, ConfirmationEnds, SameState DEF CommitSignIn, CommitWrongCode
<1>5. CASE request[r].right
  <2>1. mail'[m] = [mail[m] EXCEPT !.used = TRUE, !.signIns = @ + 1]
    BY <1>5, ConfirmWrites
  <2>2. /\ mail'[m] # NoMail /\ mail'[m].signIns = 1 /\ mail'[m].to = mail[m].to
        /\ mail[m].to \in User
    <3>1. mail'[m] = [mail[m] EXCEPT !.used = TRUE, !.signIns = 1]
      BY <1>1, <2>1
    <3>2. mail'[m].signIns = 1 /\ mail'[m].to = mail[m].to
      BY <1>1, <3>1 DEF Login
    <3> QED BY <1>1, <3>2, MailFacts DEF Login
  <2>3. MailState(m)' = "spent"
    BY <2>2 DEF MailState
  <2>4. MailStates' = [MailStates EXCEPT ![m] = "spent"] /\ MailStates[m] = "open"
    BY <1>3, <1>4, <2>3 DEF MailStates
  <2>5. MailHolders' = [MailHolders EXCEPT ![m] = mail[m].to]
    <3>1. MailHolders'[m] = mail[m].to
      BY <2>2 DEF MailHolders
    <3>2. \A k \in Mail \ {m} : MailHolders'[k] = MailHolders[k]
      BY <1>4 DEF MailHolders
    <3> QED BY <3>1, <3>2 DEF MailHolders
  <2> QED BY <2>2, <2>4, <2>5 DEF MailSecret!Next, MailSecret!Spend, MailStates, MailHolders
<1>6. CASE ~request[r].right
  <2>1. mail'[m] = [mail[m] EXCEPT !.attempts = @ + 1]
    BY <1>6, ConfirmWrites
  <2>2. ~mail'[m].used /\ mail'[m].signIns = 0
    BY <1>1, <2>1 DEF Login
  <2>3. mail'[m] # NoMail
    BY <2>2, MailFacts
  <2>4. MailState(m)' \in {"open", "closed"}
    BY <2>2, <2>3 DEF MailState
  <2>5. UNCHANGED MailHolders
    BY <1>1, <1>4, <2>2 DEF MailHolders
  <2> QED BY <1>3, <1>4, <2>4, <2>5, OneCloses
<1> QED BY <1>5, <1>6

LEMMA AgeRefines ==
  ASSUME MailInv, NEW m \in Mail, MailAges(m)
  PROVE  MailSecret!Next \/ UNCHANGED MailSecret!secretVars
<1>1. mail[m] \in Login /\ \A k \in Mail \ {m} : mail'[k] = mail[k]
  BY AgeWrites
<1>2. \A k \in Mail : Confirming(k)' = Confirming(k)
  BY AgeWrites DEF Confirming
<1>3. PICK age \in {"aged", "expired"} : mail'[m] = [mail[m] EXCEPT !.age = age]
  BY AgeWrites
<1>4. /\ mail'[m] \in Login /\ mail'[m].used = mail[m].used
      /\ mail'[m].signIns = mail[m].signIns /\ mail'[m].to = mail[m].to
      /\ mail[m].signIns \in Nat
  BY <1>1, <1>3 DEF Login
<1>5. mail[m] # NoMail /\ mail'[m] # NoMail
  BY <1>1, <1>4, MailFacts
<1>6. mail[m].age # "expired"
  BY DEF MailAges
<1>7. \/ MailState(m)' = MailState(m)
      \/ MailState(m) = "open" /\ MailState(m)' = "closed"
  BY <1>2, <1>4, <1>5, <1>6 DEF MailState, IsOpen
<1>8. \A k \in Mail \ {m} : MailState(k)' = MailState(k)
  BY <1>1, <1>2, SameState
<1>9. UNCHANGED MailHolders
  BY <1>1, <1>4 DEF MailHolders
<1> QED BY <1>7, <1>8, <1>9, OneCloses

\* The code and the link of a mail sign in once between them.
THEOREM MailsSignInOnce == Spec => MailsAreOneTime
<1>1. Init => MailSecret!Init /\ UnusedUnspent
  BY MailFacts DEF Init, MailSecret!Init, MailState, UnusedUnspent, NoMail
<1>2. MailInv /\ UnusedUnspent /\ [Next]_vars => [MailSecret!Next]_(MailSecret!secretVars)
  BY QuietRefines, SendRefines, ConfirmRefines, AgeRefines, MailSteps
<1> QED BY <1>1, <1>2, UnspentNext, MailCorrect, PTL DEF Spec, MailsAreOneTime, MailSecret!Spec

-----------------------------------------------------------------------------
(* The locks of the logins: a login that is being decided is pending and one *)
(* that is being answered with a key is approved, by one request.            *)

HandledBy(r, d) == request[r].kind \in {"decide", "poll"} /\ request[r].device = d

DeviceLocks ==
  \A r \in Request, d \in Device : HandledBy(r, d) =>
    /\ request[r].kind = "decide" => device[d].status = "pending"
    /\ request[r].kind = "poll" => device[d].status = "approved"
    /\ \A q \in Request : HandledBy(q, d) => q = r

\* A login has its key when it is consumed, and its user once approved.
KeyIssued ==
  \A d \in Device :
    /\ device[d].issued = IF device[d].status = "consumed" THEN 1 ELSE 0
    /\ device[d].status \in {"approved", "consumed"} => device[d].user \in User

DeviceInv == TypeOK /\ DeviceLocks /\ KeyIssued

LEMMA HandledDevice ==
  ASSUME TypeOK, NEW r \in Request, request[r].kind \in {"decide", "poll"}
  PROVE  \E d \in Device : HandledBy(r, d)
BY Shapes DEF HandledBy, Decide, Poll

\* A step that is not about a login.
DeviceQuiet ==
  /\ UNCHANGED device
  /\ \A q \in Request, d \in Device :
       HandledBy(q, d) \/ HandledBy(q, d)' => request'[q] = request[q]

LEMMA QuietOpen ==
  ASSUME TypeOK, NEW r \in Request, NEW read, Open(r, read), read.kind \notin {"decide", "poll"}
  PROVE  DeviceQuiet
BY ClosedIsNone DEF Open, rowVars, TypeOK, DeviceQuiet, HandledBy

LEMMA QuietClose ==
  ASSUME TypeOK, NEW r \in Request, Closes(r), request[r].kind \notin {"decide", "poll"},
         UNCHANGED device
  PROVE  DeviceQuiet
BY ClosedIsNone DEF Closes, TypeOK, DeviceQuiet, HandledBy

LEMMA QuietMail ==
  ASSUME TypeOK, NEW r \in Request, MailStep(r) \/ KeyStep(r)
  PROVE  DeviceQuiet
<1>1. ASSUME NEW u \in User, BeginSend(r, u) PROVE DeviceQuiet
  BY <1>1, QuietOpen DEF BeginSend
<1>2. ASSUME NEW u \in User, BeginCreate(r, u) PROVE DeviceQuiet
  BY <1>2, QuietOpen DEF BeginCreate
<1>3. ASSUME NEW m \in Mail, BeginLink(r, m) \/ BeginCode(r, m) PROVE DeviceQuiet
  <2>1. PICK right : BeginConfirm(r, m, right)
    BY <1>3 DEF BeginLink, BeginCode
  <2> QED BY <2>1, QuietOpen DEF BeginConfirm
<1>4. CASE SpendEarlier(r)
  BY <1>4, Shapes DEF SpendEarlier, rowVars, TypeOK, Send, DeviceQuiet, HandledBy
<1>5. CASE CommitSend(r) \/ CommitSignIn(r) \/ CommitWrongCode(r) \/ CommitCreate(r)
  BY <1>5, QuietClose DEF CommitSend, CommitSignIn, CommitWrongCode, CommitCreate
<1> QED BY <1>1, <1>2, <1>3, <1>4, <1>5 DEF MailStep, KeyStep

\* What a step can do to the logins.
LEMMA DeviceSteps ==
  ASSUME TypeOK, [Next]_vars
  PROVE  \/ DeviceQuiet
         \/ \E r \in Request, d \in Device :
              BeginPoll(r, d) \/ \E u \in User : BeginDecide(r, d, u)
         \/ \E r \in Request, d \in Device :
              HandledBy(r, d) /\ (CommitDecide(r) \/ CommitPoll(r) \/ RollBack(r))
         \/ \E d \in Device : StartDevice(d) \/ DeviceExpires(d)
<1>1. ASSUME NEW r \in Request, CommitDecide(r) \/ CommitPoll(r)
      PROVE  \E d \in Device : HandledBy(r, d)
  BY <1>1, HandledDevice DEF CommitDecide, CommitPoll
<1>2. ASSUME NEW r \in Request, RollBack(r)
      PROVE  DeviceQuiet \/ \E d \in Device : HandledBy(r, d)
  BY <1>2, HandledDevice, QuietClose DEF RollBack, rowVars
<1>3. ASSUME UNCHANGED <<device, request>> PROVE DeviceQuiet
  BY <1>3 DEF DeviceQuiet
<1>4. ASSUME NEW m \in Mail, MailAges(m) PROVE UNCHANGED <<device, request>>
  BY <1>4 DEF MailAges
<1>5. ASSUME NEW u \in User, RevokeKey(u) \/ SignUp(u) \/ SetActive(u)
      PROVE  UNCHANGED <<device, request>>
  BY <1>5 DEF RevokeKey, SignUp, SetActive
<1>6. CASE UNCHANGED vars
  BY <1>3, <1>6 DEF vars, rowVars
<1> QED BY <1>1, <1>2, <1>3, <1>4, <1>5, <1>6, QuietMail DEF Next, DeviceStep

\* What a decision and a key write.
LEMMA DecideWrites ==
  ASSUME DeviceInv, NEW r \in Request, NEW d \in Device, HandledBy(r, d), CommitDecide(r)
  PROVE  /\ device[d].status = "pending" /\ device[d].issued = 0
         /\ device'[d].status \in {"approved", "denied"}
         /\ device'[d].user \in User
         /\ device'[d].issued = 0
         /\ \A e \in Device \ {d} : device'[e] = device[e]
<1>1. request[r].user \in User /\ request[r].status \in {"approved", "denied"}
  BY Shapes DEF CommitDecide, Decide, DeviceInv
<1>2. device[d].status = "pending" /\ device[d].issued = 0
  BY DEF CommitDecide, DeviceInv, DeviceLocks, KeyIssued
<1>3. device'[d] = [device[d] EXCEPT !.status = request[r].status, !.user = request[r].user]
  BY DEF CommitDecide, HandledBy, DeviceInv, TypeOK
<1>4. device[d] \in AnyLogin
  BY DeviceFields DEF DeviceInv
<1>5. /\ device'[d].status = request[r].status /\ device'[d].user = request[r].user
      /\ device'[d].issued = device[d].issued
  BY <1>3, <1>4 DEF AnyLogin
<1>6. \A e \in Device \ {d} : device'[e] = device[e]
  BY DEF CommitDecide, HandledBy, DeviceInv, TypeOK
<1> QED BY <1>1, <1>2, <1>5, <1>6

LEMMA PollWrites ==
  ASSUME DeviceInv, NEW r \in Request, NEW d \in Device, HandledBy(r, d), CommitPoll(r)
  PROVE  /\ device[d].status = "approved" /\ device[d].issued = 0 /\ device[d].user \in User
         /\ device'[d].status = "consumed"
         /\ device'[d].user = device[d].user
         /\ device'[d].issued = 1
         /\ \A e \in Device \ {d} : device'[e] = device[e]
<1>1. device[d].status = "approved" /\ device[d].issued = 0 /\ device[d].user \in User
  BY DEF CommitPoll, DeviceInv, DeviceLocks, KeyIssued
<1>2. device'[d] = [device[d] EXCEPT !.status = "consumed", !.issued = 1]
  BY <1>1 DEF CommitPoll, HandledBy, DeviceInv, TypeOK
<1>3. device[d] \in AnyLogin
  BY DeviceFields DEF DeviceInv
<1>4. /\ device'[d].status = "consumed" /\ device'[d].user = device[d].user
      /\ device'[d].issued = 1
  BY <1>2, <1>3 DEF AnyLogin
<1>5. \A e \in Device \ {d} : device'[e] = device[e]
  BY DEF CommitPoll, HandledBy, DeviceInv, TypeOK
<1> QED BY <1>1, <1>4, <1>5

LEMMA ClockWrites ==
  ASSUME DeviceInv, NEW d \in Device, DeviceExpires(d)
  PROVE  /\ device[d].status # "unstarted" /\ ~device[d].expired
         /\ device'[d].status = device[d].status /\ device'[d].user = device[d].user
         /\ device'[d].issued = device[d].issued /\ device'[d].expired
         /\ \A e \in Device \ {d} : device'[e] = device[e]
         /\ UNCHANGED request
<1>1. device[d] \in CliLogin
  BY DEF DeviceExpires, DeviceInv, TypeOK
<1>2. device'[d] = [device[d] EXCEPT !.expired = TRUE]
  BY DEF DeviceExpires, DeviceInv, TypeOK
<1> QED BY <1>1, <1>2 DEF DeviceExpires, CliLogin, DeviceInv, TypeOK

LEMMA StartWrites ==
  ASSUME DeviceInv, NEW d \in Device, StartDevice(d)
  PROVE  /\ device[d].status = "unstarted" /\ device[d].issued = 0
         /\ device'[d].status = "pending" /\ device'[d].issued = 0 /\ ~device'[d].expired
         /\ \A e \in Device \ {d} : device'[e] = device[e]
         /\ UNCHANGED request
BY DEF StartDevice, DeviceInv, TypeOK, NoLogin, Started

LEMMA LocksRelease ==
  ASSUME DeviceInv, NEW r \in Request, NEW d \in Device, HandledBy(r, d), Closes(r),
         \A e \in Device \ {d} : device'[e] = device[e]
  PROVE  /\ DeviceLocks'
         /\ DeviceLocked(d) /\ ~DeviceLocked(d)'
         /\ \A e \in Device \ {d} : DeviceLocked(e)' = DeviceLocked(e)
<1>1. ASSUME NEW q \in Request, NEW e \in Device
      PROVE  /\ HandledBy(q, e)' => q # r /\ request'[q] = request[q] /\ HandledBy(q, e) /\ e # d
             /\ HandledBy(q, e) /\ e # d => HandledBy(q, e)'
  BY ClosedIsNone DEF Closes, HandledBy, DeviceInv, TypeOK, DeviceLocks
<1>2. DeviceLocks'
  BY <1>1 DEF DeviceLocks, DeviceInv
<1>3. \A e \in Device : DeviceLocked(e) = \E q \in Request : HandledBy(q, e)
  BY DEF DeviceLocked, HandledBy
<1>4. \A e \in Device : DeviceLocked(e)' = \E q \in Request : HandledBy(q, e)'
  BY DEF DeviceLocked, HandledBy
<1> QED BY <1>1, <1>2, <1>3, <1>4

LEMMA LocksTaken ==
  ASSUME DeviceInv, NEW r \in Request, NEW d \in Device,
         BeginPoll(r, d) \/ \E u \in User : BeginDecide(r, d, u)
  PROVE  /\ DeviceLocks'
         /\ UNCHANGED device
         /\ device[d].status = "approved" \/ (device[d].status = "pending" /\ ~device[d].expired)
         /\ \A e \in Device \ {d} : DeviceLocked(e)' = DeviceLocked(e)
<1> DEFINE Takes(read) ==
      /\ Open(r, read) /\ read.device = d
      /\ \/ read.kind = "poll" /\ device[d].status = "approved"
         \/ read.kind = "decide" /\ device[d].status = "pending" /\ ~device[d].expired
<1>1. PICK read : Takes(read)
  <2>1. ASSUME BeginPoll(r, d) PROVE Takes([kind |-> "poll", device |-> d])
    BY <2>1 DEF BeginPoll
  <2>2. ASSUME NEW u \in User, BeginDecide(r, d, u)
        PROVE  \E status : Takes([kind |-> "decide", device |-> d, user |-> u, status |-> status])
    BY <2>2 DEF BeginDecide
  <2> HIDE DEF Takes
  <2> QED BY <2>1, <2>2
<1>2. \A q \in Request : ~HandledBy(q, d)
  BY DEF BeginPoll, BeginDecide, DeviceLocked, HandledBy
<1>3. UNCHANGED device /\ request' = [request EXCEPT ![r] = read] /\ request[r] = Closed
  BY <1>1 DEF Open, rowVars
<1>4. ASSUME NEW q \in Request, NEW e \in Device
      PROVE  HandledBy(q, e)' <=> HandledBy(q, e) \/ (q = r /\ e = d)
  BY <1>1, <1>3, ClosedIsNone DEF HandledBy, DeviceInv, TypeOK
<1>5. request'[r] = read /\ \A q \in Request \ {r} : request'[q] = request[q]
  BY <1>3 DEF DeviceInv, TypeOK
<1>6. ASSUME NEW q \in Request, NEW e \in Device, HandledBy(q, e)'
      PROVE  /\ request'[q].kind = "decide" => device'[e].status = "pending"
             /\ request'[q].kind = "poll" => device'[e].status = "approved"
             /\ \A p \in Request : HandledBy(p, e)' => p = q
  <2>1. CASE q = r /\ e = d
    BY <1>1, <1>2, <1>3, <1>4, <1>5, <2>1
  <2>2. CASE HandledBy(q, e)
    <3>1. q # r /\ e # d
      BY <1>2, <1>3, <2>2, ClosedIsNone DEF HandledBy
    <3> QED BY <1>3, <1>4, <1>5, <2>2, <3>1 DEF DeviceInv, DeviceLocks
  <2> QED BY <1>4, <1>6, <2>1, <2>2
<1>7. DeviceLocks'
  BY <1>6 DEF DeviceLocks
<1>8. \A e \in Device : DeviceLocked(e) = \E q \in Request : HandledBy(q, e)
  BY DEF DeviceLocked, HandledBy
<1>9. \A e \in Device : DeviceLocked(e)' = \E q \in Request : HandledBy(q, e)'
  BY DEF DeviceLocked, HandledBy
<1> QED BY <1>1, <1>3, <1>4, <1>7, <1>8, <1>9

LEMMA DeviceLocksNext == DeviceInv /\ [Next]_vars => DeviceLocks'
<1> SUFFICES ASSUME DeviceInv, [Next]_vars PROVE DeviceLocks'
  OBVIOUS
<1>1. CASE DeviceQuiet
  <2>1. ASSUME NEW q \in Request, NEW d \in Device, HandledBy(q, d)'
        PROVE  HandledBy(q, d) /\ request'[q] = request[q]
    BY <1>1, <2>1 DEF DeviceQuiet, HandledBy
  <2> QED BY <1>1, <2>1 DEF DeviceQuiet, DeviceLocks, DeviceInv
<1>2. ASSUME NEW r \in Request, NEW d \in Device, HandledBy(r, d),
             CommitDecide(r) \/ CommitPoll(r) \/ RollBack(r)
      PROVE  DeviceLocks'
  <2>1. Closes(r)
    BY <1>2 DEF CommitDecide, CommitPoll, RollBack
  <2>2. \A e \in Device \ {d} : device'[e] = device[e]
    BY <1>2, DecideWrites, PollWrites DEF RollBack, rowVars
  <2> QED BY <1>2, <2>1, <2>2, LocksRelease
<1>3. ASSUME NEW d \in Device, StartDevice(d) \/ DeviceExpires(d) PROVE DeviceLocks'
  <2>1. UNCHANGED request
    BY <1>3 DEF StartDevice, DeviceExpires
  <2>2. \A q \in Request, e \in Device : HandledBy(q, e)' = HandledBy(q, e)
    BY <2>1 DEF HandledBy
  <2>3. ASSUME NEW q \in Request, NEW e \in Device, HandledBy(q, e)
        PROVE  device'[e].status = device[e].status
    <3>1. device[e].status # "unstarted"
      BY <2>3 DEF DeviceInv, DeviceLocks, HandledBy
    <3> QED BY <1>3, <3>1, StartWrites, ClockWrites
  <2> QED BY <2>1, <2>2, <2>3 DEF DeviceLocks, DeviceInv
<1> QED BY <1>1, <1>2, <1>3, DeviceSteps, LocksTaken DEF DeviceInv

LEMMA KeyIssuedNext == DeviceInv /\ [Next]_vars => KeyIssued'
<1> SUFFICES ASSUME DeviceInv, [Next]_vars, NEW d \in Device
             PROVE  /\ device'[d].issued = IF device'[d].status = "consumed" THEN 1 ELSE 0
                    /\ device'[d].status \in {"approved", "consumed"} => device'[d].user \in User
  BY DEF KeyIssued
<1>1. CASE device'[d] = device[d]
  BY <1>1 DEF DeviceInv, KeyIssued
<1>2. CASE DeviceQuiet
  BY <1>1, <1>2 DEF DeviceQuiet
<1>3. ASSUME NEW r \in Request, NEW e \in Device,
             BeginPoll(r, e) \/ \E u \in User : BeginDecide(r, e, u)
      PROVE  UNCHANGED device
  BY <1>3, LocksTaken
<1>4. ASSUME NEW r \in Request, NEW e \in Device, HandledBy(r, e),
             CommitDecide(r) \/ CommitPoll(r) \/ RollBack(r)
      PROVE  \/ device'[d] = device[d]
             \/ device'[d].status \in {"approved", "denied"} /\ device'[d].issued = 0
                /\ device'[d].user \in User
             \/ device'[d].status = "consumed" /\ device'[d].issued = 1 /\ device'[d].user \in User
  <2>1. CASE CommitDecide(r)
    BY <1>4, <2>1, DecideWrites
  <2>2. CASE CommitPoll(r)
    BY <1>4, <2>2, PollWrites
  <2>3. CASE RollBack(r)
    BY <2>3 DEF RollBack, rowVars
  <2> QED BY <1>4, <2>1, <2>2, <2>3
<1>5. ASSUME NEW e \in Device, StartDevice(e)
      PROVE  device'[d] = device[d] \/ (device'[d].status = "pending" /\ device'[d].issued = 0)
  BY <1>5, StartWrites
<1>6. ASSUME NEW e \in Device, DeviceExpires(e)
      PROVE  \/ device'[d] = device[d]
             \/ /\ device'[d].status = device[d].status /\ device'[d].user = device[d].user
                /\ device'[d].issued = device[d].issued
  BY <1>6, ClockWrites
<1>7. ASSUME device'[d].status = device[d].status, device'[d].user = device[d].user,
             device'[d].issued = device[d].issued
      PROVE  /\ device'[d].issued = IF device'[d].status = "consumed" THEN 1 ELSE 0
             /\ device'[d].status \in {"approved", "consumed"} => device'[d].user \in User
  BY <1>7 DEF DeviceInv, KeyIssued
<1> QED BY <1>1, <1>2, <1>3, <1>4, <1>5, <1>6, <1>7, DeviceSteps DEF DeviceInv

LEMMA DeviceCorrect == Spec => []DeviceInv
<1>1. Init => DeviceLocks /\ KeyIssued
  BY ClosedIsNone DEF Init, DeviceLocks, KeyIssued, HandledBy, NoLogin
<1>2. DeviceInv /\ MailInv /\ MailInv' /\ [Next]_vars => DeviceInv'
  BY DeviceLocksNext, KeyIssuedNext DEF DeviceInv, MailInv
<1>3. Init /\ MailInv => DeviceInv
  BY <1>1 DEF DeviceInv, MailInv
<1> QED BY <1>2, <1>3, MailCorrect, PTL DEF Spec

\* What one person decided about a login, another's decision does not change.
THEOREM DecisionsStand == Spec => DecisionStands
<1>1. DeviceInv /\ [Next]_vars =>
        [\A d \in Device : device[d].status \in {"approved", "denied", "consumed"}
           => /\ device'[d].user = device[d].user
              /\ device'[d].status \in {device[d].status} \cup
                   (IF device[d].status = "approved" THEN {"consumed"} ELSE {})]_vars
  <2> SUFFICES ASSUME DeviceInv, [Next]_vars, NEW d \in Device,
                      device[d].status \in {"approved", "denied", "consumed"}
               PROVE  /\ device'[d].user = device[d].user
                      /\ \/ device'[d].status = device[d].status
                         \/ device[d].status = "approved" /\ device'[d].status = "consumed"
    OBVIOUS
  <2>1. CASE device'[d] = device[d]
    BY <2>1
  <2>2. CASE DeviceQuiet
    BY <2>1, <2>2 DEF DeviceQuiet
  <2>3. ASSUME NEW r \in Request, NEW e \in Device,
               BeginPoll(r, e) \/ \E u \in User : BeginDecide(r, e, u)
        PROVE  UNCHANGED device
    BY <2>3, LocksTaken
  <2>4. ASSUME NEW r \in Request, NEW e \in Device, HandledBy(r, e),
               CommitDecide(r) \/ CommitPoll(r) \/ RollBack(r)
        PROVE  \/ device'[d] = device[d]
               \/ /\ device[d].status = "approved" /\ device'[d].status = "consumed"
                  /\ device'[d].user = device[d].user
    <3>1. CASE CommitDecide(r)
      BY <2>4, <3>1, DecideWrites
    <3>2. CASE CommitPoll(r)
      BY <2>4, <3>2, PollWrites
    <3>3. CASE RollBack(r)
      BY <3>3 DEF RollBack, rowVars
    <3> QED BY <2>4, <3>1, <3>2, <3>3
  <2>5. ASSUME NEW e \in Device, StartDevice(e) \/ DeviceExpires(e)
        PROVE  device'[d].status = device[d].status /\ device'[d].user = device[d].user
    BY <2>5, StartWrites, ClockWrites
  <2> QED BY <2>1, <2>2, <2>3, <2>4, <2>5, DeviceSteps DEF DeviceInv
<1> QED BY <1>1, DeviceCorrect, PTL DEF Spec, DecisionStands

-----------------------------------------------------------------------------
(* Each step of the logins is a step of the secret.                          *)

DeviceStates == [d \in Device |-> DeviceState(d)]
DeviceHolders == [d \in Device |-> IF device[d].issued > 0 THEN device[d].user ELSE Nobody]

LEMMA OneExpires ==
  ASSUME NEW d \in Device, UNCHANGED DeviceHolders,
         \A e \in Device \ {d} : DeviceState(e)' = DeviceState(e),
         \/ DeviceState(d)' = DeviceState(d)
         \/ DeviceState(d) = "open" /\ DeviceState(d)' = "closed"
  PROVE  DeviceSecret!Next \/ UNCHANGED DeviceSecret!secretVars
<1>1. CASE DeviceState(d)' = DeviceState(d)
  <2>1. \A e \in Device : DeviceState(e)' = DeviceState(e)
    BY <1>1
  <2> QED BY <2>1 DEF DeviceSecret!secretVars, DeviceHolders
<1>2. CASE DeviceState(d) = "open" /\ DeviceState(d)' = "closed"
  <2>1. DeviceStates[d] = "open"
    BY <1>2 DEF DeviceStates
  <2>2. DeviceStates' = [DeviceStates EXCEPT ![d] = "closed"]
    BY <1>2 DEF DeviceStates
  <2> QED BY <2>1, <2>2 DEF DeviceSecret!Next, DeviceSecret!Close, DeviceStates, DeviceHolders
<1> QED BY <1>1, <1>2

\* The state of a login follows its row, and its lock when it is pending.
LEMMA SameDevice ==
  ASSUME NEW d \in Device, device'[d] = device[d],
         \/ DeviceLocked(d)' = DeviceLocked(d)
         \/ device[d].status # "pending"
         \/ ~device[d].expired
  PROVE  DeviceState(d)' = DeviceState(d)
BY DEF DeviceState, DeadlinePassed

\* A login without a key is open until it is denied or nobody decides in time.
LEMMA KeylessState ==
  ASSUME NEW d \in Device, device[d].issued = 0, device[d].status # "unstarted"
  PROVE  DeviceState(d) = IF device[d].status = "denied" \/ DeadlinePassed(d)
                          THEN "closed" ELSE "open"
BY DEF DeviceState

LEMMA KeylessNext ==
  ASSUME NEW d \in Device, device'[d].issued = 0, device'[d].status # "unstarted"
  PROVE  DeviceState(d)' = IF device'[d].status = "denied" \/ DeadlinePassed(d)'
                           THEN "closed" ELSE "open"
BY DEF DeviceState

LEMMA QuietDevices ==
  ASSUME DeviceInv, DeviceQuiet
  PROVE  UNCHANGED DeviceSecret!secretVars
<1>1. \A q \in Request, d \in Device : HandledBy(q, d)' = HandledBy(q, d)
  BY DEF DeviceQuiet, HandledBy
<1>2. \A d \in Device : DeviceLocked(d)' = DeviceLocked(d)
  BY <1>1 DEF DeviceLocked, HandledBy
<1>3. \A d \in Device : device'[d] = device[d] /\ DeviceState(d)' = DeviceState(d)
  BY <1>2, SameDevice DEF DeviceQuiet
<1> QED BY <1>3 DEF DeviceSecret!secretVars

LEMMA LockDevices ==
  ASSUME DeviceInv, NEW r \in Request, NEW d \in Device,
         BeginPoll(r, d) \/ \E u \in User : BeginDecide(r, d, u)
  PROVE  UNCHANGED DeviceSecret!secretVars
<1>1. \A e \in Device : device'[e] = device[e] /\ DeviceState(e)' = DeviceState(e)
  BY LocksTaken, SameDevice
<1> QED BY <1>1 DEF DeviceSecret!secretVars

LEMMA RollBackDevices ==
  ASSUME DeviceInv, NEW r \in Request, NEW d \in Device, HandledBy(r, d), RollBack(r)
  PROVE  DeviceSecret!Next \/ UNCHANGED DeviceSecret!secretVars
<1>1. UNCHANGED device
  BY DEF RollBack, rowVars
<1>2. /\ DeviceLocked(d) /\ ~DeviceLocked(d)'
      /\ \A e \in Device \ {d} : DeviceLocked(e)' = DeviceLocked(e)
  BY <1>1, LocksRelease DEF RollBack
<1>3. \A e \in Device \ {d} : DeviceState(e)' = DeviceState(e)
  BY <1>1, <1>2, SameDevice
<1>4. device[d].issued = 0 /\ device[d].status \in {"pending", "approved"}
  BY DEF HandledBy, DeviceInv, DeviceLocks, KeyIssued
<1>5. DeviceState(d) = "open" /\ DeviceState(d)' \in {"open", "closed"}
  BY <1>1, <1>2, <1>4, KeylessState, KeylessNext DEF DeadlinePassed
<1> QED BY <1>1, <1>3, <1>5, OneExpires DEF DeviceHolders

LEMMA DecideDevices ==
  ASSUME DeviceInv, NEW r \in Request, NEW d \in Device, HandledBy(r, d), CommitDecide(r)
  PROVE  DeviceSecret!Next \/ UNCHANGED DeviceSecret!secretVars
<1>1. /\ device[d].status = "pending" /\ device[d].issued = 0 /\ device'[d].issued = 0
      /\ device'[d].status \in {"approved", "denied"}
      /\ \A e \in Device \ {d} : device'[e] = device[e]
  BY DecideWrites
<1>2. DeviceLocked(d) /\ \A e \in Device \ {d} : DeviceLocked(e)' = DeviceLocked(e)
  BY <1>1, LocksRelease DEF CommitDecide
<1>3. \A e \in Device \ {d} : DeviceState(e)' = DeviceState(e)
  BY <1>1, <1>2, SameDevice
<1>4. DeviceState(d) = "open" /\ DeviceState(d)' \in {"open", "closed"}
  BY <1>1, <1>2, KeylessState, KeylessNext DEF DeadlinePassed
<1>5. UNCHANGED DeviceHolders
  BY <1>1 DEF DeviceHolders
<1> QED BY <1>3, <1>4, <1>5, OneExpires

LEMMA PollDevices ==
  ASSUME DeviceInv, NEW r \in Request, NEW d \in Device, HandledBy(r, d), CommitPoll(r)
  PROVE  DeviceSecret!Next
<1>1. /\ device[d].status = "approved" /\ device[d].issued = 0 /\ device[d].user \in User
      /\ device'[d].status = "consumed" /\ device'[d].user = device[d].user
      /\ device'[d].issued = 1
      /\ \A e \in Device \ {d} : device'[e] = device[e]
  BY PollWrites
<1>2. \A e \in Device \ {d} : DeviceLocked(e)' = DeviceLocked(e)
  BY <1>1, LocksRelease DEF CommitPoll
<1>3. \A e \in Device \ {d} : DeviceState(e)' = DeviceState(e)
  BY <1>1, <1>2, SameDevice
<1>4. DeviceState(d) = "open"
  BY <1>1, KeylessState DEF DeadlinePassed
<1>5. DeviceState(d)' = "spent"
  BY <1>1 DEF DeviceState
<1>6. DeviceStates[d] = "open" /\ DeviceStates' = [DeviceStates EXCEPT ![d] = "spent"]
  BY <1>3, <1>4, <1>5 DEF DeviceStates
<1>7. DeviceHolders' = [DeviceHolders EXCEPT ![d] = device[d].user]
  <2>1. DeviceHolders'[d] = device[d].user
    BY <1>1 DEF DeviceHolders
  <2>2. \A e \in Device \ {d} : DeviceHolders'[e] = DeviceHolders[e]
    BY <1>1 DEF DeviceHolders
  <2> QED BY <2>1, <2>2 DEF DeviceHolders
<1> QED BY <1>1, <1>6, <1>7 DEF DeviceSecret!Next, DeviceSecret!Spend, DeviceStates, DeviceHolders

LEMMA ClockDevices ==
  ASSUME DeviceInv, NEW d \in Device, DeviceExpires(d)
  PROVE  DeviceSecret!Next \/ UNCHANGED DeviceSecret!secretVars
<1>1. /\ device[d].status # "unstarted" /\ ~device[d].expired
      /\ device'[d].status = device[d].status /\ device'[d].user = device[d].user
      /\ device'[d].issued = device[d].issued
      /\ \A e \in Device \ {d} : device'[e] = device[e]
      /\ UNCHANGED request
  BY ClockWrites
<1>2. \A e \in Device : DeviceLocked(e)' = DeviceLocked(e)
  BY <1>1 DEF DeviceLocked
<1>3. \A e \in Device \ {d} : DeviceState(e)' = DeviceState(e)
  BY <1>1, <1>2, SameDevice
<1>4. \/ DeviceState(d)' = DeviceState(d)
      \/ DeviceState(d) = "open" /\ DeviceState(d)' = "closed"
  BY <1>1 DEF DeviceState, DeadlinePassed
<1>5. UNCHANGED DeviceHolders
  BY <1>1 DEF DeviceHolders
<1> QED BY <1>3, <1>4, <1>5, OneExpires

LEMMA StartDevices ==
  ASSUME DeviceInv, NEW d \in Device, StartDevice(d)
  PROVE  DeviceSecret!Next
<1>1. /\ device[d].status = "unstarted" /\ device[d].issued = 0
      /\ device'[d].status = "pending" /\ device'[d].issued = 0 /\ ~device'[d].expired
      /\ \A e \in Device \ {d} : device'[e] = device[e]
      /\ UNCHANGED request
  BY StartWrites
<1>2. \A e \in Device : DeviceLocked(e)' = DeviceLocked(e)
  BY <1>1 DEF DeviceLocked
<1>3. \A e \in Device \ {d} : DeviceState(e)' = DeviceState(e)
  BY <1>1, <1>2, SameDevice
<1>4. DeviceState(d) = "unissued"
  BY <1>1 DEF DeviceState
<1>5. DeviceState(d)' = "open"
  BY <1>1, KeylessNext DEF DeadlinePassed
<1>6. DeviceStates[d] = "unissued"
  BY <1>4 DEF DeviceStates
<1>7. PICK old \in SUBSET {e \in Device : DeviceStates[e] = "open"} : old = {}
  OBVIOUS
<1>8. DeviceStates' = [e \in Device |-> IF e = d THEN "open"
                                       ELSE IF e \in old THEN "closed" ELSE DeviceStates[e]]
  BY <1>3, <1>5, <1>7 DEF DeviceStates
<1>9. UNCHANGED DeviceHolders
  BY <1>1 DEF DeviceHolders
<1>10. DeviceSecret!Issue(d)
  BY <1>6, <1>8, <1>9 DEF DeviceSecret!Issue, DeviceStates, DeviceHolders
<1> QED BY <1>10 DEF DeviceSecret!Next

\* A login yields one key, to the person who approved it, and none once it is
\* denied or was not decided in time.
THEOREM LoginsYieldOneKey == Spec => DevicesAreOneTime
<1>1. Init => DeviceSecret!Init
  BY DEF Init, DeviceSecret!Init, DeviceState, NoLogin
<1>2. DeviceInv /\ [Next]_vars => [DeviceSecret!Next]_(DeviceSecret!secretVars)
  BY DeviceSteps, QuietDevices, LockDevices, RollBackDevices, DecideDevices, PollDevices,
     ClockDevices, StartDevices DEF DeviceInv
<1> QED BY <1>1, <1>2, DeviceCorrect, PTL DEF Spec, DevicesAreOneTime, DeviceSecret!Spec
=============================================================================
