----------------------------- MODULE CodeForms -----------------------------
(* The two forms that mail a code and then ask for it: signing in by email    *)
(* (email-sign-in.tsx) and claiming a listing (claim-listing.tsx).  The field *)
(* stays editable while the request is out, the sign-in form can be sent back *)
(* to the first step while a code is being checked, and any answer may be     *)
(* lost.  The server's part: the newest unused sign-in code of an address     *)
(* works once (email_login.py); a reader has one claim per listing, and its   *)
(* newest code confirms it (claims.py).                                       *)
EXTENDS ApiClient, FiniteSets

CONSTANTS
    Addresses,   \* what may be typed as the address
    Deactivated, \* the addresses whose account is switched off
    MaxMails,    \* bound: codes mailed
    MaxChecks    \* bound: codes typed

ASSUME CodeFormsAssumption ==
    /\ MaxMails \in Nat \ {0} /\ MaxChecks \in Nat
    /\ "" \notin Addresses /\ Deactivated \subseteq Addresses

VARIABLES
    codeForm,    \* which form this is
    email,       \* useState: the address field
    asking,      \* the hook that asks for a code
    sentTo,      \* the address the second step names, "" on the first step
    checking,    \* the check of a typed code, its request and how it stands
    wrongCode,   \* the second step says the code is wrong
    entered,     \* the address signed in with or confirmed, "" before that
    codes,       \* server: the codes mailed, in order
    myClaim,     \* server: this reader's claim on the listing
    maintains,   \* whether the reader's listings hold this one already
    checksDone   \* codes typed so far

codeVars == <<codeForm, email, asking, sentTo, checking, wrongCode, entered, codes,
              myClaim, maintains, checksDone>>

RequestEmailLogin(to) == Request("RequestEmailLogin", <<>>, to)
ConfirmEmailLogin(to, code) == Request("ConfirmEmailLogin", <<to, code>>, "none")
ClaimTool(slug, to) == Request("ClaimTool", <<slug>>, to)
VerifyToolClaim(claim, code) == Request("VerifyToolClaim", <<claim, code>>, "none")

NoClaimYet == [email |-> "", verified |-> FALSE]
CodeInit ==
    /\ codeForm \in {"signin", "claim"}
    /\ email = "" /\ asking = NoCall /\ sentTo = "" /\ checking = NoCall
    /\ wrongCode = FALSE /\ entered = "" /\ codes = <<>> /\ checksDone = 0
    /\ myClaim \in {NoClaimYet} \cup
          (IF codeForm = "claim" THEN {[NoClaimYet EXCEPT !.email = "earlier"]} ELSE {})
    /\ maintains \in (IF codeForm = "claim" THEN {"pending", "refused"} ELSE {"no"})

\* the code of a mail that can still be used: the newest one of the address
Newest(to) == {i \in DOMAIN codes : codes[i].to = to
                   /\ \A j \in DOMAIN codes : codes[j].to = to => j <= i}
Mailed(to) == Append(codes, [to |-> to, used |-> FALSE])

----------------------------------------------------------------------------
\* "Claim this listing" appears once the reader's own listings have been read,
\* and not to who maintains it; a read that failed counts as not maintaining
ListingsRead ==
    /\ maintains = "pending"
    /\ maintains' \in {"yes", "no"}
    /\ UNCHANGED <<codeForm, email, asking, sentTo, checking, wrongCode, entered, codes,
                   myClaim, checksDone>>

FirstStep == sentTo = "" /\ entered = "" /\ maintains \in {"no", "refused"}
TypeEmail ==
    /\ FirstStep
    /\ \E to \in Addresses \ {email} : email' = to
    /\ UNCHANGED <<codeForm, asking, sentTo, checking, wrongCode, entered, codes, myClaim,
                   maintains, checksDone>>

AskForCode ==
    /\ FirstStep /\ email # "" /\ ~Pending(asking)
    /\ asking' = Sent(IF codeForm = "signin" THEN RequestEmailLogin(email)
                                             ELSE ClaimTool("tool", email))
    /\ UNCHANGED <<codeForm, email, sentTo, checking, wrongCode, entered, codes, myClaim,
                   maintains, checksDone>>

\* A sign-in code is mailed, unless one was a moment ago or the account is
\* switched off, and the page is told the same; a claim stands though its mail
\* failed, and a second claim on the listing is refused.
ServeCode ==
    LET to == asking.req.body IN
    /\ asking.stage = "sent"
    /\ \/ /\ asking.req.op = "RequestEmailLogin"
          /\ \/ to \notin Deactivated /\ Len(codes) < MaxMails /\ codes' = Mailed(to)
             \/ (to \in Deactivated \/ Newest(to) # {}) /\ UNCHANGED codes
          /\ UNCHANGED myClaim
          /\ \E arrives \in BOOLEAN :
                asking' = IF arrives THEN Succeeds(asking, to) ELSE Fails(asking)
       \/ /\ asking.req.op = "ClaimTool" /\ myClaim = NoClaimYet
          /\ codes' \in {codes, Mailed(to)}
          /\ myClaim' = [email |-> to, verified |-> FALSE]
          /\ \E arrives \in BOOLEAN :
                asking' = IF arrives THEN Succeeds(asking, to) ELSE Fails(asking)
       \/ asking' = Fails(asking) /\ UNCHANGED <<codes, myClaim>>
    /\ UNCHANGED <<codeForm, email, sentTo, checking, wrongCode, entered, maintains,
                   checksDone>>

\* the second step names the address the request was made with: the field as it
\* was on submit, or the claim the API answered with
AddressInField == email
AddressAsked == asking.req.body
CodeAsked ==
    /\ asking.stage = "answered"
    /\ asking' = NoCall
    /\ sentTo' = IF asking.ok THEN AddressAsked ELSE sentTo
    /\ UNCHANGED <<codeForm, email, checking, wrongCode, entered, codes, myClaim,
                   maintains, checksDone>>

\* "Use a different email", whether or not a code is being checked
UseDifferentEmail ==
    /\ codeForm = "signin" /\ sentTo # "" /\ entered = ""
    /\ sentTo' = "" /\ wrongCode' = FALSE
    /\ UNCHANGED <<codeForm, email, asking, checking, entered, codes, myClaim, maintains,
                   checksDone>>

----------------------------------------------------------------------------
\* a code from some mail, or a mistyped one (0)
SubmitCode ==
    /\ sentTo # "" /\ entered = "" /\ ~Pending(checking) /\ checksDone < MaxChecks
    /\ checksDone' = checksDone + 1
    /\ \E code \in {0} \cup DOMAIN codes :
          checking' = Sent(IF codeForm = "signin" THEN ConfirmEmailLogin(sentTo, code)
                                                  ELSE VerifyToolClaim("claim", code))
    /\ wrongCode' = FALSE
    /\ UNCHANGED <<codeForm, email, asking, sentTo, entered, codes, myClaim, maintains>>

RightCode(to, code) == code \in Newest(to) /\ ~codes[code].used
ServeCheck ==
    LET signsIn == checking.req.op = "ConfirmEmailLogin"
        to == IF signsIn THEN checking.req.path[1] ELSE myClaim.email
        code == checking.req.path[2] IN
    /\ checking.stage = "sent"
    /\ \/ /\ RightCode(to, code)
          /\ codes' = [codes EXCEPT ![code].used = TRUE]
          /\ myClaim' = IF signsIn THEN myClaim ELSE [myClaim EXCEPT !.verified = TRUE]
          /\ \E arrives \in BOOLEAN :
                checking' = IF arrives THEN Succeeds(checking, to) ELSE Fails(checking)
       \/ checking' = Fails(checking) /\ UNCHANGED <<codes, myClaim>>
    /\ UNCHANGED <<codeForm, email, asking, sentTo, wrongCode, entered, maintains,
                   checksDone>>

\* the page leaves, or says the code is wrong - on whichever step it is by then;
\* a signIn that throws leaves it at "Signing in..."
CodeChecked ==
    /\ checking.stage = "answered"
    /\ \/ /\ checking' = NoCall
          /\ entered' = IF checking.ok THEN checking.data ELSE entered
          /\ wrongCode' = ~checking.ok
       \/ /\ codeForm = "signin" /\ ~checking.ok
          /\ checking' = [checking EXCEPT !.stage = "thrown"]
          /\ UNCHANGED <<entered, wrongCode>>
    /\ UNCHANGED <<codeForm, email, asking, sentTo, codes, myClaim, maintains,
                   checksDone>>

AskSteps == ListingsRead \/ ServeCode \/ CodeAsked
CheckSteps == ServeCheck \/ CodeChecked
CodeNext == AskSteps \/ CheckSteps \/ TypeEmail \/ AskForCode \/ UseDifferentEmail \/ SubmitCode
CodeFairness == WF_codeVars(AskSteps) /\ WF_codeVars(CheckSteps)
CodeSpec == CodeInit /\ [][CodeNext]_codeVars /\ CodeFairness

----------------------------------------------------------------------------
CodeTypeOK ==
    /\ email \in Addresses \cup {""} /\ sentTo \in Addresses \cup {""}
    /\ codes \in Seq([to : Addresses, used : BOOLEAN])
    /\ wrongCode \in BOOLEAN /\ myClaim.verified \in BOOLEAN

\* The second step names the address it asked for, though the field was edited
\* while the request was out: a sign-in code was mailed there, or its account is
\* switched off, which the page is not to say; the claim is for it.  And an entry
\* was made with a code of the very mail box it names, which the server holds used
\* - the claim's verified.
SentToWasMailed ==
    /\ sentTo # "" => IF codeForm = "signin"
                      THEN sentTo \in Deactivated \/ Newest(sentTo) # {}
                      ELSE myClaim.email = sentTo
    /\ entered # "" => /\ \E i \in DOMAIN codes : codes[i].to = entered /\ codes[i].used
                       /\ codeForm = "claim" => myClaim.verified /\ entered = sentTo

\* no button is waiting, except that of a sign-in that threw
CodeFormSettled == ~Pending(asking) /\ (Pending(checking) => checking.stage = "thrown")
=============================================================================
