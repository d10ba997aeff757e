# Verification of redaction-tools

TLA+ models of the redaction-tools backend (`src/backend/apps`) and of the pages
of its web front end (`src/frontend/src`), the TLC configurations that check
them on small instances, and TLAPS proofs of their main properties for every
instance. Every definition is translated from the Python and TypeScript source;
`PROJECT.json` maps each to its lines. This file says what the parts of the
system are, which of them are modelled, how, and what the checks and the proofs
show.

## 1. The system

A directory of redaction tools with a benchmark: a Django application behind a
web server, one PostgreSQL database, and a `qcluster` (django-q2) of worker
processes; and a Next.js front end whose pages call the API through a generated
client and keep what they read in a query cache. Five facts about how it runs
decide how everything is modelled.

* **Requests are transactions.** `ATOMIC_REQUESTS` wraps each web request in a
  transaction at the default isolation, READ COMMITTED. A request reads rows,
  decides, writes and commits. Nothing it has read is protected from another
  transaction unless it took `SELECT FOR UPDATE` or an `UPDATE ... WHERE`
  looks again. An exception rolls everything back.
* **The broker is the database.** Queueing a task inserts a row in the same
  transaction; a worker takes it, runs it outside any transaction, and
  acknowledges it. A worker that dies holding a task, or exceeds its timeout,
  leaves it to be delivered again, up to a limit of attempts.
* **Saves write whole rows.** `obj.save()` without `update_fields`, which is
  what the admin's change forms use, writes back every column as it was read.

* **A page goes on while its calls are out.** A mutation is sent, answered (or
  refused, or its answer lost) and only then are its callbacks run; until then
  the reader types, closes, opens and presses. A callback works on the values
  its closure captured and on the state as it is then.
* **The cache is keyed, and re-reads replace each other.** After a write a page
  invalidates the keys it changed; a re-read that is started while one is under
  way drops the older answer (`cancelRefetch`). Whoever waited for the dropped
  one goes on at once in the models; where a page could tell (`StaffEditing`),
  going on with the later one is allowed too, since it is the library's version
  that decides.

### 1.1 Inventory

| Component | State | Operations | Interacts with | Hard behaviour | Correct when |
|---|---|---|---|---|---|
| Benchmark submissions (`benchmarks/services.py`, `scoring.py`, `emails.py`, `admin.py`, `staff.py`, `api.py`) | submission (status, role, origin, reviewer, note), its runs, cases and their answer keys, broker rows | open, add output / scored run, finalize, score run, settle, rescore, review, withdraw, publish case, save note | workers, mail, leaderboard, case pack | overlapping requests; two workers finishing together; redelivery; stale rows; a case replaced under a worker | scoring ends and ends once; nothing is published unreviewed; results stay what was sent or checked; decisions stand |
| Benchmark leaderboard (`leaderboard.py`) | none (reads approved runs) | rank, aggregate | submissions | ties, missing runs | the order is a total preorder of the published figures |
| Benchmark files and schemas (`files.py`, `schemas.py`) | files by content | store, validate | submissions | none beyond I/O | - |
| Listing claims (`catalog/claims.py`, `catalog/api.py`, `admin.py`, `staff.py`) | claims, codes, invite links | file, verify, mint, redeem, revoke, assign, approve, reject, change form | accounts, mail | link opened twice; revocation racing redemption; code entered late; wrong guesses counted | a link is spent once by one person; a claim never moves back by accident |
| Catalog prices and proposals (`pricing.py`, `admin.py`, `staff.py`) | plan prices with validity, proposals | set, withdraw, propose, approve | MCP, staff API | one path locks the plan, another does not | one open price per slot, no gaps or overlaps |
| Catalog revisions, facets, intake (`staff.py`, `admin.py`, `api.py`) | tools, facet rows, revisions | propose, apply, add/remove facet, submit tool | claims (who may propose) | revision applied over a newer edit; last facet removed twice | an edit is never silently lost; its record tells what it replaced |
| Catalog screenshots and logos (`screenshots.py`, `images.py`) | images, positions | upload, reorder, delete | files | cap of eight | cap holds |
| Catalog reads, badges, rates, MCP | exchange rates | queries, refresh | external rate service | none | - |
| Sign-in (`accounts/email_login.py`, `cli_login.py`, `api.py`, `jwt.py`) | mailed login tokens, device logins, API keys | request, consume, approve, poll, revoke | mail | two requests in a cooldown; code and link at once; poll repeated; key cap | a mail signs in once; a device login yields one key, for the one who approved it |
| MCP authorisation (`mcp_oauth.py`) | external OAuth rows | register, authorise | sign-in | - | - |
| Comments (`comments/services.py`) | comments, per-user trust | post, edit, review, remove | mail | edit racing review | what is shown was reviewed, or its author is trusted |
| Newsletter (`newsletter/services.py`) | subscribers | subscribe, confirm, unsubscribe | mail | old links opened late | nobody is subscribed who did not confirm |
| Blog submissions (`blog/services.py`) | posts in a queue | submit, review | mail | cap counted before insert | - |
| API client (`lib/api`) | query cache; hooks' calls | fetch, mutate, invalidate | every page | answers lost or overtaken | a call ends, once |
| Result upload page (`submit-results.tsx`, `upload-file-row.tsx`) | draft, rows, an async loop over them | start, choose, match, upload all, attach pictures, send | benchmark API | rows edited under the loop; two loops; lost answers | "Uploaded" means stored; pictures follow their own file |
| Staff editing (`features/catalog/staff`) | one form per block, prefilled from the cache | open, type, save (one request or several), cancel, re-read | staff API, other staff | re-read under an open form; half a facet save | a swap is not refused; the page is current |
| Staff tools (`staff-panel.tsx`, `media-editors.tsx`, `plans-editor.tsx`) | a hook per button, three shared cache entries | upload, verify, assign, invite, settings | staff API | presses overlap; panel closed under its hook | panel shows what is stored |
| Comment pages (`features/comments`) | three lists read apart, a mode per comment | post, edit, delete, review, rebuild the tree | comments API | lists of different moments; edit against review | every comment once; lists agree |
| Owner pages (`listing-editor.tsx`, `screenshot-uploader.tsx`) | draft of an edit, list of pictures | propose, upload, withdraw | catalog API, staff | listing re-read under the form; cap | an upload is listed |
| Account pages (`my-submissions.tsx`, `api-keys-panel.tsx`) | polled list, keys | send, withdraw, add pictures, create and revoke keys | benchmark and account API | poll dropped by a write; scoring meanwhile | the page settles by itself |
| Code forms (`email-sign-in.tsx`, `claim-listing.tsx`) | address, step, code | ask, type, check, start again | sign-in, claims | field edited while the request is out | names the address it mailed |
| Approval pages (`cli-login-approval.tsx`, `mcp-consent.tsx`, `claim-invite.tsx`) | the request as read, the decision shown | read, answer | sign-in, MCP, claims | two tabs; expiry, revocation; lost answer | what it says was decided, was |
| Newsletter pages (`features/newsletter`) | form, pages of mailed links | subscribe, confirm, unsubscribe | newsletter | strangers, late links, retries | double opt-in; unsubscription stands |
| Session tokens (`auth.ts`, `lib/auth`, `token-source.*`) | cookie with a pair, memo | read, refresh, carry | account API | overlapping refreshes; the backend down | no request meets an expired token |
| Price calculator (`document-cost.ts`, `document-cost-calculator.tsx`) | volume, tools in the URL, currency, reads | type, pick, remove, convert | catalog reads | rounding, caps, a URL that lags | the badge is the cheapest; more work never costs less |
| Read-only pages, forms of one call, search | one answer, or one request | render, send | API | none | - |
| Mail, deployment, backup | - | - | all | external, or no state | - |
| PDF scorer (`pdfredeval`) | none | score a PDF against a key | workers | vendored, absent | external |

The hazards of this code, each at its line, are listed in `PROJECT.json` under
`hazards`; the properties below are stated for them.

## 2. What is modelled

| Module | What it is |
|---|---|
| `SubmissionLifecycle` | abstract: what a submission promises, one atomic step per decision |
| `BenchmarkSubmissions` | one submission, its runs, the broker, the workers and the web requests |
| `MCBenchmarkSubmissions` | the symmetry sets for TLC |
| `BenchmarkSubmissions_proofs` | its theorems |
| `OneTimeSecret` | abstract: a secret handed out, spent once, never after it was closed |
| `ListingClaims` | the claims, codes and links of one listing, and the requests on them |
| `MCListingClaims` | the symmetry sets for TLC |
| `ListingClaims_proofs` | its theorems |
| `SignIn` | mails, logins of the command line, API keys and the accounts they make |
| `MCSignIn` | the symmetry sets for TLC |
| `SignIn_proofs` | its theorems |
| `PlanPrices` | the prices of one plan and the proposals for them, written by overlapping transactions |
| `ListingRows` | the columns, facets and revisions of one published listing |
| `CatalogRows`, `MCCatalogRows` | the two composed; the histories for TLC |
| `CatalogRows_proofs` | their theorems |
| `ApiClient` | how a page calls the API: query keys, what an invalidation reaches, the life of a call, one operator per operation used |
| `ResultUpload`, `StaffEditing`, `StaffTools`, `CommentThread`, `OwnerListing`, `MyBenchmarks`, `CodeForms`, `ConsentPages`, `Newsletter`, `DocumentCost`, `SessionTokens` | one group of pages each, with the server's part of what they do |
| `Frontend`, `MCFrontend` | the pages composed: a visit is to one of them; the visits for TLC |
| `FrontendPages_proofs` | theorems of the session, newsletter, code form, approval and calculator modules |
| `ResultUpload_proofs` | theorems of the upload page |
| `PageLists_proofs` | theorems of the pages that show lists the server also writes: account, staff forms, staff tools, comments, owners |
| `Frontend_proofs` | the pages' theorems, of a visit to any of them |

### 2.1 How requests are modelled

A request is two actions. `BeginX` is everything up to the last read it
decides on: its guard is the code's checks, and it stores in `request[r]` what
the request goes on to use. `CommitX` is everything it writes, in one step, as
the commit makes it visible. Whatever happens between the two is another
process's. `RollBack` ends a request with nothing written. A request that locks
the row it reads excludes others from `Begin` to the end (`Locked`). An
operation that is a single `UPDATE` with its filter is one action. The set
`Request` bounds the number of requests open at once: a singleton serialises
them, and the properties that need that say so.

### 2.2 BenchmarkSubmissions

| TLA+ | Code |
|---|---|
| `status`, `role`, `origin`, `reviewer` | columns of `Submission`; `reviewer` keeps only who `reviewed_by` is |
| `runs[c]` | the `Run` of case `c` (`uniq_submission_case`): key, status, verification, report |
| `version[c]` | how often case `c` was published. A report is known by the version of the key it is right about; `WrongReport` is right about none |
| `queue[p]`, `worker[w]` | the broker's rows for the run `p`; what a worker process is doing with one |
| `mails` | how many mails of each template were queued |
| `BeginAdd/CommitAdd` | `services.add_output`, `add_scored_run` |
| `BeginFinalize/CommitFinalize` | `services.finalize` |
| `BeginRescore/CommitRescore` | `services.rescore` |
| `BeginReview/CommitReview` | `services.review` (the admin's actions and the staff API call it) |
| `BeginWithdraw/CommitWithdraw` | `services.withdraw` |
| `BeginNote/CommitNote` | the admin's change form: the whole row is saved |
| `ReplaceCase` | `services.publish_case` on a case that exists |
| `StartScoring`, `RecordScore`, `RecordFailure`, `Settle`, `Acknowledge` | `scoring.score_run`: read; `_record` or `_fail`; `settle` under the row lock; the cluster's acknowledgement |
| `WorkerDies`, `GiveUp` | a worker process dies and its task is delivered again; attempts run out |

`score_run` is split where another process can see a difference: after its
reads, after the run is saved, after `settle` commits. `Write` reproduces what
Django does when the run was deleted meanwhile: the save raises, the task ends
and `settle` is not reached.

Left out of this module: screenshots of a run, the case pack and the visibility
of cases, opening and counting submissions, deletions in the admin.

### 2.3 ListingClaims

| TLA+ | Code |
|---|---|
| `claim[u]` | the `ToolClaim` of user `u` (one per user and listing) |
| `code[u]` | the newest `ToolClaimCode`: wrong guesses and whether it is open |
| `invite[i]` | a `ToolClaimInvite`: minted, revoked, who redeemed it |
| `ClaimTool`, `BeginVerify/CommitVerify` | `api.claim_tool`, `api.verify_tool_claim` with `claims.check_code` |
| `MintInvite`, `RevokeInvite`, `BeginRedeem/CommitRedeem` | `staff.py` and `admin.py` for links; `claims.redeem_claim_invite` under the link's row lock |
| `AssignMaintainer`, `ApproveClaim`, `RejectClaim`, `RevokeClaim` | the admin's list actions, each one `UPDATE` |
| `BeginForm/CommitForm` | the claim's change form: the whole row is saved |

### 2.4 SignIn

| TLA+ | Code |
|---|---|
| `account[u]` | the `User` with the address of the person `u`, and `is_active` |
| `mail[m]` | the `EmailLogin` with primary key `m`: its address, whether its cooldown and its lifetime are over, wrong codes, `used_at` |
| `device[d]` | a `CliLogin`: status, whether it expired, who decided |
| `keys[u]` | how many API keys of `u` are live |
| `BeginSend`, `SpendEarlier`, `CommitSend` | `email_login.request_login`: the cooldown; the update of the earlier rows; the new row, committed when the mail is sent |
| `BeginLink`, `BeginCode`, `CommitSignIn`, `CommitWrongCode` | `confirm_with_link`, `confirm_with_code` and `_sign_in`, under the row lock of `_open` |
| `StartDevice`, `BeginDecide/CommitDecide`, `BeginPoll/CommitPoll` | `cli_login.start`, `decide` and `redeem`, the last two under the row lock |
| `BeginCreate/CommitCreate`, `RevokeKey` | the API-key routes of `accounts/api.py` |
| `SignUp`, `SetActive` | an account made by signing in with Google; the admin's switch |
| `MailAges`, `DeviceExpires` | time; mails age in the order in which they were sent |

Asking for a mail has a step more than other requests, because the mail is sent
within the transaction and that takes seconds: another request can look, or
confirm an earlier mail, between the update and the commit. The update locks the
rows it writes, so `BeginConfirm` waits for it and it waits for a confirmation
(`Spending`, `Confirming`).

Two counters are not in the rows and say only what happened: `signIns`, how
often a mail signed somebody in, and `issued`, how many keys a login was
answered with. They are what the refinements to `OneTimeSecret` are about. A
request that is already confirming a mail when its lifetime ends still signs in,
as in the code, which looks at the lifetime once; so such a mail counts as open
until the request ends, and likewise for a login being decided.

### 2.5 PlanPrices and ListingRows

A request in these two is finer than in section 2.1, because PostgreSQL's locks
are what decides. A `PlanPrice` row is marked with the transaction that opened
it and the one that closed it, so `CurrentFor(r)` is what the transaction `r`
sees and `CurrentFor("committed")` what readers see.

| TLA+ | Code |
|---|---|
| `LockPlan` | `set_plan_price`: the plan `FOR UPDATE`, the slot's current figure, and the return when it has not moved |
| `ReadProposals`, `TakeProposal`, `NextProposal` | the loop of `approve_proposals` over the pending proposals it read once |
| `StartClosing`, `FinishClosing` | one `UPDATE`: the rows it saw when it started, after waiting for whoever closed one of them |
| `OpenPrice`, `Refused` | the `INSERT`: it waits for the plan's lock (the foreign key) and for a transaction that may hold the slot (`uniq_current_plan_price`); a taken slot, or a price without an amount, is an `IntegrityError` |
| `WaitsFor`, `BreakDeadlock`, `RollBack` | the lock table, the deadlock detector, a process that dies |
| `Propose`, `Withdraw`, `Reject` | the owner's proposals and the editor's rejection, one statement each |
| `BeginEdit/CommitEdit` | `update_tool` under the row's lock |
| `BeginAddFacet` ... `CommitRemoveFacet`, `FacetTaken` | `add_tool_facet`, `remove_tool_facet`, without it |
| `BeginPropose/CommitPropose`, `BeginApply/CommitApply`, `RejectRevision` | `propose_tool_revision`, `apply_revisions` (the whole row is saved as it was read), `reject_revisions` |

Abstracted: one plan; the locks of an `UPDATE` of several rows are taken at
once; the previous figure that a proposal notes, evidence and reviewer notes are
left out; a listing is published throughout; a form changes one field or the
list of facets; an editor applies one revision at a time.

### 2.6 The front end

A call is a record (`ApiClient`): `Sent`, then `Succeeds` or `Fails`, then
handed to the page, which is when the hook stops being pending and its callbacks
run. Between `Sent` and the answer the server takes its step, and a call may
fail before it or after it: an answer that is lost leaves the server changed and
the page told of an error. Where a handler checks without a lock (an upload's draft, a
facet's count), the check and the write are two steps. `useState` and `useRef` are variables; what a closure
captured is stored with the call that will use it. The cache is one variable per
list a page shows, and a re-read holds the answer it was given until it arrives.

| Module | Variables that matter | Actions and the code they are |
|---|---|---|
| `ResultUpload` | `rows`, `loops`, `drafts` | each pass of the `uploadAll` loop over the rows as they were when the button was pressed: check and write of the upload, answer, check and write of the screenshots, answer; picks, matches and removals by the reader; `finalize` and the withdrawal, each one step, so that an upload checked before them may be written after them |
| `StaffEditing` | `listing`, `staffRecord`, `form`, `saves` | `OpenForm` prefills from the cache; a save is its list of requests in order (facets: adds, then removals); each is checked and then written (`CheckSave`, `WriteSave`); then the re-read; other staff write, and remove facets in the same two steps (`OtherStaffRemove`, `OtherStaffRemoved`), between any two |
| `StaffTools` | `board`, `cached`, `fetching`, `presses` | one press per button, each invalidating its keys; panels that open and close |
| `CommentThread` | `comments`, `lists`, `writes` | post, edit (read, then saved later without the lock), delete, review; a list's snapshot and its arrival (`ServeList`, `ListReread`), with writes between; `BuildTree` as the page builds it |
| `OwnerListing` | `ownerDraft`, `revisions`, `shots`, `myShots` | propose what differs from the listing as re-read; upload and withdraw under the cap |
| `MyBenchmarks` | `subs`, `mySubs`, `keys`, `createdKey` | `refetchInterval` while something shows as scoring; writes that drop the poll under way |
| `CodeForms` | `email`, `sentTo`, `asking`, `checking`, `codes` | ask, answer, check, "use a different email" |
| `ConsentPages` | `ask`, `askTabs` | the request is read, answered in either tab, expires, is revoked or taken |
| `Newsletter` | `subscriber`, `newsTasks`, `links`, `newsTabs` | sign-up by reader or stranger, mails queued and sent, links pressed, staff delete the row |
| `DocumentCost` | `volume`, `slugs`, `navigating`, `queries` | `documentCost`, `cheapestRows` and the conversion as functions of integers (ten-thousandths); the page's moves |
| `SessionTokens` | `cookie`, `memo`, `readings`, `now` | a reading of the session refreshes an expired pair and, but for a render, writes it back; time passes |

The server's part in these modules is as much of the Python code as the page can
tell apart; where the backend has a module of its own (benchmarks, sign-in,
claims), that module has the detail and the page's has the page's view of it.
`Frontend` puts a visit on one page, with the others standing still: the pages
share no state but the client and the session. `MCFrontend` gives each page the
visits to check, so that each spends its bounds on one behaviour.

## 3. What the runs check

| Run (cfg) | Question | Result |
|---|---|---|
| `serial` (`BenchmarkSerial`) | Requests one at a time, two workers, one worker death, one task lost: does the lifecycle hold, and does scoring end? | `TypeOK`, `ScoringHasWork`, `NothingQueuedOnceSettled`, `DecisionMailedOnce`, `ScoredMailOncePerRound` and `ReviewedFollowLifecycle` hold, and `SentIsSettled` under `FairSpec` (991 000 states) |
| `overlap` (`BenchmarkOverlap`) | Two requests at once, a case republished, a note saved | `VerifiedWasReproduced`, `UnreviewedNeverPublished`, `SubmitterReportStands` hold all the same (2.0 million states) |
| `late_task` | Is a published result fixed? | violated: finding 1 |
| `orphan_run` | Does finalize queue every run? | violated: finding 2 |
| `staff_overtaken` | Is a decided submission left alone? | violated: finding 3, by one request and one worker |
| `stale_note` | Is the note the one field written? | violated: finding 4 |
| `claim_links` (`ClaimLinks`) | Two people, one link, two requests at once, every staff decision | `TypeOK` and `LinksAreOneTime` hold (1.15 million states) |
| `claim_review` | Does a link skip the review? | violated: finding 5 |
| `sign_in` (`SignIn`) | One person, two mails, one login, two requests at once | `TypeOK`, `SignedInHasAccount`, `MailsAreOneTime`, `DevicesAreOneTime`, `DecisionStands` hold (150 000 states) |
| `sign_in_two_mails` | Does only the newest mail work? | violated: finding 6 |
| `catalog_rows` (`CatalogRows`) | Two transactions on the prices of a plan; two requests, or one, on the rows of a listing | `CatalogTypeOK`, `SaidIsDone`, `PricedOnce`, `TrailIsTheHistory` hold, and `RequestsEnd` under `CatalogSpec` (889 000 states) |
| `frontend` (`Frontend`) | Every modelled page, its calls lost, refused and overtaken, others acting meanwhile | the sixteen properties below hold (391 000 states) |

The properties of `frontend`, by page:

* uploads: `DoneRowWasStored`, `ShotsOnTheirOwnRun`;
* staff: `SwapNotRefused`, and `PagesAreCurrent` (a page whose writes have
  settled shows what the server holds) for staff forms and tools, the comment
  lists and the key list;
* comments: `TreeHoldsEveryComment`;
* owners: `UploadedShotIsListed` (liveness);
* account: `ScoringShownSettles` (liveness);
* code forms and approvals: `ShownIsSo`;
* newsletter: `ConfirmedByItsOwner`, `UnsubscribedStays`;
* calculator: `CheapestIsRanked`, `MoreWorkNeverCostsLess`;
* session: `NoRequestExpires`, `RefreshRaceKeepsSession`;
* all of them: `FrontendTypeOK`, and `ButtonsComeBack` (liveness): every call a
  page waits for comes to an end.

Each property of a passing run has a mutant in `PROJECT.json`: the definition
changed as a plausible bug would change it, under which the property fails.

### 3.1 Bounds, and why they are enough

* *Cases, workers.* Two of each in `serial`: the hazards of `settle` and of the
  broker are between two runs finishing together. `overlap` has one case,
  because its hazards are between two requests and a worker on the same run.
  `serial` has uploads only, of staff and of others; `overlap` has both origins.
  What `serial` checks does not look at the report, which is what the origin
  decides, and the theorems cover both.
* *`MaxRun` 2* lets a run be replaced under a worker and under a request.
* *`MaxVersion` 2* in `overlap`: a case is replaced while it is being scored, so
  that the worker's key and the submitter's can differ. Elsewhere 1.
* *`MaxRounds` 2* is one send and one rescore, the least where the tasks of two
  rounds meet.
* *`MaxCrashes` 1, `MaxLost` 1*: one death at each point of a task, and one task
  lost. `ScoringHasWork` and `SentIsSettled` are about submissions that lost none.
* *`MaxNotes` 1* in `overlap`, 0 in `serial`: see finding 4.
* *Users, links, requests, `MaxAttempts`* in `claim_links`: 2, 1, 2, 1. Two
  people and two requests are what a race on one link takes; links do not share
  state but through the one-to-one constraint of which section 3.3 tells.
  `MaxAttempts` is 5 in the code; 1 is enough to reach the limit.

* *`sign_in`*: one person, two mails, one login, two requests, `MaxAttempts` and
  `MaxKeys` 1. Two mails are what superseding takes, and two requests a race.
  People share nothing but the decision on a login, where what races is two
  requests, whoever makes them; the theorems are about any number of people.

* *`catalog_rows`*: a slot of each kind (an overage rate, which nobody proposes,
  and one that owners do), two figures and two proposals, so that one approval
  publishes two and two approvals share one; three price rows, one to replace and
  two to replace it. A listing of two columns and two facet values, both of the
  required dimension. One request at a time over three revisions (an edit, and an
  edit back, under a proposal), two at once over two.
* *`frontend`*: each visit has the least number of readers' acts, others' acts and
  slots that its hazards take: two saves or two writes at once, two tabs, two
  loops, two readings of a session, one act of others between any two steps. The
  catalog of the calculator has one plan for each rule of the arithmetic
  (allowance and overage, by page, by document, by month, free, capped, another
  currency), and volumes around the allowance.

Cases, requests, workers, users and links are interchangeable in the
specifications, so `overlap`, `claim_links` and `sign_in` use symmetry; the runs
with a liveness property do not, and neither do those whose result is a
counterexample.

Deadlock is not checked: a submission that is decided, or a bound that is
reached, rightly leaves nothing to do.

### 3.2 Fairness

`FairSpec` assumes weak fairness of `WorkerStep(w)` for each worker and nothing
else. The cluster's guard process restarts its workers and they poll the
broker, so a worker with something to do does it. Deaths are bounded, people
need not act, and a task may be lost (`GiveUp`), which is the one escape that
`SentIsSettled` allows.

`CatalogSpec` assumes strong fairness of the steps of each open transaction:
PostgreSQL serves those who wait for a lock in turn, so one that can go on again
and again does; and that its deadlock detector runs (weak fairness of
`BreakDeadlock`). Nobody has to begin anything.

`FrontendSpec` assumes that a request out on the network comes to an end - the
fetch answers, fails or is given up, and its continuation runs - for each call of
each page by itself, though the reader goes on pressing. Readers owe nothing.
Scoring, which the account page waits for, is assumed to end (weak fairness of
`ScoringEnds`). That is an assumption about what surrounds the page: in the backend
`SentIsSettled` gives it for rounds that lose no task and were sent without an
overlap, while a round stuck by finding 2 or by `GiveUp` rightly keeps the page
polling. And a poll that is repeated for ever succeeds sometime (strong fairness of `SubsRelisted(TRUE)`): a backend that never answers
again leaves the page as it is, rightly.

### 3.3 What the runs show beyond passing

Requests that do not overlap give the lifecycle of `SubmissionLifecycle` for every
submission that an editor decides on (`ReviewedFollowLifecycle`). For the staff's
own they do not: rescore and withdraw check the status without the lock that
`settle` takes, and `settle` publishes such a submission with no editor, so one
request and one worker are enough to take a published submission back into scoring,
or to withdraw it after publication. That is finding 3; the abstract lifecycle has
no step for it. When requests overlap, the lifecycle, `NothingQueuedOnceSettled`
and `ScoringHasWork` do not hold of any submission, because nothing locks it; what
survives is what `overlap` checks.

Findings (each with its quotation in `PROJECT.json`):

1. A task queued twice is delivered after the approval and changes a published
   run (`scoring.py:61`).
2. A run added while finalize commits is sent without a task, and scoring waits
   for it for ever (`services.py:346`).
3. A submission of the staff that settles between the status check and the commit
   of a rescore goes from published back to scoring (`services.py:379`; withdraw
   does the like at `services.py:439`).
4. Saving the review note undoes a settle or decision that committed meanwhile
   (`admin.py:182`).
5. Entering the mailed code puts an approved claim back into review
   (`catalog/api.py:527`).
6. Two requests for one address that overlap pass the cooldown together and
   leave two mails that both sign in (`email_login.py:55`).

Finding 2 has a second form, which `ResultUpload` allows and `orphan_run` shows of
a new case: an upload that replaces an output passes the check on the draft
(`services.py:163`) before the draft is sent and commits (186-188) after it. The
output of a submission that was sent is then replaced, by a run without a task. The
page can cause it by itself, since it offers to send while uploads are out
(`submit-results.tsx:275`); so no property says that what was sent stays.

A person's second link for one listing fails on the one-to-one constraint, since a
claim remembers one link (`catalog/claims.py:189`, `models.py:1019`); `ListingClaims`
allows it (a redemption that finds the claim tied to another link is rolled back)
and no run is spent on it.

Two more disagreements were met in `SignIn` and are modelled without a run. The
cap on API keys is looked at when a login is approved, and the key is made at a
later poll, so that approving several logins before any of them polls exceeds it
(`cli_login.py:71`). And `DEVELOPMENT.md:147` says that a mail dies after five
wrong codes, where only its code does: `confirm_with_link` does not look at the
count.

Three more were met in the catalog; `PlanPrices` and `ListingRows` allow each, and
what is checked of them is what holds all the same:

* `approve_proposals` reads the pending proposals once and locks none
  (`catalog/admin.py:905`), so one withdrawn before the approval commits is
  published all the same.
* `apply_revisions` saves every column as it was read (`catalog/admin.py:814`), so
  an edit that commits between its conflict check and its save is written over,
  though `admin.py:795` says "A field staff edited since the revision was written
  is not clobbered".
* `remove_tool_facet` counts the other values without a lock
  (`catalog/staff.py:732`) and deletes later: two removals that overlap each count
  the other's, and a published page is left without a value of a required
  dimension, which the docstring (723-725) says is refused. Both `ListingRows` and
  `StaffEditing` have it, the latter between a save of the page and other staff; no
  property says that the last value stays, and `SwapNotRefused` is only about the
  order of a swap. The stronger half of `TrailIsTheHistory` is about one request at
  a time for the same reasons.

What the prices do keep, though `approve_proposals` takes no lock, is due to the
foreign key: the row an approval inserts needs the plan's key share, so it can
close prices but not commit in the middle of `set_plan_price`.

Staff forms disturb themselves too, and `disturbed` says when. A block opened
again while its own save is out shows, and works out, its changes from a record
that save has half changed (`"overlap"`); a form saved while the record is being
read again goes by the older one (`"stale"`). In either a swap may be refused
with nobody else at work, so `SwapNotRefused` is about visits
without them, while `PagesAreCurrent` holds with them.

`NoRequestExpires` takes the browser's clock for the server's and a request to
arrive within `MaxDelay`, of which the skew is to cover two (`SessionAssumption`);
`fetcher.ts` sets no timeout, so a slower request or a clock that is off by more is
outside it.

In the front end the following were read and are not checked, because no text of
the repository says otherwise or because they take state the models leave out: a
session is dropped by any failure of a refresh, also when the backend was merely
unreachable (`resolve-token.ts:78`, which is why `RefreshRaceKeepsSession` has
that escape); the browser's memo of a token is not keyed by account
(`token-source.client.ts:9`); two tools picked before the URL has changed leave
only the second (`price-calculator.tsx:82`); the newsletter form names the address
as it stands in the field, which can still be typed in, and not the one it sent
(`newsletter-signup.tsx:47`; `ShownIsSo` is about the code forms and the approval
pages); a cancelled claim link is minted but
never shown (`claim-invite-minter.tsx:158`).

## 4. What is proved

Every safety and action property of a passing run is the subject of a theorem.
TLAPS checks these for every value of the constants, from the assumptions the
modules name, which TLC evaluates in the runs: `BoundsAssumption`,
`OpeningAssumption`, `KindsAssumption`, `NobodyAssumption`, `AttemptsAssumption`,
`LimitsAssumption` of the backend's modules; `PricesAssumption`, `RowsAssumption`
of the catalog's; and of the pages' `UploadAssumption`, `StaffAssumption`,
`StaffToolsAssumption`, `CommentAssumption`, `OwnerAssumption`,
`AccountAssumption`, `SessionAssumption`, `NewsAssumption`, `CodeFormsAssumption`,
`ConsentAssumption`, `CatalogAssumption`. They say that bounds are numbers, that
sets the system counts or chooses from are finite and not empty where the code
has them so, that markers (`"none"`, `Nobody`) are not members of the sets they
stand beside, and what kinds of records the catalog, the visits and the threads
to start from are.

| Theorem | Statement | Extra assumption | Inductive invariant |
|---|---|---|---|
| `TypeCorrect` | `Spec => []TypeOK` | - | `TypeOK` itself |
| `PublicationIsReviewed` | `[]UnreviewedNeverPublished` | - | with `HeldReviewed`: the row an open note request will write back is itself reviewed; without it a note could restore a state that was never checked |
| `RoundsAreAnnouncedOnce` | `[]ScoredMailOncePerRound` | `NoNotes` | the property, which counts the round in progress, with `NoNoteHeld` |
| `SettledIsScored` | `[]NothingQueuedOnceSettled` | `OneRequest` | `SerialInv`: what each kind of open request may rely on between its two steps |
| `DecisionsAreAtomic` | `Spec => ReviewedFollowLifecycle`: each step from or to a submission that an editor reviews is a step of the lifecycle or none | `OneRequest`, `NoNotes` | `SerialInv` and `NoNoteHeld`; one lemma for commits, one for workers |
| `ImplementsLifecycleWithoutStaff` | `Spec => Lifecycle!Spec` | `OneRequest`, `NoNotes`, and no staff among `Roles` | the same |
| `DecisionIsMailedOnce` | `[]DecisionMailedOnce` | `OneRequest`, `NoNotes` | the property with `SerialInv`: a review commits only on a submission nobody has decided meanwhile |
| `ReportIsTheSubmitters` | `SubmitterReportStands` | - | `KeysGiven`, `SnapshotsAgree`: a worker's copy of a run that still exists has its report, and keys are never reused |
| `VerifiedIsEarned` | `[]VerifiedWasReproduced` | - | `VerifiedInv`: the rows, and the copies the workers will write back, are verified only for a CLI run with a report some published key yields; published versions only grow |
| `ScoringIsNeverStuck` | `[]ScoringHasWork` | `OneRequest`, `NoNotes` | `WorkInv`: a key belongs to one case (`KeysDiffer`), nothing has a task before the submission is sent (`DraftIsQuiet`), so no run is replaced under the worker that scores it (`TasksAreCurrent`), and what a request will queue is every run (`HeldAreCurrent`) |
| `ListingClaims!TypeCorrect` | `Spec => []TypeOK` | - | `TypeOK` itself |
| `ClaimLinksAreOneTime` | `Spec => LinkSecret!Spec` | - | `LockHeld` (a link being redeemed is live, and by one request) and `UnmintedUnused` |
| `SignIn!TypeCorrect` | `Spec => []TypeOK` | - | `MailInv`: with `MailLocks` (a mail being confirmed is unused, by one request, not being superseded, and has guesses left for a code) and `SentInOrder`; without the lock, guesses would pass their limit |
| `EverySignInHasAnAccount` | `[]SignedInHasAccount` | - | `MailInv` and the property: an account a request has found stays |
| `MailsSignInOnce` | `Spec => MailSecret!Spec` | - | `MailInv` and `UnusedUnspent` (a mail not yet used signed nobody in) |
| `DecisionsStand` | `DecisionStands` | - | `DeviceInv`: a login being decided is pending, one being answered with a key is approved, each by one request (`DeviceLocks`); a key is issued when consumed (`KeyIssued`) |
| `LoginsYieldOneKey` | `Spec => DeviceSecret!Spec` | - | `DeviceInv` |
| `RequestsArriveInTime` | `[]NoRequestExpires` of `SessionTokens` | - | `SessionInv`: the skew covers reading the session and the request, so a token judged fresh outlives both (`TokensInTime`), with what each stage of a reading holds (`Sessions`) |
| `RefreshesKeepTheSession` | `[]RefreshRaceKeepsSession` | - | `SessionInv`: a pair that is being written back is whole, or excused by a failure of the backend |
| `DoubleOptIn`, `UnsubscriptionStands` | `[]ConfirmedByItsOwner`, `[]UnsubscribedStays` of `Newsletter` | - | `NewsInv`: a call belongs to a link that was mailed and pressed, and no confirmation is under way that nobody pressed since (`NoReturnUnderWay`) |
| `AddressNamedIsSo` | `[]SentToWasMailed` of `CodeForms` | - | `CodeInv`: the hooks' calls are those of the form (`HooksMatchForm`), and an answer under way is already so (`AnswersAreSo`) |
| `DecisionsShownWereMade` | `[]DecisionShownWasMade` of `ConsentPages` | - | `ConsentInv`: each tab's answer is sound of what the request has become, and nothing that stays true is undone (`AskGoesOn`) |
| `CatalogTypeCorrect` | `CatalogSpec => []CatalogTypeOK` | - | `PricesInv` and `RowsInv`, below; `RoomIsLeft` (a request that records a revision has its place in the history) |
| `CatalogPricedOnce` | `[]PricedOnce` | - | `PricesInv`. `OneHolder`: of two rows that could hold one slot a transaction that is still open closes the one and opens the other; this is what the unique index waits for. `PlanIsHeldAlone` and `CommitLeavesARow`: what commits leaves a row in the place of what it closed |
| `CatalogSaidIsDone` | `[]SaidIsDone` | - | `PricesInv`. `SetReplacesWhatItRead`: while a request holds the plan, what it read as the slot's price is still what it sees, because an approval, which locks nothing, cannot insert without a key share of the plan. `DoneIsOpened`: a proposal about to be marked approved has its row |
| `CatalogTrailIsTheHistory` | `TrailIsTheHistory` | - (the half about one request at a time says so itself) | `RowsInv`: an edit's row is locked and as it was read (`EditIsLocked`); a request alone finds everything as it read it (`AloneIsUndisturbed`); an application is of a revision that was proposed, with what it changes (`AppliesAProposal`) |
| `VisitsUploadWhatTheySay`, `VisitsKeepShotsWithTheirRun` | `[]DoneRowWasStored`, `[]ShotsOnTheirOwnRun` of `FrontendSpec` | - | `UploadInv`: the call a loop awaits is about the first of the items it has left, as that row was when the button was pressed, and about a draft the page made; an output's pictures are of the row its file is from |
| `VisitsSwapFacets` | `[]SwapNotRefused` | - | `StaffInv`. `SwapsGoOn`: what an undisturbed facet save has left to send adds what is missing and removes what is not wanted, the removals last, so that the wanted value is there when the other goes. `FacetsFollow`, `OneFacetsSave`: the record it was worked out from is the server's |
| `VisitsSeeWhatTheServerHolds` | `[]PagesAreCurrent` | - | of each page, that a list which is not the server's is about to be read again, is being read, or was answered with what has not changed since: `RecordFollows` (staff forms), `EntriesFollow` and `SettingsFollow` (staff tools), `ListsFollow` (comments), `KeysFollow` (keys) |
| `VisitsShowEveryComment` | `[]TreeHoldsEveryComment` | - | `TreeInv`: in each list a reply comes after what it replies to (`TreeShape`), and a list, however old, is of comments that exist. That the recursive tree reaches every reply is by the ways down to it, and the least comment that had none |
| `VisitsBadgeTheCheapest`, `VisitsPayMoreForMore` | `[]CheapestIsRanked`, `[]MoreWorkNeverCostsLess` | - | `CalcInv` for the page's state; each function of the price (pages, allowance, overage, cap, conversion, rounding) is monotone by a lemma, and so is their composition |
| `VisitsAreToldWhatHappened`, `VisitsDoubleOptIn`, `VisitsRequestsArrive` | `ShownIsSo`, `ConfirmedByItsOwner`, `NoRequestExpires`, and their siblings, of `FrontendSpec` | - | each page's invariant: a step of another page leaves the page's variables alone |
| `FrontendTypeCorrect` | `FrontendSpec => []FrontendTypeOK` | - | all the pages' invariants; `OwnerInv` and `AccountInv` for the two whose properties are about liveness |

`OneRequest` says that `Request` has at most one member; `NoNotes` that `Kinds`
has no `"note"`. Neither is a property of the code: they say under which use
the code keeps the promise, and findings 2 and 4 and section 3.3 show that the
promise fails without them.

Only model-checked, because the prover does not reach liveness under fairness:
`SentIsSettled` (`serial`), `RequestsEnd` (`catalog_rows`), `ButtonsComeBack`,
`UploadedShotIsListed` and `ScoringShownSettles` (`frontend`). The proofs use no
fairness: each theorem holds of the specification without it as well. The six
violations are TLC's counterexamples and stand by themselves.

## 5. What is not modelled

The contents of PDFs, reports, mails and pages; authentication of a request and
permissions, which are guards on *who* acts and do not change what an action
does; deletions of accounts and rows in the admin, and the admin's change forms
other than those of a submission and a claim. The scorer is a submodule that is
not part of the source here: it enters as a choice of success with the right
report, or failure. Pages that render one answer, forms of one call and the
search have no later step that an earlier one could break. The OAuth library
behind the MCP connector, mail delivery, the containers and the backup scripts
are external or keep no state that the models could say something about. The
leaderboard, tool intake, blog, case pack and visibility have not been reached.

## 6. Plan

In order of importance; each module follows section 2.1.

1. `SubmissionLifecycle`, `BenchmarkSubmissions`: **done**, every safety
   property proved. Left: deletions in the admin.
2. `OneTimeSecret`, `ListingClaims`: **done**. Left: the counter of guesses when
   requests overlap.
3. `SignIn`: **done**: mails and logins as further implementations of
   `OneTimeSecret`. Left: that a confirmed mail's guesses are counted exactly,
   and the sessions that tokens stand for.
4. `PlanPrices`, `ListingRows`, `CatalogRows`: **done**. Every safety
   property proved. Left: the admin's change form of a tool; two revisions applied
   by one action.
5. The front end's pages and `Frontend`: **done**. Every safety property
   proved. Left: the hazards listed without a property that are the pages' (the
   memo of a token across two accounts, a refresh that fails for want of a
   network, a claim asked again after a lost answer).
6. `BenchmarkSubmissions` extended, or modules beside it, for `RunScreenshots`
   (cap, added after approval) and `CasePack` (two cases published at once).
7. Tool intake and the blog's queue, whose caps are counted before the insert.
8. `Leaderboard` as operators against a reference definition.
