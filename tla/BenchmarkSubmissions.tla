------------------------ MODULE BenchmarkSubmissions ------------------------
(***************************************************************************)
(* One benchmark submission of apps/benchmarks: the web requests that fill, *)
(* send, rescore, review and withdraw it, and the qcluster workers that     *)
(* score its runs and settle it.  Submissions share nothing but the worker  *)
(* pool, so one is enough.                                                  *)
(*                                                                          *)
(* A web request is one PostgreSQL READ COMMITTED transaction               *)
(* (ATOMIC_REQUESTS) in two steps: it reads the rows and checks them, then  *)
(* it writes and commits.  Nothing but `settle` locks the submission, so    *)
(* everything between the two steps of a request may be done by another     *)
(* request or by a worker.  The set Request bounds how many requests on the *)
(* submission are open at once: a singleton means they never overlap one    *)
(* another, while the workers always interleave with them.                  *)
(*                                                                          *)
(* The broker is the same database: a task is queued when its request       *)
(* commits, stays until it is acknowledged, and is delivered again when the *)
(* worker that held it died.                                                *)
(***************************************************************************)
EXTENDS Naturals, FiniteSets

CONSTANTS
  Case,        \* the cases of the revision the submission may add runs for
  Request,     \* the web requests that may be open at once
  Worker,      \* the worker processes of the qcluster
  Roles,       \* the roles a submission may be opened with
  Origins,     \* the origins a submission may be opened with
  Kinds,       \* the kinds of request people make
  MaxRun,      \* bound: runs ever created
  MaxVersion,  \* bound: times a case is published, so scores that can differ
  MaxRounds,   \* bound: times the submission is sent or rescored
  MaxNotes,    \* bound: review notes saved
  MaxCrashes,  \* bound: workers that die holding a task
  MaxLost      \* bound: tasks the broker gives up on

ASSUME BoundsAssumption ==
  /\ MaxRun \in Nat
  /\ MaxVersion \in Nat \ {0}
  /\ MaxRounds \in Nat
  /\ MaxNotes \in Nat
  /\ MaxCrashes \in Nat
  /\ MaxLost \in Nat

ASSUME OpeningAssumption ==
  /\ Roles \subseteq {"staff", "owner", "community"}
  /\ Origins \subseteq {"upload", "cli"}

RequestKind == {"add", "finalize", "rescore", "approved", "rejected", "withdraw", "note"}

ASSUME KindsAssumption == Kinds \subseteq RequestKind

VARIABLES
  status,    \* Submission.status
  role,      \* Submission.submitter_role, frozen when it was opened
  origin,    \* Submission.origin
  reviewer,  \* who Submission.reviewed_by is: nobody, the submitter, an editor
  runs,      \* the run of each case, or NoRun
  lastRun,   \* the last primary key a run was given
  version,   \* how often each case was published: what its answer key says now
  queue,     \* for each run key, the tasks the broker holds for it
  worker,    \* what each worker process is doing
  request,   \* the open web requests
  rounds,    \* times the submission was sent or rescored
  notes,     \* review notes saved
  mails,     \* mails queued, by template
  crashes,   \* workers that died so far
  lost       \* tasks the broker gave up on so far

requestVars == <<status, role, origin, reviewer, runs, lastRun, version, rounds, notes, mails>>
taskVars == <<queue, worker, crashes, lost>>
vars == <<requestVars, taskVars, request>>

-----------------------------------------------------------------------------
(* The rows.  *)

Status == {"draft", "scoring", "scoring_failed", "pending_review",
           "approved", "rejected", "withdrawn"}
Reviewer == {"none", "submitter", "editor"}
Rescorable == {"scoring", "scoring_failed", "pending_review"}
\* Variant with a fault: a decision can be made again.
ReviewableTwice == {"pending_review", "scoring_failed", "rejected"}
Reviewable == {"pending_review", "scoring_failed"}

RunKey == 1..MaxRun
RunStatus == {"queued", "scored", "failed"}
Verification == {"not_needed", "pending", "verified", "mismatch", "failed"}

\* A report is known by the version of the case it is right about.  NoReport
\* is the empty report of a run we have not scored yet; WrongReport is one no
\* version of the case yields.
NoReport == 0
WrongReport == MaxVersion + 1
Report == 0..(MaxVersion + 1)

NoRun == [pk |-> 0, status |-> "none", verification |-> "not_needed",
          report |-> NoReport]
Run == [pk: RunKey, status: RunStatus, verification: Verification, report: Report]

CurrentKeys == {runs[c].pk : c \in {d \in Case : runs[d] # NoRun}}

Mail == {"sent", "scored", "staff_notice", "reviewed"}

\* Mail for the submitter and the editors is queued once the change commits,
\* and never for a submission of the staff's own.
Mailed(names) ==
  IF role = "staff" THEN mails
  ELSE [m \in Mail |-> IF m \in names THEN mails[m] + 1 ELSE mails[m]]

\* Queueing a task inserts a row in the broker's table, in the same transaction.
Enqueued(keys) == [p \in RunKey |-> IF p \in keys THEN queue[p] + 1 ELSE queue[p]]

-----------------------------------------------------------------------------
(* Web requests: the read-and-check step, then the write-and-commit step.   *)

\* What a request holds of what it read: the case and the report it adds, the
\* runs it will queue, the row it will write back.
Closed == [kind |-> "none", case |-> "none", report |-> NoReport, keys |-> {},
           row |-> [status |-> "draft", reviewer |-> "none"]]

Open(r, read) ==
  /\ read.kind \in Kinds
  /\ request[r] = Closed
  /\ request' = [request EXCEPT ![r] = read]
  /\ UNCHANGED <<requestVars, taskVars>>

Closes(r) == request' = [request EXCEPT ![r] = Closed]

\* add_output takes a PDF to score; add_scored_run also a report, which the
\* manifest and report checks tie to the case as it is published now, right
\* or wrong about it.
BeginAdd(r) ==
  /\ status = "draft"
  /\ lastRun < MaxRun
  /\ \E c \in Case :
       \E report \in IF origin = "upload" THEN {NoReport}
                     ELSE {version[c], WrongReport} :
         Open(r, [Closed EXCEPT !.kind = "add", !.case = c, !.report = report])

\* The earlier run of the case is deleted and the new one created.
CommitAdd(r) ==
  /\ request[r].kind = "add"
  /\ lastRun < MaxRun
  /\ lastRun' = lastRun + 1
  /\ runs' = [runs EXCEPT ![request[r].case] =
       [pk |-> lastRun + 1,
        status |-> "queued",
        verification |-> IF origin = "upload" THEN "not_needed" ELSE "pending",
        report |-> request[r].report]]
  /\ Closes(r)
  /\ UNCHANGED <<status, role, origin, reviewer, version, rounds, notes, mails, taskVars>>

BeginFinalize(r) ==
  /\ status = "draft"
  /\ CurrentKeys # {}
  /\ rounds < MaxRounds
  /\ Open(r, [Closed EXCEPT !.kind = "finalize", !.keys = CurrentKeys])

CommitFinalize(r) ==
  /\ request[r].kind = "finalize"
  /\ rounds < MaxRounds
  /\ status' = "scoring"
  /\ queue' = Enqueued(request[r].keys)
  /\ rounds' = rounds + 1
  /\ mails' = Mailed({"sent"})
  /\ Closes(r)
  /\ UNCHANGED <<role, origin, reviewer, runs, lastRun, version, notes, worker, crashes, lost>>

BeginRescore(r) ==
  /\ status \in Rescorable
  /\ CurrentKeys # {}
  /\ rounds < MaxRounds
  /\ Open(r, [Closed EXCEPT !.kind = "rescore", !.keys = CurrentKeys])

\* Variant with a fault: the runs are reset and never queued.
CommitRescoreUnqueued(r) ==
  /\ request[r].kind = "rescore"
  /\ rounds < MaxRounds
  /\ status' = "scoring"
  /\ runs' = [c \in Case |-> IF runs[c] = NoRun THEN NoRun
                             ELSE [runs[c] EXCEPT !.status = "queued"]]
  /\ rounds' = rounds + 1
  /\ Closes(r)
  /\ UNCHANGED <<role, origin, reviewer, lastRun, version, notes, mails, taskVars>>

CommitRescore(r) ==
  /\ request[r].kind = "rescore"
  /\ rounds < MaxRounds
  /\ status' = "scoring"
  /\ runs' = [c \in Case |-> IF runs[c] = NoRun THEN NoRun
                             ELSE [runs[c] EXCEPT !.status = "queued"]]
  /\ queue' = Enqueued(request[r].keys)
  /\ rounds' = rounds + 1
  /\ Closes(r)
  /\ UNCHANGED <<role, origin, reviewer, lastRun, version, notes, mails, worker, crashes, lost>>

BeginReview(r) ==
  /\ status \in Reviewable
  /\ \/ Open(r, [Closed EXCEPT !.kind = "rejected"])
     \/ /\ status = "pending_review"
        /\ Open(r, [Closed EXCEPT !.kind = "approved"])

CommitReview(r) ==
  /\ request[r].kind \in {"approved", "rejected"}
  /\ status' = request[r].kind
  /\ reviewer' = "editor"
  /\ mails' = Mailed({"reviewed"})
  /\ Closes(r)
  /\ UNCHANGED <<role, origin, runs, lastRun, version, rounds, notes, taskVars>>

\* Variant with a fault: only publication is checked for.
BeginWithdrawUnlessApproved(r) ==
  /\ status # "approved"
  /\ Open(r, [Closed EXCEPT !.kind = "withdraw"])

BeginWithdraw(r) ==
  /\ status \notin {"approved", "rejected", "withdrawn"}
  /\ Open(r, [Closed EXCEPT !.kind = "withdraw"])

CommitWithdraw(r) ==
  /\ request[r].kind = "withdraw"
  /\ status' = "withdrawn"
  /\ Closes(r)
  /\ UNCHANGED <<role, origin, reviewer, runs, lastRun, version, rounds, notes, mails, taskVars>>

\* The review note is written on the admin's change form, whose save writes the
\* whole row back as it was read.
BeginNote(r) ==
  /\ notes < MaxNotes
  /\ Open(r, [Closed EXCEPT !.kind = "note",
                            !.row = [status |-> status, reviewer |-> reviewer]])

CommitNote(r) ==
  /\ request[r].kind = "note"
  /\ notes < MaxNotes
  /\ notes' = notes + 1
  /\ status' = request[r].row.status
  /\ reviewer' = request[r].row.reviewer
  /\ Closes(r)
  /\ UNCHANGED <<role, origin, runs, lastRun, version, rounds, mails, taskVars>>

\* A request that fails is rolled back: two adds for one case where both
\* create (uniq_submission_case), a lost connection, a worker restart.
RollBack(r) ==
  /\ request[r] # Closed
  /\ Closes(r)
  /\ UNCHANGED <<requestVars, taskVars>>

\* publish_case on a case that exists replaces its PDF and its answer key.
ReplaceCase(c) ==
  /\ version[c] < MaxVersion
  /\ version' = [version EXCEPT ![c] = @ + 1]
  /\ UNCHANGED <<status, role, origin, reviewer, runs, lastRun, rounds, notes, mails, taskVars, request>>

-----------------------------------------------------------------------------
(* Workers.  score_run reads the run and its case, scores outside any        *)
(* transaction, writes the run and settles the submission.                   *)

Idle == [phase |-> "idle", case |-> "none", run |-> NoRun, version |-> 0]

\* A task being run: the run and the case as they were read, and how far it is.
Task == [phase: {"scoring", "recorded", "settled"}, case: Case, run: Run,
         version: 1..MaxVersion]

Now(w, act) == worker' = [worker EXCEPT ![w] = act]

\* Run.objects.get: the task of a run that was replaced finds no row and
\* raises, on this delivery and on every retry, so it has no effect at all.
StartScoring(w, p) ==
  /\ worker[w] = Idle
  /\ queue[p] > 0
  /\ queue' = [queue EXCEPT ![p] = @ - 1]
  /\ IF p \in CurrentKeys
     THEN \E c \in Case :
            /\ runs[c].pk = p
            /\ Now(w, [phase |-> "scoring", case |-> c, run |-> runs[c],
                       version |-> version[c]])
     ELSE UNCHANGED worker
  /\ UNCHANGED <<requestVars, crashes, lost, request>>

\* Variants with a fault: our report overwrites the submitter's; the
\* submitter's word is taken for it.
RecordedOurs(act) == [act.run EXCEPT !.status = "scored", !.report = act.version]
RecordedUnchecked(act) ==
  IF origin = "upload"
  THEN [act.run EXCEPT !.status = "scored", !.report = act.version]
  ELSE [act.run EXCEPT !.status = "scored", !.verification = "verified"]

\* What _record leaves in the row: our report for an upload; for a CLI run the
\* submitter's own, and whether ours agrees with it.
Recorded(act) ==
  IF origin = "upload"
  THEN [act.run EXCEPT !.status = "scored", !.report = act.version]
  ELSE [act.run EXCEPT !.status = "scored",
          !.verification = IF act.run.report = act.version THEN "verified" ELSE "mismatch"]

\* Variant with a fault: the submission's word for it, in the run's column.
FailedAsSubmission(row, act) == [row EXCEPT !.status = "scoring_failed"]

\* What _fail leaves: a CLI report still stands, only unchecked.
Failed(row, act) ==
  IF origin = "upload"
  THEN [row EXCEPT !.status = "failed", !.verification = act.run.verification]
  ELSE [row EXCEPT !.status = "scored", !.verification = "failed"]

\* Both write by primary key.  If the run was replaced meanwhile the save
\* raises: re-inserting it breaks uniq_submission_case, and updating named
\* fields finds no row.  The task is then over without settling anything.
Write(w, row) ==
  IF runs[worker[w].case].pk = worker[w].run.pk
  THEN /\ runs' = [runs EXCEPT ![worker[w].case] = row]
       /\ Now(w, [worker[w] EXCEPT !.phase = "recorded"])
  ELSE /\ Now(w, Idle)
       /\ UNCHANGED runs

\* The whole row is written back as it was read, with the new score in it.
RecordScore(w) ==
  /\ worker[w].phase = "scoring"
  /\ Write(w, Recorded(worker[w]))
  /\ UNCHANGED <<status, role, origin, reviewer, lastRun, version, rounds, notes, mails,
                 queue, crashes, lost, request>>

\* Any error of the scorer is a verdict about the run.
RecordFailure(w) ==
  /\ worker[w].phase = "scoring"
  /\ Write(w, Failed(runs[worker[w].case], worker[w]))
  /\ UNCHANGED <<status, role, origin, reviewer, lastRun, version, rounds, notes, mails,
                 queue, crashes, lost, request>>

\* Variants with a fault: one scored run is taken for all of them; a run that
\* failed is waited for.
AnyScored == \E c \in Case : runs[c].status \in {"scored", "failed"}
NoneUnscored == \A c \in Case : runs[c].status \in {"scored", "none"}

\* Nothing left to score: the submission can move on.
AllScored == \A c \in Case : runs[c].status # "queued"

\* Variant with a fault: the role is not looked at.
SettledForAnyone ==
  IF \E c \in Case : runs[c].status = "failed" THEN "scoring_failed" ELSE "approved"

Settled ==
  IF \E c \in Case : runs[c].status = "failed" THEN "scoring_failed"
  ELSE IF role = "staff" THEN "approved"
  ELSE "pending_review"

\* Variant with a fault: every last run settles, whether or not it was done.
SettleAgain(w) ==
  /\ worker[w].phase = "recorded"
  /\ Now(w, [worker[w] EXCEPT !.phase = "settled"])
  /\ IF AllScored
     THEN /\ status' = Settled
          /\ reviewer' = IF Settled = "approved" THEN "submitter" ELSE reviewer
          /\ mails' = Mailed(IF Settled = "pending_review"
                             THEN {"scored", "staff_notice"} ELSE {"scored"})
     ELSE UNCHANGED <<status, reviewer, mails>>
  /\ UNCHANGED <<role, origin, runs, lastRun, version, rounds, notes, queue, crashes, lost, request>>

\* settle, under the lock of the submission's row.
Settle(w) ==
  /\ worker[w].phase = "recorded"
  /\ Now(w, [worker[w] EXCEPT !.phase = "settled"])
  /\ IF status = "scoring" /\ AllScored
     THEN /\ status' = Settled
          /\ reviewer' = IF Settled = "approved" THEN "submitter" ELSE reviewer
          /\ mails' = Mailed(IF Settled = "pending_review"
                             THEN {"scored", "staff_notice"} ELSE {"scored"})
     ELSE UNCHANGED <<status, reviewer, mails>>
  /\ UNCHANGED <<role, origin, runs, lastRun, version, rounds, notes, queue, crashes, lost, request>>

\* The cluster takes the finished task off the broker.
Acknowledge(w) ==
  /\ worker[w].phase = "settled"
  /\ Now(w, Idle)
  /\ UNCHANGED <<requestVars, queue, crashes, lost, request>>

\* A worker that dies, at whatever point, never acknowledges: the broker
\* delivers the task again.
WorkerDies(w) ==
  /\ worker[w] # Idle
  /\ crashes < MaxCrashes
  /\ crashes' = crashes + 1
  /\ queue' = [queue EXCEPT ![worker[w].run.pk] = @ + 1]
  /\ Now(w, Idle)
  /\ UNCHANGED <<requestVars, lost, request>>

\* Attempts run out - a file that hangs the scorer past its timeout each time -
\* and the task is dropped with nothing written.
GiveUp(w) ==
  /\ worker[w].phase = "scoring"
  /\ lost < MaxLost
  /\ lost' = lost + 1
  /\ Now(w, Idle)
  /\ UNCHANGED <<requestVars, queue, crashes, request>>

-----------------------------------------------------------------------------

Init ==
  /\ status = "draft"
  /\ role \in Roles
  /\ origin \in Origins
  /\ reviewer = "none"
  /\ runs = [c \in Case |-> NoRun]
  /\ lastRun = 0
  /\ version = [c \in Case |-> 1]
  /\ queue = [p \in RunKey |-> 0]
  /\ worker = [w \in Worker |-> Idle]
  /\ request = [r \in Request |-> Closed]
  /\ rounds = 0
  /\ notes = 0
  /\ mails = [m \in Mail |-> 0]
  /\ crashes = 0
  /\ lost = 0

WebStep(r) ==
  \/ BeginAdd(r) \/ CommitAdd(r)
  \/ BeginFinalize(r) \/ CommitFinalize(r)
  \/ BeginRescore(r) \/ CommitRescore(r)
  \/ BeginReview(r) \/ CommitReview(r)
  \/ BeginWithdraw(r) \/ CommitWithdraw(r)
  \/ BeginNote(r) \/ CommitNote(r)
  \/ RollBack(r)

WorkerStep(w) ==
  \/ \E p \in RunKey : StartScoring(w, p)
  \/ RecordScore(w) \/ RecordFailure(w)
  \/ Settle(w) \/ Acknowledge(w)

Next ==
  \/ \E r \in Request : WebStep(r)
  \/ \E c \in Case : ReplaceCase(c)
  \/ \E w \in Worker : WorkerStep(w) \/ WorkerDies(w) \/ GiveUp(w)

Spec == Init /\ [][Next]_vars

\* The cluster keeps its workers running, so a worker that has something to do
\* does it.  Nothing obliges a person to send a request, or a worker to die.
FairSpec == Spec /\ \A w \in Worker : WF_vars(WorkerStep(w))

-----------------------------------------------------------------------------
(* Properties.  *)

Held == [kind: RequestKind, case: Case \cup {"none"}, report: Report,
         keys: SUBSET RunKey, row: [status: Status, reviewer: Reviewer]]

\* The rows, the broker and the processes hold values of their types.
TypeOK ==
  /\ status \in Status
  /\ role \in Roles
  /\ origin \in Origins
  /\ reviewer \in Reviewer
  /\ runs \in [Case -> Run \cup {NoRun}]
  /\ lastRun \in Nat
  /\ version \in [Case -> 1..MaxVersion]
  /\ queue \in [RunKey -> Nat]
  /\ worker \in [Worker -> Task \cup {Idle}]
  /\ request \in [Request -> Held \cup {Closed}]
  /\ rounds \in Nat
  /\ notes \in Nat
  /\ mails \in [Mail -> Nat]
  /\ crashes \in Nat
  /\ lost \in Nat

\* A task that will still be run for the run with key p.
HasTask(p) ==
  \/ queue[p] > 0
  \/ \E w \in Worker : worker[w].phase = "scoring" /\ worker[w].run.pk = p

\* A submission that is scoring, and lost no task, is never stuck: every queued
\* run has a task, and if none is queued some worker or task will still settle
\* it.  This is what finalize, rescore, score_run and the redelivery of the
\* broker have to guarantee together; services.rescore is the only way out of
\* a submission for which it fails.
ScoringHasWork ==
  status = "scoring" /\ lost = 0 =>
    /\ \A c \in Case : runs[c].status = "queued" => HasTask(runs[c].pk)
    /\ \/ \E c \in Case : runs[c].status = "queued"
       \/ \E w \in Worker : worker[w].phase = "recorded"
       \/ \E p \in CurrentKeys : HasTask(p)

\* settle waits for the last run: once a submission has left scoring for a
\* state an editor or the public sees, none of its runs is waiting to be scored.
NothingQueuedOnceSettled ==
  status \in {"scoring_failed", "pending_review", "approved"} =>
    \A c \in Case : runs[c].status # "queued"

\* Only the staff's own results are published without an editor: whatever the
\* interleaving of settling, reviewing and rescoring, a published submission of
\* anyone else was approved by an editor.
UnreviewedNeverPublished ==
  status = "approved" /\ role # "staff" => reviewer = "editor"

\* The lock in settle: however many workers finish last runs together, one
\* round of scoring is announced at most once, and the editors are told at most
\* as often as the submitter.
ScoredMailOncePerRound ==
  /\ mails["scored"] + (IF status = "scoring" /\ role # "staff" THEN 1 ELSE 0) <= rounds
  /\ mails["staff_notice"] <= mails["scored"]

\* The submitter is told of the decision once, and only of a decision that stands.
DecisionMailedOnce ==
  role # "staff" =>
    mails["reviewed"] = IF status \in {"approved", "rejected"} THEN 1 ELSE 0

\* The report a submitter scored themselves is published as they sent it: our
\* rescore writes its verdict beside it and never over it (scoring._record).
SubmitterReportStands ==
  [][\A c \in Case : origin = "cli" /\ runs'[c].pk = runs[c].pk
        => runs'[c].report = runs[c].report]_vars

\* "Verified" was earned against an answer key that was really published for
\* the case; and a report we could not check is never shown as verified.
VerifiedWasReproduced ==
  \A c \in Case : runs[c].verification = "verified" => runs[c].report \in 1..version[c]

Lifecycle == INSTANCE SubmissionLifecycle

\* What is decided on a submission that an editor reviews happens as if each
\* request were one atomic step: rescore and withdraw, which read the status
\* long before they write it, never meet a decision taken in between.  It is
\* said of those submissions only because settle, which takes no request,
\* decides on the staff's own: DecidedIsLeftAlone is about these.
ReviewedFollowLifecycle ==
  Lifecycle!Init /\ [][role # "staff" => Lifecycle!Next]_(Lifecycle!lifecycleVars)

\* services.RESCORABLE: "a decided submission is left alone: rescoring an
\* approved one would change a published result without a review".  No
\* submission leaves a status it was decided into.
DecidedIsLeftAlone ==
  [][(status \in {"approved", "rejected", "withdrawn"}) => status' = status]_vars

\* The same line of services.RESCORABLE, about the result itself.  While a
\* submission stays approved its runs do not change.
PublishedResultIsFixed ==
  [][status = "approved" /\ status' = "approved" => runs' = runs]_vars

\* SubmissionAdmin: "The note is the one field they write".  Saving it changes
\* neither the status nor the reviewer.
NoteIsTheOneFieldWritten ==
  [][\A r \in Request : request[r].kind = "note" /\ request'[r] = Closed
        => UNCHANGED <<status, reviewer>>]_vars

\* services.finalize: "queue every run for (re)scoring, then it waits for
\* review".  A submission that is sent, with no task lost and nobody dying,
\* has a task for each run still to be scored.
EveryRunIsQueuedForScoring ==
  status = "scoring" /\ lost = 0 =>
    \A c \in Case : runs[c].status = "queued" => HasTask(runs[c].pk)

\* Scoring ends: a submission that is sent leaves scoring, by settling or by a
\* withdrawal, unless one of its tasks is lost.
SentIsSettled == status = "scoring" ~> status # "scoring" \/ lost > 0

=============================================================================
