-------------------- MODULE BenchmarkSubmissions_proofs --------------------
(***************************************************************************)
(* Proofs about BenchmarkSubmissions, for any set of cases, requests and    *)
(* workers and any bounds.                                                  *)
(***************************************************************************)
EXTENDS BenchmarkSubmissions, TLAPS

USE DEF RunKey, Report, NoReport, WrongReport

LEMMA RunFacts == NoRun \notin Run
BY DEF Run, NoRun

LEMMA KeysAreRunKeys == TypeOK => CurrentKeys \subseteq RunKey
BY DEF TypeOK, CurrentKeys, Run

LEMMA MailedType ==
  ASSUME TypeOK, NEW names
  PROVE  Mailed(names) \in [Mail -> Nat]
BY DEF TypeOK, Mailed

LEMMA EnqueuedType ==
  ASSUME TypeOK, NEW keys
  PROVE  Enqueued(keys) \in [RunKey -> Nat]
BY DEF TypeOK, Enqueued

\* A request that opens is of the type of requests, and changes nothing else.
LEMMA OpenType ==
  ASSUME TypeOK, NEW r \in Request, NEW read \in Held, Open(r, read)
  PROVE  TypeOK'
BY DEF Open, TypeOK, requestVars, taskVars

\* What the requests hold when they open.
LEMMA HeldFacts ==
  ASSUME BoundsAssumption
  PROVE  /\ \A kind \in RequestKind : [Closed EXCEPT !.kind = kind] \in Held
         /\ \A kind \in RequestKind, keys \in SUBSET RunKey :
              [Closed EXCEPT !.kind = kind, !.keys = keys] \in Held
         /\ \A c \in Case, report \in Report :
              [Closed EXCEPT !.kind = "add", !.case = c, !.report = report] \in Held
         /\ \A s \in Status, v \in Reviewer :
              [Closed EXCEPT !.kind = "note",
                             !.row = [status |-> s, reviewer |-> v]] \in Held
<1>1. NoReport \in Report /\ "none" \in Case \cup {"none"} /\ {} \in SUBSET RunKey
  BY DEF BoundsAssumption
<1>2. [status |-> "draft", reviewer |-> "none"] \in [status: Status, reviewer: Reviewer]
  BY DEF Status, Reviewer
<1>3. "add" \in RequestKind /\ "note" \in RequestKind
  BY DEF RequestKind
<1> QED BY <1>1, <1>2, <1>3 DEF Held, Closed

\* Every step of a web request keeps the types.
LEMMA WebStepType ==
  ASSUME TypeOK, BoundsAssumption, NEW r \in Request, WebStep(r)
  PROVE  TypeOK'
<1> USE DEF Closes, requestVars, taskVars
<1>a. /\ request[r] \in Held \cup {Closed}
      /\ \A kind \in RequestKind : request[r].kind = kind => request[r] \in Held
  BY DEF TypeOK, Closed, RequestKind
<1>b. {"add", "finalize", "rescore", "approved", "rejected", "withdraw", "note"} = RequestKind
  BY DEF RequestKind
<1>1. CASE BeginAdd(r)
  <2>1. PICK c \in Case :
          \E report \in IF origin = "upload" THEN {NoReport} ELSE {version[c], WrongReport} :
            Open(r, [Closed EXCEPT !.kind = "add", !.case = c, !.report = report])
    BY <1>1 DEF BeginAdd
  <2>2. version[c] \in Report
    BY DEF TypeOK, BoundsAssumption
  <2>3. PICK report \in IF origin = "upload" THEN {NoReport} ELSE {version[c], WrongReport} :
          Open(r, [Closed EXCEPT !.kind = "add", !.case = c, !.report = report])
    BY <2>1
  <2>4. report \in Report
    BY <2>2, <2>3 DEF BoundsAssumption
  <2> QED BY <2>3, <2>4, HeldFacts, OpenType
<1>2. CASE CommitAdd(r)
  <2> DEFINE new == [pk |-> lastRun + 1,
                     status |-> "queued",
                     verification |-> IF origin = "upload" THEN "not_needed" ELSE "pending",
                     report |-> request[r].report]
  <2>1. request[r] \in Held
    BY <1>2, <1>a, <1>b DEF CommitAdd
  <2>2. new \in Run
    BY <1>2, <2>1 DEF CommitAdd, Held, TypeOK, Run, RunStatus, Verification, BoundsAssumption
  <2>3. runs' = [runs EXCEPT ![request[r].case] = new]
    BY <1>2 DEF CommitAdd
  <2>4. runs' \in [Case -> Run \cup {NoRun}]
    BY <2>2, <2>3 DEF TypeOK
  <2> QED
    BY <1>2, <2>1, <2>4 DEF CommitAdd, TypeOK, BoundsAssumption
<1>3. CASE BeginFinalize(r)
  BY <1>3, <1>b, KeysAreRunKeys, HeldFacts, OpenType DEF BeginFinalize
<1>4. CASE CommitFinalize(r)
  BY <1>4, EnqueuedType, MailedType, SMTT(30) DEF CommitFinalize, TypeOK, Status, BoundsAssumption
<1>5. CASE BeginRescore(r)
  BY <1>5, <1>b, KeysAreRunKeys, HeldFacts, OpenType DEF BeginRescore
<1>6. CASE CommitRescore(r)
  <2>1. runs' \in [Case -> Run \cup {NoRun}]
    <3> SUFFICES ASSUME NEW c \in Case
                 PROVE  (IF runs[c] = NoRun THEN NoRun
                         ELSE [runs[c] EXCEPT !.status = "queued"]) \in Run \cup {NoRun}
      BY <1>6 DEF CommitRescore
    <3>1. runs[c] \in Run \cup {NoRun}
      BY DEF TypeOK
    <3> QED BY <3>1 DEF Run, RunStatus
  <2> QED BY <1>6, <2>1, EnqueuedType DEF CommitRescore, TypeOK, Status, BoundsAssumption
<1>7. CASE BeginReview(r)
  BY <1>7, <1>b, HeldFacts, OpenType DEF BeginReview
<1>8. CASE CommitReview(r)
  BY <1>8, MailedType DEF CommitReview, TypeOK, Status, Reviewer, BoundsAssumption
<1>9. CASE BeginWithdraw(r)
  BY <1>9, <1>b, HeldFacts, OpenType DEF BeginWithdraw
<1>10. CASE CommitWithdraw(r)
  BY <1>10 DEF CommitWithdraw, TypeOK, Status, BoundsAssumption
<1>11. CASE RollBack(r)
  BY <1>11 DEF RollBack, TypeOK, BoundsAssumption
<1>12. CASE BeginNote(r)
  BY <1>12, HeldFacts, OpenType DEF BeginNote, TypeOK
<1>13. CASE CommitNote(r)
  <2>1. request[r] \in Held
    BY <1>13, <1>a, <1>b DEF CommitNote
  <2> QED BY <1>13, <2>1 DEF CommitNote, Held, TypeOK
<1> QED BY <1>1, <1>2, <1>3, <1>4, <1>5, <1>6, <1>7, <1>8, <1>9, <1>10, <1>11, <1>12, <1>13
    DEF WebStep

\* A worker writes a run and nothing but that, its own phase, or neither.
LEMMA WriteType ==
  ASSUME TypeOK, NEW w \in Worker, worker[w].phase = "scoring",
         NEW row, worker[w] \in Task /\ runs[worker[w].case] \in Run => row \in Run,
         Write(w, row)
  PROVE  /\ runs' \in [Case -> Run \cup {NoRun}]
         /\ worker' \in [Worker -> Task \cup {Idle}]
<1> DEFINE act == worker[w]
<1>1. act \in Task
  BY DEF TypeOK, Idle
<1>2. [act EXCEPT !.phase = "recorded"] \in Task
  BY <1>1 DEF Task
<1>3. CASE runs[act.case].pk = act.run.pk
  <2>1. act.run.pk # 0 /\ act.case \in Case
    BY <1>1 DEF Task, Run
  <2>2. runs[act.case] \in Run
    BY <1>3, <2>1 DEF TypeOK, NoRun
  <2> QED BY <1>1, <1>2, <1>3, <2>1, <2>2 DEF Write, Now, TypeOK
<1>4. CASE runs[act.case].pk # act.run.pk
  BY <1>4 DEF Write, Now, TypeOK
<1> QED BY <1>3, <1>4

\* Every step of a worker, its death included, keeps the types.
LEMMA WorkerType ==
  ASSUME TypeOK, BoundsAssumption, NEW w \in Worker,
         WorkerStep(w) \/ WorkerDies(w) \/ GiveUp(w)
  PROVE  TypeOK'
<1> USE DEF requestVars, taskVars
<1>a. worker[w] \in Task \cup {Idle} /\ (worker[w] # Idle => worker[w] \in Task)
  BY DEF TypeOK
<1>b. \A phase \in {"scoring", "recorded", "settled"} :
        worker[w].phase = phase => worker[w] \in Task
  BY <1>a DEF Idle
<1>c. \A phase \in {"scoring", "recorded", "settled"} :
        worker[w] \in Task => [worker[w] EXCEPT !.phase = phase] \in Task
  BY DEF Task
<1>1. ASSUME NEW p \in RunKey, StartScoring(w, p)
      PROVE  TypeOK'
  <2>1. queue' \in [RunKey -> Nat]
    BY <1>1 DEF StartScoring, TypeOK
  <2>2. worker' \in [Worker -> Task \cup {Idle}]
    <3>1. CASE p \in CurrentKeys
      <4>1. PICK c \in Case :
              /\ runs[c].pk = p
              /\ Now(w, [phase |-> "scoring", case |-> c, run |-> runs[c],
                         version |-> version[c]])
        BY <1>1, <3>1 DEF StartScoring
      <4>2. runs[c] \in Run /\ version[c] \in 1..MaxVersion
        BY <4>1 DEF TypeOK, NoRun
      <4> QED BY <4>1, <4>2 DEF TypeOK, Now, Task
    <3>2. CASE p \notin CurrentKeys
      BY <1>1, <3>2 DEF StartScoring, TypeOK
    <3> QED BY <3>1, <3>2
  <2> QED BY <1>1, <2>1, <2>2 DEF StartScoring, TypeOK
<1>2. CASE RecordScore(w)
  <2>1. worker[w] \in Task => Recorded(worker[w]) \in Run
    <3> SUFFICES ASSUME worker[w] \in Task PROVE Recorded(worker[w]) \in Run
      OBVIOUS
    <3>1. worker[w].run \in Run /\ worker[w].version \in Report
      BY DEF Task, BoundsAssumption
    <3>2. \A v \in Verification :
            [worker[w].run EXCEPT !.status = "scored", !.verification = v] \in Run
      BY <3>1 DEF Run, RunStatus
    <3>3. [worker[w].run EXCEPT !.status = "scored", !.report = worker[w].version] \in Run
      BY <3>1 DEF Run, RunStatus
    <3> QED BY <3>2, <3>3 DEF Recorded, Verification
  <2> QED BY <1>2, <2>1, WriteType DEF RecordScore, TypeOK
<1>3. CASE RecordFailure(w)
  <2>1. worker[w] \in Task /\ runs[worker[w].case] \in Run
          => Failed(runs[worker[w].case], worker[w]) \in Run
    BY DEF Failed, Task, Run, RunStatus, Verification
  <2> QED BY <1>3, <2>1, WriteType DEF RecordFailure, TypeOK
<1>4. CASE Settle(w)
  BY <1>4, <1>b, <1>c, MailedType DEF Settle, Now, Settled, Status, Reviewer, TypeOK
<1>5. CASE Acknowledge(w)
  BY <1>5 DEF Acknowledge, Now, TypeOK
<1>6. CASE WorkerDies(w)
  <2>1. worker[w].run.pk \in RunKey
    BY <1>6, <1>a DEF WorkerDies, Task, Run
  <2> QED BY <1>6, <2>1 DEF WorkerDies, Now, TypeOK
<1>7. CASE GiveUp(w)
  BY <1>7 DEF GiveUp, Now, TypeOK
<1> QED BY <1>1, <1>2, <1>3, <1>4, <1>5, <1>6, <1>7 DEF WorkerStep

LEMMA TypeInit == BoundsAssumption /\ OpeningAssumption /\ Init => TypeOK
BY DEF BoundsAssumption, Init, TypeOK, Status, Reviewer

LEMMA TypeNext == BoundsAssumption /\ TypeOK /\ [Next]_vars => TypeOK'
<1> SUFFICES ASSUME BoundsAssumption, TypeOK, [Next]_vars PROVE TypeOK'
  OBVIOUS
<1>1. ASSUME NEW c \in Case, ReplaceCase(c) PROVE TypeOK'
  BY <1>1 DEF ReplaceCase, TypeOK, taskVars, BoundsAssumption
<1>2. CASE UNCHANGED vars
  BY <1>2 DEF vars, requestVars, taskVars, TypeOK
<1> QED BY <1>1, <1>2, WebStepType, WorkerType DEF Next

\* The rows, the broker and the processes always hold values of their types.
THEOREM TypeCorrect == Spec => []TypeOK
<1> QED BY TypeInit, TypeNext, BoundsAssumption, OpeningAssumption, PTL DEF Spec

-----------------------------------------------------------------------------

\* What a note read is no better than what is there: the strengthening that
\* makes UnreviewedNeverPublished inductive.
HeldReviewed ==
  \A r \in Request :
    request[r].row.status = "approved" /\ role # "staff"
      => request[r].row.reviewer = "editor"

\* Whatever requests and workers overlap, only an editor publishes the result
\* of a submission that is not the staff's own: status and reviewer are written
\* together, by settle under its lock, by review, and by a note saved with the
\* pair it read.
THEOREM PublicationIsReviewed == Spec => []UnreviewedNeverPublished
<1>1. Init => UnreviewedNeverPublished /\ HeldReviewed
  BY DEF Init, UnreviewedNeverPublished, HeldReviewed, Closed
<1>2. TypeOK /\ UnreviewedNeverPublished /\ HeldReviewed /\ [Next]_vars
        => UnreviewedNeverPublished' /\ HeldReviewed'
  <2> SUFFICES ASSUME TypeOK, UnreviewedNeverPublished, HeldReviewed, [Next]_vars
               PROVE  UnreviewedNeverPublished' /\ HeldReviewed'
    OBVIOUS
  <2> USE DEF UnreviewedNeverPublished, HeldReviewed, requestVars, taskVars
  <2>1. ASSUME NEW r \in Request, WebStep(r)
        PROVE  UnreviewedNeverPublished' /\ HeldReviewed'
    <3>1. ASSUME NEW read, Open(r, read),
                 \/ read.row = Closed.row
                 \/ read.row = [status |-> status, reviewer |-> reviewer]
          PROVE  UnreviewedNeverPublished' /\ HeldReviewed'
      <4>1. request' = [request EXCEPT ![r] = read]
        BY <3>1 DEF Open
      <4>2. \A q \in Request : request'[q] = IF q = r THEN read ELSE request[q]
        BY <4>1 DEF TypeOK
      <4>3. UNCHANGED <<status, role, reviewer>>
        BY <3>1 DEF Open
      <4>4. read.row.status = "approved" /\ role # "staff" => read.row.reviewer = "editor"
        BY <3>1 DEF Closed
      <4> QED BY <4>2, <4>3, <4>4
    <3>2. ASSUME Closes(r) PROVE HeldReviewed' \/ role' # role
      <4>1. \A q \in Request : request'[q] = IF q = r THEN Closed ELSE request[q]
        BY <3>2 DEF Closes, TypeOK
      <4> QED BY <4>1 DEF Closed
    <3>3. CASE BeginAdd(r)
      <4>1. PICK c, report : Open(r, [Closed EXCEPT !.kind = "add", !.case = c,
                                                    !.report = report])
        BY <3>3 DEF BeginAdd
      <4>2. [Closed EXCEPT !.kind = "add", !.case = c, !.report = report].row = Closed.row
        BY DEF Closed
      <4> QED BY <4>1, <4>2, <3>1
    <3>4. \A kind, keys : [Closed EXCEPT !.kind = kind, !.keys = keys].row = Closed.row
      BY DEF Closed
    <3>5. \A kind : [Closed EXCEPT !.kind = kind].row = Closed.row
      BY DEF Closed
    <3>6. CASE BeginFinalize(r) \/ BeginRescore(r)
      BY <3>6, <3>4, <3>1 DEF BeginFinalize, BeginRescore
    <3>7. CASE BeginReview(r) \/ BeginWithdraw(r)
      BY <3>7, <3>5, <3>1 DEF BeginReview, BeginWithdraw
    <3>8. CASE BeginNote(r)
      <4> DEFINE row == [status |-> status, reviewer |-> reviewer]
      <4>1. [Closed EXCEPT !.kind = "note", !.row = row].row = row
        BY DEF Closed
      <4> QED BY <4>1, <3>8, <3>1 DEF BeginNote
    <3>9. CASE CommitAdd(r) \/ CommitFinalize(r) \/ CommitRescore(r) \/ CommitReview(r)
               \/ CommitWithdraw(r) \/ CommitNote(r) \/ RollBack(r)
      <4>1. Closes(r) /\ role' = role
        BY <3>9 DEF CommitAdd, CommitFinalize, CommitRescore, CommitReview, CommitWithdraw,
            CommitNote, RollBack
      <4>2. UnreviewedNeverPublished'
        BY <3>9 DEF CommitAdd, CommitFinalize, CommitRescore, CommitReview, CommitWithdraw,
            CommitNote, RollBack
      <4> QED BY <4>1, <4>2, <3>2
    <3> QED BY <2>1, <3>3, <3>6, <3>7, <3>8, <3>9 DEF WebStep
  <2>2. ASSUME NEW w \in Worker, Settle(w)
        PROVE  UnreviewedNeverPublished' /\ HeldReviewed'
    BY <2>2 DEF Settle, Settled
  <2>3. ASSUME NEW w \in Worker, WorkerStep(w) \/ WorkerDies(w) \/ GiveUp(w), ~Settle(w)
        PROVE  UnreviewedNeverPublished' /\ HeldReviewed'
    BY <2>3 DEF WorkerStep, StartScoring, RecordScore, RecordFailure, Acknowledge,
        WorkerDies, GiveUp
  <2>4. ASSUME NEW c \in Case, ReplaceCase(c)
        PROVE  UnreviewedNeverPublished' /\ HeldReviewed'
    BY <2>4 DEF ReplaceCase
  <2>5. CASE UNCHANGED vars
    BY <2>5 DEF vars
  <2> QED BY <2>1, <2>2, <2>3, <2>4, <2>5 DEF Next
<1> QED BY <1>1, <1>2, TypeCorrect, PTL DEF Spec

-----------------------------------------------------------------------------
(* What holds while no review note is saved.                                *)

NoNotes == "note" \notin Kinds

NoNoteHeld == \A r \in Request : request[r].kind # "note"

LEMMA NotesNext == NoNotes /\ TypeOK /\ NoNoteHeld /\ [Next]_vars => NoNoteHeld'
<1> SUFFICES ASSUME NoNotes, TypeOK, NoNoteHeld, [Next]_vars, NEW q \in Request
             PROVE  request'[q].kind # "note"
  BY DEF NoNoteHeld
<1> USE DEF NoNoteHeld, requestVars, taskVars
<1>1. ASSUME NEW r \in Request, NEW read, Open(r, read) PROVE request'[q].kind # "note"
  BY <1>1 DEF Open, NoNotes, TypeOK
<1>2. ASSUME NEW r \in Request, Closes(r) PROVE request'[q].kind # "note"
  BY <1>2 DEF Closes, Closed, TypeOK
<1>3. ASSUME NEW r \in Request, WebStep(r) PROVE request'[q].kind # "note"
  BY <1>1, <1>2, <1>3 DEF WebStep, BeginAdd, CommitAdd, BeginFinalize, CommitFinalize,
      BeginRescore, CommitRescore, BeginReview, CommitReview, BeginWithdraw,
      CommitWithdraw, BeginNote, CommitNote, RollBack
<1>4. CASE UNCHANGED request
  BY <1>4
<1>5. ASSUME NEW w \in Worker, WorkerStep(w) \/ WorkerDies(w) \/ GiveUp(w)
      PROVE  UNCHANGED request
  BY <1>5 DEF WorkerStep, StartScoring, RecordScore, RecordFailure, Settle, Acknowledge,
      WorkerDies, GiveUp
<1>6. ASSUME NEW c \in Case, ReplaceCase(c) PROVE UNCHANGED request
  BY <1>6 DEF ReplaceCase
<1> QED BY <1>3, <1>4, <1>5, <1>6 DEF Next, vars

LEMMA NotesCorrect ==
  ASSUME NoNotes
  PROVE  Spec => []NoNoteHeld
<1>1. Init => NoNoteHeld
  BY DEF Init, NoNoteHeld, Closed
<1>2. TypeOK /\ NoNoteHeld /\ [Next]_vars => NoNoteHeld'
  BY NotesNext
<1> QED BY <1>1, <1>2, TypeCorrect, PTL DEF Spec

\* However many workers settle together, one round of scoring is announced at
\* most once: a submission that is still scoring has one announcement in hand.
\* (A note saved with a status it read before can put a submission back in
\* scoring, and have it announced again.)
THEOREM RoundsAreAnnouncedOnce ==
  ASSUME NoNotes
  PROVE  Spec => []ScoredMailOncePerRound
<1> USE DEF ScoredMailOncePerRound, Mail
<1>1. Init => ScoredMailOncePerRound
  BY DEF Init
<1>2. TypeOK /\ NoNoteHeld /\ ScoredMailOncePerRound /\ [Next]_vars
        => ScoredMailOncePerRound'
  <2> SUFFICES ASSUME TypeOK, NoNoteHeld, ScoredMailOncePerRound, [Next]_vars
               PROVE  ScoredMailOncePerRound'
    OBVIOUS
  <2> USE DEF requestVars, taskVars
  <2>a. rounds \in Nat /\ mails \in [Mail -> Nat]
    BY DEF TypeOK
  <2>1. ASSUME NEW r \in Request, WebStep(r) PROVE ScoredMailOncePerRound'
    <3>1. CASE CommitFinalize(r)
      BY <2>a, <3>1 DEF CommitFinalize, Mailed
    <3>2. CASE CommitRescore(r)
      BY <2>a, <3>2 DEF CommitRescore
    <3>3. CASE CommitReview(r)
      BY <2>a, <3>3 DEF CommitReview, Mailed
    <3>4. CASE CommitWithdraw(r)
      BY <2>a, <3>4 DEF CommitWithdraw
    <3>5. CASE UNCHANGED <<status, role, rounds, mails>>
      BY <3>5
    <3>6. CASE CommitNote(r)
      BY <3>6 DEF CommitNote, NoNoteHeld
    <3> QED BY <2>1, <3>1, <3>2, <3>3, <3>4, <3>5, <3>6 DEF WebStep, BeginAdd, CommitAdd,
              BeginFinalize, BeginRescore, BeginReview, BeginWithdraw, BeginNote, RollBack,
              Open
  <2>2. ASSUME NEW w \in Worker, Settle(w) PROVE ScoredMailOncePerRound'
    <3>1. CASE status = "scoring" /\ AllScored
      <4>1. status' = Settled /\ status' # "scoring" /\ UNCHANGED <<role, rounds>>
        BY <2>2, <3>1 DEF Settle, Settled
      <4>2. mails' = Mailed(IF Settled = "pending_review"
                            THEN {"scored", "staff_notice"} ELSE {"scored"})
        BY <2>2, <3>1 DEF Settle
      <4> QED BY <2>a, <3>1, <4>1, <4>2 DEF Mailed
    <3>2. CASE ~(status = "scoring" /\ AllScored)
      BY <2>2, <3>2 DEF Settle
    <3> QED BY <3>1, <3>2
  <2>3. ASSUME NEW w \in Worker, WorkerStep(w) \/ WorkerDies(w) \/ GiveUp(w), ~Settle(w)
        PROVE  ScoredMailOncePerRound'
    BY <2>3 DEF WorkerStep, StartScoring, RecordScore, RecordFailure, Acknowledge,
        WorkerDies, GiveUp
  <2>4. ASSUME NEW c \in Case, ReplaceCase(c) PROVE ScoredMailOncePerRound'
    BY <2>4 DEF ReplaceCase
  <2>5. CASE UNCHANGED vars
    BY <2>5 DEF vars
  <2> QED BY <2>1, <2>2, <2>3, <2>4, <2>5 DEF Next
<1> QED BY <1>1, <1>2, TypeCorrect, NotesCorrect, PTL DEF Spec

-----------------------------------------------------------------------------
(* What holds when the requests on a submission do not overlap one another,  *)
(* the workers interleaving with them as they like.                          *)

OneRequest == \A q, r \in Request : q = r

\* What a request read is still good for when it commits.  Only settling can
\* have moved the submission meanwhile, so the one decision that can overtake a
\* request is the publication of a staff submission.
Overtaken == status = "approved" /\ role = "staff"

StillGood(read) ==
  CASE read.kind \in {"add", "finalize"} -> status = "draft"
    [] read.kind = "rescore" -> status \in Rescorable \/ Overtaken
    [] read.kind = "approved" -> status = "pending_review"
    [] read.kind = "rejected" -> status \in Reviewable
    [] read.kind = "withdraw" ->
         status \notin {"approved", "rejected", "withdrawn"} \/ Overtaken
    [] read.kind = "note" -> read.row.status \in {status, "scoring"}
    [] OTHER -> TRUE

RequestsStillGood == \A r \in Request : StillGood(request[r])

SerialInv == RequestsStillGood /\ NothingQueuedOnceSettled

\* A worker's step writes no status but settle's, and leaves a run queued only
\* if it was queued.
LEMMA WorkerSerial ==
  ASSUME TypeOK, SerialInv, NEW w \in Worker,
         WorkerStep(w) \/ WorkerDies(w) \/ GiveUp(w)
  PROVE  SerialInv'
<1> USE DEF SerialInv, requestVars, taskVars
<1>1. CASE Settle(w)
  <2>1. request' = request /\ runs' = runs /\ role' = role
    BY <1>1 DEF Settle
  <2>2. CASE status = "scoring" /\ AllScored
    <3>1. status' = Settled
      BY <1>1, <2>2 DEF Settle
    <3>2. NothingQueuedOnceSettled'
      BY <2>1, <2>2 DEF NothingQueuedOnceSettled, AllScored
    <3>3. RequestsStillGood'
      BY <2>1, <2>2, <3>1 DEF RequestsStillGood, StillGood, Settled, Overtaken,
          Rescorable, Reviewable
    <3> QED BY <3>2, <3>3
  <2>3. CASE ~(status = "scoring" /\ AllScored)
    BY <1>1, <2>1, <2>3 DEF Settle, RequestsStillGood, StillGood, Overtaken,
        NothingQueuedOnceSettled
  <2> QED BY <2>2, <2>3
<1>2. CASE ~Settle(w)
  <2>1. UNCHANGED <<status, role, request>>
    BY <1>2 DEF WorkerStep, StartScoring, RecordScore, RecordFailure, Acknowledge,
        WorkerDies, GiveUp
  <2>2. RequestsStillGood'
    BY <2>1 DEF RequestsStillGood, StillGood, Overtaken
  <2>3. \A c \in Case : runs'[c].status = "queued" => runs[c].status = "queued"
    <3>1. CASE RecordScore(w)
      <4>1. \A c \in Case : runs'[c] = runs[c] \/ runs'[c] = Recorded(worker[w])
        BY <3>1 DEF RecordScore, Write, TypeOK
      <4>2. worker[w].run \in Run
        BY <3>1 DEF RecordScore, TypeOK, Task, Idle
      <4>3. Recorded(worker[w]).status = "scored"
        BY <4>2 DEF Recorded, Run
      <4> QED BY <4>1, <4>3
    <3>2. CASE RecordFailure(w)
      <4>1. worker[w] \in Task
        BY <3>2 DEF RecordFailure, TypeOK, Idle
      <4>2. CASE runs[worker[w].case].pk = worker[w].run.pk
        <5>1. runs[worker[w].case] \in Run
          BY <4>1, <4>2 DEF TypeOK, Task, Run, NoRun
        <5>2. Failed(runs[worker[w].case], worker[w]).status \in {"failed", "scored"}
          BY <5>1 DEF Failed, Run
        <5>3. \A c \in Case : \/ runs'[c] = runs[c]
                              \/ runs'[c] = Failed(runs[worker[w].case], worker[w])
          BY <3>2, <4>2 DEF RecordFailure, Write, TypeOK
        <5> QED BY <5>2, <5>3
      <4>3. CASE runs[worker[w].case].pk # worker[w].run.pk
        BY <3>2, <4>3 DEF RecordFailure, Write
      <4> QED BY <4>2, <4>3
    <3>3. CASE runs' = runs
      BY <3>3
    <3> QED BY <1>2, <3>1, <3>2, <3>3 DEF WorkerStep, StartScoring, Acknowledge,
              WorkerDies, GiveUp
  <2> QED BY <2>1, <2>2, <2>3 DEF NothingQueuedOnceSettled
<1> QED BY <1>1, <1>2

\* When a request opens, what it read is good.
LEMMA OpensGood ==
  ASSUME OneRequest, SerialInv, TypeOK, NEW r \in Request, NEW read, Open(r, read),
         StillGood(read)
  PROVE  SerialInv'
<1>1. UNCHANGED <<status, role, runs>>
  BY DEF Open, requestVars
<1>2. \A q \in Request : request'[q] = read
  BY DEF Open, OneRequest, TypeOK
<1> QED BY <1>1, <1>2 DEF SerialInv, RequestsStillGood, StillGood, Overtaken,
          NothingQueuedOnceSettled

\* When one closes, no other is open.
LEMMA ClosesGood ==
  ASSUME OneRequest, TypeOK, NEW r \in Request, Closes(r)
  PROVE  RequestsStillGood'
<1>1. \A q \in Request : request'[q] = Closed
  BY DEF Closes, Closed, OneRequest, TypeOK
<1> QED BY <1>1 DEF RequestsStillGood, StillGood, Closed

LEMMA WebSerial ==
  ASSUME OneRequest, TypeOK, SerialInv, NEW r \in Request, WebStep(r)
  PROVE  SerialInv'
<1> USE DEF requestVars, taskVars
<1>a. StillGood(request[r])
  BY DEF SerialInv, RequestsStillGood
<1>1. CASE BeginAdd(r)
  BY <1>1, OpensGood DEF BeginAdd, StillGood, Closed
<1>2. CASE BeginFinalize(r)
  BY <1>2, OpensGood DEF BeginFinalize, StillGood, Closed
<1>3. CASE BeginRescore(r)
  BY <1>3, OpensGood DEF BeginRescore, StillGood, Closed
<1>4. CASE BeginReview(r)
  BY <1>4, OpensGood DEF BeginReview, StillGood, Closed
<1>5. CASE BeginWithdraw(r)
  BY <1>5, OpensGood DEF BeginWithdraw, StillGood, Closed
<1>6. CASE CommitAdd(r)
  BY <1>6, <1>a, ClosesGood DEF CommitAdd, StillGood, SerialInv, NothingQueuedOnceSettled
<1>7. CASE CommitFinalize(r)
  BY <1>7, ClosesGood DEF CommitFinalize, SerialInv, NothingQueuedOnceSettled
<1>8. CASE CommitRescore(r)
  BY <1>8, ClosesGood DEF CommitRescore, SerialInv, NothingQueuedOnceSettled
<1>9. CASE CommitReview(r)
  BY <1>9, <1>a, ClosesGood DEF CommitReview, StillGood, SerialInv, Reviewable,
      NothingQueuedOnceSettled
<1>10. CASE CommitWithdraw(r)
  BY <1>10, ClosesGood DEF CommitWithdraw, SerialInv, NothingQueuedOnceSettled
<1>11. CASE RollBack(r)
  BY <1>11, ClosesGood DEF RollBack, SerialInv, NothingQueuedOnceSettled
<1>12. CASE BeginNote(r)
  BY <1>12, OpensGood DEF BeginNote, StillGood, Closed
<1>13. CASE CommitNote(r)
  BY <1>13, <1>a, ClosesGood DEF CommitNote, StillGood, SerialInv, NothingQueuedOnceSettled
<1> QED BY <1>1, <1>2, <1>3, <1>4, <1>5, <1>6, <1>7, <1>8, <1>9, <1>10, <1>11, <1>12, <1>13
    DEF WebStep

LEMMA SerialNext ==
  ASSUME OneRequest
  PROVE  TypeOK /\ SerialInv /\ [Next]_vars => SerialInv'
<1> SUFFICES ASSUME TypeOK, SerialInv, [Next]_vars PROVE SerialInv'
  OBVIOUS
<1>1. ASSUME NEW c \in Case, ReplaceCase(c) PROVE SerialInv'
  BY <1>1 DEF ReplaceCase, SerialInv, RequestsStillGood, StillGood, Overtaken,
      NothingQueuedOnceSettled
<1>2. CASE UNCHANGED vars
  BY <1>2 DEF vars, requestVars, SerialInv, RequestsStillGood, StillGood, Overtaken,
      NothingQueuedOnceSettled
<1> QED BY <1>1, <1>2, WebSerial, WorkerSerial DEF Next

LEMMA SerialCorrect ==
  ASSUME OneRequest
  PROVE  Spec => []SerialInv
<1>1. Init => SerialInv
  BY DEF Init, Closed, SerialInv, RequestsStillGood, StillGood, NothingQueuedOnceSettled
<1> QED BY <1>1, SerialNext, TypeCorrect, PTL DEF Spec

\* Without overlapping requests, a submission an editor or the public sees has
\* no run that is still to be scored.
THEOREM SettledIsScored ==
  ASSUME OneRequest
  PROVE  Spec => []NothingQueuedOnceSettled
<1>1. SerialInv => NothingQueuedOnceSettled
  BY DEF SerialInv
<1> QED BY <1>1, SerialCorrect, PTL

\* What each request's commit does to the decision, given that what it read is
\* still good: on a submission that is not the staff's own, nothing overtook it.
LEMMA CommitsRefine ==
  ASSUME TypeOK, SerialInv, NoNoteHeld, role # "staff", NEW r \in Request, WebStep(r)
  PROVE  Lifecycle!Next \/ UNCHANGED (Lifecycle!lifecycleVars)
<1> USE DEF Lifecycle!Next, Lifecycle!lifecycleVars
<1>a. StillGood(request[r])
  BY DEF SerialInv, RequestsStillGood
<1>1. CASE CommitFinalize(r)
  BY <1>1, <1>a DEF CommitFinalize, StillGood, Lifecycle!Send
<1>2. CASE CommitRescore(r)
  BY <1>2, <1>a DEF CommitRescore, StillGood, Overtaken, Rescorable, Lifecycle!Rescore,
      Lifecycle!Rescorable
<1>3. CASE CommitReview(r)
  <2>1. CASE request[r].kind = "approved"
    BY <1>3, <1>a, <2>1 DEF CommitReview, StillGood, Lifecycle!Approve
  <2>2. CASE request[r].kind = "rejected"
    BY <1>3, <1>a, <2>2 DEF CommitReview, StillGood, Reviewable, Lifecycle!Reject
  <2> QED BY <1>3, <2>1, <2>2 DEF CommitReview
<1>4. CASE CommitWithdraw(r)
  BY <1>4, <1>a DEF CommitWithdraw, StillGood, Overtaken, Lifecycle!Withdraw,
      Lifecycle!Decided
<1>5. CASE UNCHANGED <<status, role, reviewer>>
  BY <1>5
<1>6. CASE CommitNote(r)
  BY <1>6 DEF CommitNote, NoNoteHeld
<1> QED BY <1>1, <1>2, <1>3, <1>4, <1>5, <1>6 DEF WebStep, BeginAdd, CommitAdd,
          BeginFinalize, BeginRescore, BeginReview, BeginWithdraw, BeginNote, RollBack, Open,
          requestVars

\* The workers decide nothing but how scoring settled.
LEMMA WorkersRefine ==
  ASSUME TypeOK, NEW w \in Worker, WorkerStep(w) \/ WorkerDies(w) \/ GiveUp(w)
  PROVE  Lifecycle!Next \/ UNCHANGED (Lifecycle!lifecycleVars)
<1> USE DEF Lifecycle!Next, Lifecycle!lifecycleVars
<1>1. CASE Settle(w) /\ status = "scoring" /\ AllScored
  BY <1>1 DEF Settle, Settled, Lifecycle!Settle
<1>2. CASE UNCHANGED <<status, role, reviewer>>
  BY <1>2
<1> QED BY <1>1, <1>2 DEF WorkerStep, StartScoring, RecordScore, RecordFailure, Settle,
          Acknowledge, WorkerDies, GiveUp, requestVars

\* A step of the system is a step or a stutter of the lifecycle, for every
\* submission but the staff's own.
LEMMA StepsRefine ==
  ASSUME TypeOK, SerialInv, NoNoteHeld, role # "staff", [Next]_vars
  PROVE  Lifecycle!Next \/ UNCHANGED (Lifecycle!lifecycleVars)
<1>1. ASSUME NEW c \in Case, ReplaceCase(c)
      PROVE  UNCHANGED (Lifecycle!lifecycleVars)
  BY <1>1 DEF ReplaceCase, Lifecycle!lifecycleVars
<1>2. CASE UNCHANGED vars
  BY <1>2 DEF vars, requestVars, Lifecycle!lifecycleVars
<1> QED BY <1>1, <1>2, CommitsRefine, WorkersRefine DEF Next

\* While the requests on a submission do not overlap, and no note is saved,
\* rescore, review and withdraw decide on every submission but the staff's own
\* as if each were one atomic step on the status it finds, whatever the workers,
\* their deaths and the redelivery of tasks do in between.
THEOREM DecisionsAreAtomic ==
  ASSUME OneRequest, NoNotes
  PROVE  Spec => ReviewedFollowLifecycle
<1>1. Init => Lifecycle!Init
  BY DEF Init, Lifecycle!Init
<1>2. TypeOK /\ SerialInv /\ NoNoteHeld /\ [Next]_vars
        => [role # "staff" => Lifecycle!Next]_(Lifecycle!lifecycleVars)
  BY StepsRefine DEF Lifecycle!lifecycleVars
<1> QED BY <1>1, <1>2, TypeCorrect, SerialCorrect, NotesCorrect, PTL
        DEF Spec, ReviewedFollowLifecycle

\* Where the staff open no submission the specification of the two-step requests
\* and the workers implements the atomic lifecycle outright.
THEOREM ImplementsLifecycleWithoutStaff ==
  ASSUME OneRequest, NoNotes, "staff" \notin Roles
  PROVE  Spec => Lifecycle!Spec
<1>1. Init => Lifecycle!Init
  BY DEF Init, Lifecycle!Init
<1>2. TypeOK /\ SerialInv /\ NoNoteHeld /\ [Next]_vars
        => [Lifecycle!Next]_(Lifecycle!lifecycleVars)
  <2> SUFFICES ASSUME TypeOK, SerialInv, NoNoteHeld, [Next]_vars
               PROVE  [Lifecycle!Next]_(Lifecycle!lifecycleVars)
    OBVIOUS
  <2>1. role # "staff"
    BY DEF TypeOK
  <2> QED BY <2>1, StepsRefine
<1> QED BY <1>1, <1>2, TypeCorrect, SerialCorrect, NotesCorrect, PTL
        DEF Spec, Lifecycle!Spec

\* The submitter of anything but a staff submission is told of the editor's
\* decision once, and of none that does not stand, however the workers settle
\* while the editor decides.
THEOREM DecisionIsMailedOnce ==
  ASSUME OneRequest, NoNotes
  PROVE  Spec => []DecisionMailedOnce
<1> USE DEF DecisionMailedOnce, Mail
<1>1. Init => DecisionMailedOnce
  BY DEF Init
<1>2. TypeOK /\ SerialInv /\ NoNoteHeld /\ DecisionMailedOnce /\ [Next]_vars
        => DecisionMailedOnce'
  <2> SUFFICES ASSUME TypeOK, SerialInv, NoNoteHeld, DecisionMailedOnce, [Next]_vars
               PROVE  DecisionMailedOnce'
    OBVIOUS
  <2> USE DEF requestVars, taskVars
  <2>a. mails \in [Mail -> Nat]
    BY DEF TypeOK
  <2>1. ASSUME NEW r \in Request, WebStep(r) PROVE DecisionMailedOnce'
    <3>a. StillGood(request[r])
      BY DEF SerialInv, RequestsStillGood
    <3>1. CASE CommitFinalize(r)
      BY <2>a, <3>a, <3>1 DEF CommitFinalize, StillGood, Mailed
    <3>2. CASE CommitRescore(r)
      BY <3>a, <3>2 DEF CommitRescore, StillGood, Rescorable, Overtaken
    <3>3. CASE CommitReview(r)
      <4>1. status \in Reviewable
        BY <3>a, <3>3 DEF CommitReview, StillGood, Reviewable
      <4>2. role # "staff" => mails["reviewed"] = 0
        BY <4>1 DEF Reviewable
      <4> QED BY <2>a, <3>3, <4>2 DEF CommitReview, Mailed
    <3>4. CASE CommitWithdraw(r)
      BY <3>a, <3>4 DEF CommitWithdraw, StillGood, Overtaken
    <3>5. CASE UNCHANGED <<status, role, mails>>
      BY <3>5
    <3>6. CASE CommitNote(r)
      BY <3>6 DEF CommitNote, NoNoteHeld
    <3> QED BY <2>1, <3>1, <3>2, <3>3, <3>4, <3>5, <3>6 DEF WebStep, BeginAdd, CommitAdd,
              BeginFinalize, BeginRescore, BeginReview, BeginWithdraw, BeginNote, RollBack,
              Open
  <2>2. ASSUME NEW w \in Worker, Settle(w) PROVE DecisionMailedOnce'
    BY <2>2, <2>a DEF Settle, Settled, Mailed
  <2>3. ASSUME NEW w \in Worker, WorkerStep(w) \/ WorkerDies(w) \/ GiveUp(w), ~Settle(w)
        PROVE  DecisionMailedOnce'
    BY <2>3 DEF WorkerStep, StartScoring, RecordScore, RecordFailure, Acknowledge,
        WorkerDies, GiveUp
  <2>4. ASSUME NEW c \in Case, ReplaceCase(c) PROVE DecisionMailedOnce'
    BY <2>4 DEF ReplaceCase
  <2>5. CASE UNCHANGED vars
    BY <2>5 DEF vars
  <2> QED BY <2>1, <2>2, <2>3, <2>4, <2>5 DEF Next
<1> QED BY <1>1, <1>2, TypeCorrect, SerialCorrect, NotesCorrect, PTL DEF Spec

-----------------------------------------------------------------------------
(* The submitter's report, whatever requests and workers overlap.           *)

\* Keys are given in order and never twice, so a key that is still there names
\* the run it always named.
KeysGiven ==
  /\ \A c \in Case : runs[c].pk <= lastRun
  /\ \A w \in Worker : worker[w].run.pk <= lastRun

\* What a worker read of a CLI run is still what the row says, as long as the
\* row is that run.
SnapshotsAgree ==
  origin = "cli" =>
    \A w \in Worker :
      worker[w].phase = "scoring" /\ runs[worker[w].case].pk = worker[w].run.pk
        => runs[worker[w].case].report = worker[w].run.report

\* The row a step leaves for a case is a new run, or the same run with the same
\* report if the submitter scored it.
KeptOrNew(c) ==
  \/ runs'[c].pk = lastRun + 1 /\ lastRun' = lastRun + 1
  \/ /\ runs'[c].pk = runs[c].pk
     /\ origin = "cli" => runs'[c].report = runs[c].report

LEMMA WriteKeeps ==
  ASSUME TypeOK, SnapshotsAgree, NEW w \in Worker, NEW c \in Case,
         RecordScore(w) \/ RecordFailure(w)
  PROVE  KeptOrNew(c)
<1> DEFINE act == worker[w]
<1>1. act \in Task /\ act.phase = "scoring"
  BY DEF TypeOK, RecordScore, RecordFailure, Idle
<1>2. act.case \in Case /\ act.run \in Run /\ act.run.pk # 0
  BY <1>1 DEF Task, Run
<1>3. CASE runs[act.case].pk = act.run.pk
  <2>1. runs[act.case] \in Run
    BY <1>2, <1>3 DEF TypeOK, NoRun
  <2>2. origin = "cli" => runs[act.case].report = act.run.report
    BY <1>1, <1>3 DEF SnapshotsAgree
  <2>3. CASE RecordScore(w)
    <3>1. /\ Recorded(act).pk = act.run.pk
          /\ origin # "upload" => Recorded(act).report = act.run.report
      BY <1>2 DEF Recorded, Run
    <3>2. runs' = [runs EXCEPT ![act.case] = Recorded(act)]
      BY <1>3, <2>3 DEF RecordScore, Write
    <3> QED BY <1>2, <1>3, <2>2, <3>1, <3>2 DEF KeptOrNew, TypeOK
  <2>4. CASE RecordFailure(w)
    <3>1. /\ Failed(runs[act.case], act).pk = runs[act.case].pk
          /\ Failed(runs[act.case], act).report = runs[act.case].report
      BY <2>1 DEF Failed, Run
    <3>2. runs' = [runs EXCEPT ![act.case] = Failed(runs[act.case], act)]
      BY <1>3, <2>4 DEF RecordFailure, Write
    <3> QED BY <1>2, <3>1, <3>2 DEF KeptOrNew, TypeOK
  <2> QED BY <2>3, <2>4
<1>4. CASE runs[act.case].pk # act.run.pk
  BY <1>4 DEF RecordScore, RecordFailure, Write, KeptOrNew
<1> QED BY <1>3, <1>4

LEMMA RunsChange ==
  ASSUME TypeOK, SnapshotsAgree, [Next]_vars, NEW c \in Case
  PROVE  KeptOrNew(c) /\ origin' = origin /\ (lastRun' = lastRun \/ lastRun' = lastRun + 1)
<1> USE DEF requestVars, taskVars
<1>1. CASE UNCHANGED <<runs, lastRun, origin>>
  BY <1>1 DEF KeptOrNew
<1>2. ASSUME NEW r \in Request, CommitAdd(r)
      PROVE  KeptOrNew(c) /\ origin' = origin /\ lastRun' = lastRun + 1
  BY <1>2 DEF CommitAdd, KeptOrNew, TypeOK
<1>3. ASSUME NEW r \in Request, CommitRescore(r)
      PROVE  KeptOrNew(c) /\ origin' = origin /\ lastRun' = lastRun
  <2>1. runs[c] \in Run \cup {NoRun}
    BY DEF TypeOK
  <2>2. runs'[c] = IF runs[c] = NoRun THEN NoRun ELSE [runs[c] EXCEPT !.status = "queued"]
    BY <1>3 DEF CommitRescore
  <2> QED BY <1>3, <2>1, <2>2 DEF CommitRescore, KeptOrNew, Run
<1>4. ASSUME NEW w \in Worker, RecordScore(w) \/ RecordFailure(w)
      PROVE  KeptOrNew(c) /\ origin' = origin /\ lastRun' = lastRun
  BY <1>4, WriteKeeps DEF RecordScore, RecordFailure
<1>5. ASSUME NEW r \in Request, WebStep(r), ~CommitAdd(r), ~CommitRescore(r)
      PROVE  UNCHANGED <<runs, lastRun, origin>>
  BY <1>5 DEF WebStep, BeginAdd, BeginFinalize, CommitFinalize, BeginRescore, BeginReview,
      CommitReview, BeginWithdraw, CommitWithdraw, BeginNote, CommitNote, RollBack, Open
<1>6. ASSUME NEW w \in Worker, WorkerStep(w) \/ WorkerDies(w) \/ GiveUp(w),
             ~RecordScore(w), ~RecordFailure(w)
      PROVE  UNCHANGED <<runs, lastRun, origin>>
  BY <1>6 DEF WorkerStep, StartScoring, Settle, Acknowledge, WorkerDies, GiveUp
<1>7. ASSUME NEW d \in Case, ReplaceCase(d) PROVE UNCHANGED <<runs, lastRun, origin>>
  BY <1>7 DEF ReplaceCase
<1>8. CASE UNCHANGED vars
  BY <1>1, <1>8 DEF vars
<1> QED BY <1>1, <1>2, <1>3, <1>4, <1>5, <1>6, <1>7, <1>8 DEF Next

\* Keys are counted up.
LEMMA KeysMove ==
  ASSUME [Next]_vars
  PROVE  lastRun' = lastRun \/ lastRun' = lastRun + 1
BY DEF Next, vars, requestVars, taskVars, WebStep, WorkerStep, BeginAdd, CommitAdd,
   BeginFinalize, CommitFinalize, BeginRescore, CommitRescore, BeginReview, CommitReview,
   BeginWithdraw, CommitWithdraw, BeginNote, CommitNote, RollBack, Open, ReplaceCase,
   StartScoring, RecordScore, RecordFailure, Settle, Acknowledge, WorkerDies, GiveUp

\* A worker goes on with the run it read, drops it, or reads one as it is.
LEMMA WorkersChange ==
  ASSUME TypeOK, [Next]_vars, NEW v \in Worker
  PROVE  \/ worker'[v] = worker[v]
         \/ worker'[v].phase # "scoring" /\ worker'[v].run \in {worker[v].run, NoRun}
         \/ /\ UNCHANGED <<runs, lastRun>>
            /\ \E c \in Case : worker'[v].case = c /\ worker'[v].run = runs[c]
<1> USE DEF requestVars, taskVars
<1> DEFINE Good == \/ worker'[v] = worker[v]
                   \/ worker'[v].phase # "scoring" /\ worker'[v].run \in {worker[v].run, NoRun}
                   \/ /\ UNCHANGED <<runs, lastRun>>
                      /\ \E c \in Case : worker'[v].case = c /\ worker'[v].run = runs[c]
<1>1. CASE UNCHANGED worker
  BY <1>1
<1>2. ASSUME NEW w \in Worker, NEW p \in RunKey, StartScoring(w, p) PROVE Good
  <2>1. CASE p \in CurrentKeys
    <3>1. PICK c \in Case :
            Now(w, [phase |-> "scoring", case |-> c, run |-> runs[c], version |-> version[c]])
      BY <1>2, <2>1 DEF StartScoring
    <3> QED BY <1>2, <3>1 DEF StartScoring, Now, TypeOK
  <2>2. CASE p \notin CurrentKeys
    BY <1>2, <2>2 DEF StartScoring
  <2> QED BY <2>1, <2>2
<1>3. ASSUME NEW w \in Worker, Now(w, Idle) PROVE Good
  <2>1. Idle.phase # "scoring" /\ Idle.run = NoRun
    BY DEF Idle
  <2> QED BY <1>3, <2>1 DEF Now, TypeOK
<1>4. ASSUME NEW w \in Worker, worker[w] \in Task, NEW phase \in {"recorded", "settled"},
             Now(w, [worker[w] EXCEPT !.phase = phase])
      PROVE  Good
  <2>1. /\ [worker[w] EXCEPT !.phase = phase].phase = phase
        /\ [worker[w] EXCEPT !.phase = phase].run = worker[w].run
    BY <1>4 DEF Task
  <2> QED BY <1>4, <2>1 DEF Now, TypeOK
<1>5. ASSUME NEW w \in Worker, WorkerStep(w) \/ WorkerDies(w) \/ GiveUp(w) PROVE Good
  <2>1. \A phase \in {"scoring", "recorded"} : worker[w].phase = phase => worker[w] \in Task
    BY DEF TypeOK, Idle
  <2>2. CASE RecordScore(w) \/ RecordFailure(w)
    BY <2>1, <2>2, <1>3, <1>4 DEF RecordScore, RecordFailure, Write
  <2>3. CASE Settle(w)
    BY <2>1, <2>3, <1>4 DEF Settle
  <2>4. CASE Acknowledge(w) \/ WorkerDies(w) \/ GiveUp(w)
    BY <2>4, <1>3 DEF Acknowledge, WorkerDies, GiveUp
  <2> QED BY <1>2, <1>5, <2>2, <2>3, <2>4 DEF WorkerStep
<1>6. ASSUME NEW r \in Request, WebStep(r) PROVE UNCHANGED worker
  BY <1>6 DEF WebStep, BeginAdd, CommitAdd, BeginFinalize, CommitFinalize, BeginRescore,
      CommitRescore, BeginReview, CommitReview, BeginWithdraw, CommitWithdraw, BeginNote,
      CommitNote, RollBack, Open
<1>7. ASSUME NEW d \in Case, ReplaceCase(d) PROVE UNCHANGED worker
  BY <1>7 DEF ReplaceCase
<1>8. CASE UNCHANGED vars
  BY <1>1, <1>8 DEF vars
<1> QED BY <1>1, <1>5, <1>6, <1>7, <1>8 DEF Next

LEMMA ReportsNext ==
  TypeOK /\ KeysGiven /\ SnapshotsAgree /\ [Next]_vars => KeysGiven' /\ SnapshotsAgree'
<1> SUFFICES ASSUME TypeOK, TypeOK', KeysGiven, SnapshotsAgree, [Next]_vars
             PROVE  KeysGiven' /\ SnapshotsAgree'
  BY TypeNext, BoundsAssumption
<1>a. lastRun \in Nat /\ lastRun' \in Nat
  BY DEF TypeOK
<1>b. \A c \in Case : runs[c].pk \in Nat /\ runs'[c].pk \in Nat
  BY DEF TypeOK, Run, NoRun
<1>c. \A w \in Worker : worker[w].run.pk \in Nat /\ worker[w] \in Task \cup {Idle}
  BY DEF TypeOK, Task, Idle, Run, NoRun
<1>1. \A c \in Case : runs'[c].pk <= lastRun'
  BY <1>a, <1>b, RunsChange DEF KeysGiven, KeptOrNew
<1>2. ASSUME NEW w \in Worker PROVE worker'[w].run.pk <= lastRun'
  <2>1. lastRun <= lastRun'
    BY <1>a, KeysMove
  <2> QED BY <1>a, <1>b, <1>c, <2>1, WorkersChange DEF KeysGiven, NoRun
<1>3. ASSUME NEW w \in Worker, origin' = "cli", worker'[w].phase = "scoring",
             runs'[worker'[w].case].pk = worker'[w].run.pk
      PROVE  runs'[worker'[w].case].report = worker'[w].run.report
  <2>1. CASE worker'[w] = worker[w]
    <3>1. worker[w].case \in Case /\ worker[w].run.pk <= lastRun
      BY <1>3, <2>1, <1>c DEF Task, Idle, KeysGiven
    <3>2. KeptOrNew(worker[w].case) /\ origin = "cli"
      BY <3>1, <1>3, RunsChange
    <3>3. runs'[worker[w].case].pk = worker[w].run.pk
      BY <1>3, <2>1
    <3>4. runs'[worker[w].case].pk # lastRun + 1
      BY <1>a, <1>c, <3>1, <3>3
    <3>5. /\ runs[worker[w].case].pk = worker[w].run.pk
          /\ runs'[worker[w].case].report = runs[worker[w].case].report
      BY <3>2, <3>3, <3>4 DEF KeptOrNew
    <3>6. worker[w].phase = "scoring"
      BY <1>3, <2>1
    <3> QED BY <2>1, <3>2, <3>5, <3>6 DEF SnapshotsAgree
  <2>2. CASE UNCHANGED runs /\ \E c \in Case : worker'[w].case = c /\ worker'[w].run = runs[c]
    BY <2>2
  <2> QED BY <1>3, <2>1, <2>2, WorkersChange
<1> QED BY <1>1, <1>2, <1>3 DEF KeysGiven, SnapshotsAgree

\* A report the submitter scored is never rewritten: whatever worker scores the
\* run, and whatever replaces it or is replaced meanwhile, the row of a key keeps
\* the report it came with.
THEOREM ReportIsTheSubmitters == Spec => SubmitterReportStands
<1>1. Init => KeysGiven /\ SnapshotsAgree
  BY DEF Init, KeysGiven, SnapshotsAgree, NoRun, Idle
<1>2. TypeOK /\ KeysGiven /\ SnapshotsAgree /\ [Next]_vars =>
        [\A c \in Case : origin = "cli" /\ runs'[c].pk = runs[c].pk
            => runs'[c].report = runs[c].report]_vars
  <2> SUFFICES ASSUME TypeOK, KeysGiven, SnapshotsAgree, [Next]_vars, NEW c \in Case,
                      origin = "cli", runs'[c].pk = runs[c].pk
               PROVE  runs'[c].report = runs[c].report
    OBVIOUS
  <2>1. runs[c].pk \in Nat /\ lastRun \in Nat /\ runs[c].pk <= lastRun
    BY DEF TypeOK, Run, NoRun, KeysGiven
  <2> QED BY <2>1, RunsChange DEF KeptOrNew
<1> QED BY <1>1, <1>2, ReportsNext, TypeCorrect, PTL DEF Spec, SubmitterReportStands

-----------------------------------------------------------------------------
(* What "verified" stands for, whatever requests and workers overlap.        *)

\* Only a CLI run can be verified, and against a key that was published.
Earned(run, c) ==
  run.verification = "verified" => origin = "cli" /\ run.report \in 1..version[c]

\* It holds of the rows, and of what a worker will write back over one.
VerifiedInv ==
  /\ \A c \in Case : Earned(runs[c], c)
  /\ \A w \in Worker : worker[w].phase = "scoring" =>
       /\ Earned(worker[w].run, worker[w].case)
       /\ worker[w].version \in 1..version[worker[w].case]

\* What a worker writes when its run is still there is earned.
LEMMA WritesEarned ==
  ASSUME TypeOK, VerifiedInv, NEW w \in Worker, RecordScore(w) \/ RecordFailure(w),
         NEW c \in Case
  PROVE  Earned(runs'[c], c)
<1> DEFINE act == worker[w]
<1>1. act \in Task /\ act.phase = "scoring"
  BY DEF TypeOK, RecordScore, RecordFailure, Idle
<1>2. act.case \in Case /\ act.run \in Run /\ act.run.pk # 0
  BY <1>1 DEF Task, Run
<1>3. origin = "upload" \/ origin = "cli"
  BY OpeningAssumption DEF TypeOK
<1>4. Earned(act.run, act.case) /\ act.version \in 1..version[act.case]
  BY <1>1 DEF VerifiedInv
<1>5. CASE runs[act.case].pk = act.run.pk
  <2>1. runs[act.case] \in Run
    BY <1>2, <1>5 DEF TypeOK, NoRun
  <2>2. CASE RecordScore(w)
    <3>1. Earned(Recorded(act), act.case)
      BY <1>2, <1>3, <1>4 DEF Recorded, Run, Earned
    <3>2. runs' = [runs EXCEPT ![act.case] = Recorded(act)]
      BY <1>5, <2>2 DEF RecordScore, Write
    <3> QED BY <1>2, <3>1, <3>2 DEF TypeOK, VerifiedInv
  <2>3. CASE RecordFailure(w)
    <3>1. Earned(Failed(runs[act.case], act), act.case)
      BY <2>1, <1>3, <1>4 DEF Failed, Run, Earned
    <3>2. runs' = [runs EXCEPT ![act.case] = Failed(runs[act.case], act)]
      BY <1>5, <2>3 DEF RecordFailure, Write
    <3> QED BY <1>2, <3>1, <3>2 DEF TypeOK, VerifiedInv
  <2> QED BY <2>2, <2>3
<1>6. CASE runs[act.case].pk # act.run.pk
  BY <1>6 DEF RecordScore, RecordFailure, Write, VerifiedInv
<1> QED BY <1>5, <1>6

\* Cases are only ever published again.
LEMMA VersionsGrow ==
  ASSUME TypeOK, [Next]_vars
  PROVE  /\ UNCHANGED origin
         /\ \A c \in Case : /\ version[c] \in Nat /\ version'[c] \in Nat
                            /\ version[c] <= version'[c]
<1> USE DEF requestVars, taskVars
<1>1. version \in [Case -> Nat]
  BY DEF TypeOK
<1>2. ASSUME NEW d \in Case, ReplaceCase(d)
      PROVE  /\ UNCHANGED origin
             /\ version' = [version EXCEPT ![d] = @ + 1]
  BY <1>2 DEF ReplaceCase
<1>3. \/ UNCHANGED <<origin, version>>
      \/ \E d \in Case : ReplaceCase(d)
  BY DEF Next, vars, WebStep, WorkerStep, BeginAdd, CommitAdd, BeginFinalize,
     CommitFinalize, BeginRescore, CommitRescore, BeginReview, CommitReview, BeginWithdraw,
     CommitWithdraw, BeginNote, CommitNote, RollBack, Open, StartScoring, RecordScore,
     RecordFailure, Settle, Acknowledge, WorkerDies, GiveUp
<1> QED BY <1>1, <1>2, <1>3

\* No step leaves a row that is not earned.
LEMMA RowsEarned ==
  ASSUME TypeOK, VerifiedInv, [Next]_vars, NEW c \in Case
  PROVE  Earned(runs'[c], c)
<1> USE DEF requestVars, taskVars
<1>a. Earned(runs[c], c) /\ runs[c] \in Run \cup {NoRun}
  BY DEF VerifiedInv, TypeOK
<1>1. CASE UNCHANGED runs
  BY <1>1, <1>a
<1>2. ASSUME NEW r \in Request, CommitAdd(r) PROVE Earned(runs'[c], c)
  BY <1>2, <1>a DEF CommitAdd, TypeOK, Earned
<1>3. ASSUME NEW r \in Request, CommitRescore(r) PROVE Earned(runs'[c], c)
  <2>1. runs'[c] = IF runs[c] = NoRun THEN NoRun ELSE [runs[c] EXCEPT !.status = "queued"]
    BY <1>3 DEF CommitRescore
  <2> QED BY <2>1, <1>a DEF Earned, Run
<1>4. ASSUME NEW r \in Request, WebStep(r), ~CommitAdd(r), ~CommitRescore(r)
      PROVE  UNCHANGED runs
  BY <1>4 DEF WebStep, BeginAdd, BeginFinalize, CommitFinalize, BeginRescore, BeginReview,
      CommitReview, BeginWithdraw, CommitWithdraw, BeginNote, CommitNote, RollBack, Open
<1>5. ASSUME NEW w \in Worker, WorkerStep(w) \/ WorkerDies(w) \/ GiveUp(w),
             ~RecordScore(w), ~RecordFailure(w)
      PROVE  UNCHANGED runs
  BY <1>5 DEF WorkerStep, StartScoring, Settle, Acknowledge, WorkerDies, GiveUp
<1>6. ASSUME NEW d \in Case, ReplaceCase(d) PROVE UNCHANGED runs
  BY <1>6 DEF ReplaceCase
<1>7. CASE UNCHANGED vars
  BY <1>1, <1>7 DEF vars
<1> QED BY <1>1, <1>2, <1>3, <1>4, <1>5, <1>6, <1>7, WritesEarned DEF Next

\* Nor does one hand a worker a run that is not earned.
LEMMA TasksEarned ==
  ASSUME TypeOK, VerifiedInv, [Next]_vars, NEW v \in Worker, worker'[v].phase = "scoring"
  PROVE  /\ worker'[v].case \in Case
         /\ Earned(worker'[v].run, worker'[v].case)
         /\ worker'[v].version \in 1..version[worker'[v].case]
<1> USE DEF requestVars, taskVars
<1>1. CASE worker'[v] = worker[v]
  BY <1>1 DEF VerifiedInv, TypeOK, Task, Idle
<1>2. ASSUME NEW w \in Worker, NEW p \in RunKey, StartScoring(w, p), worker'[v] # worker[v]
      PROVE  \E c \in Case : worker'[v] = [phase |-> "scoring", case |-> c, run |-> runs[c],
                                          version |-> version[c]]
  BY <1>2 DEF StartScoring, Now, TypeOK
<1>3. ASSUME NEW w \in Worker, WorkerStep(w) \/ WorkerDies(w) \/ GiveUp(w),
             ~\E p \in RunKey : StartScoring(w, p)
      PROVE  worker'[v] = worker[v]
  <2>1. worker[w] \in Task \/ worker[w] = Idle
    BY DEF TypeOK
  <2>2. \/ worker' = [worker EXCEPT ![w] = Idle]
        \/ worker' = [worker EXCEPT ![w].phase = "recorded"]
        \/ worker' = [worker EXCEPT ![w].phase = "settled"]
    BY <1>3 DEF WorkerStep, RecordScore, RecordFailure, Write, Settle, Acknowledge,
        WorkerDies, GiveUp, Now
  <2> QED BY <2>1, <2>2 DEF TypeOK, Task, Idle
<1>4. ASSUME NEW r \in Request, WebStep(r) PROVE UNCHANGED worker
  BY <1>4 DEF WebStep, BeginAdd, CommitAdd, BeginFinalize, CommitFinalize, BeginRescore,
      CommitRescore, BeginReview, CommitReview, BeginWithdraw, CommitWithdraw, BeginNote,
      CommitNote, RollBack, Open
<1>5. ASSUME NEW d \in Case, ReplaceCase(d) PROVE UNCHANGED worker
  BY <1>5 DEF ReplaceCase
<1>6. CASE \E c \in Case : worker'[v] = [phase |-> "scoring", case |-> c, run |-> runs[c],
                                        version |-> version[c]]
  BY <1>6 DEF VerifiedInv, TypeOK
<1>7. CASE UNCHANGED vars
  BY <1>1, <1>7 DEF vars
<1> QED BY <1>1, <1>2, <1>3, <1>4, <1>5, <1>6, <1>7 DEF Next

LEMMA VerifiedNext == TypeOK /\ VerifiedInv /\ [Next]_vars => VerifiedInv'
<1> SUFFICES ASSUME TypeOK, VerifiedInv, [Next]_vars PROVE VerifiedInv'
  OBVIOUS
<1>1. /\ UNCHANGED origin
      /\ \A c \in Case : version[c] \in Nat /\ version'[c] \in Nat /\ version[c] <= version'[c]
  BY VersionsGrow
<1>2. \A c \in Case : Earned(runs[c], c)'
  BY <1>1, RowsEarned DEF Earned
<1>3. ASSUME NEW w \in Worker, worker'[w].phase = "scoring"
      PROVE  /\ Earned(worker[w].run, worker[w].case)'
             /\ worker'[w].version \in 1..version'[worker'[w].case]
  BY <1>1, <1>3, TasksEarned DEF Earned
<1> QED BY <1>2, <1>3 DEF VerifiedInv

\* Whatever is replaced, rescored or lost meanwhile, a run is called verified
\* only when its report is what an answer key published for its case yields.
THEOREM VerifiedIsEarned == Spec => []VerifiedWasReproduced
<1>1. Init => VerifiedInv
  BY DEF Init, VerifiedInv, Earned, NoRun, Idle
<1>2. VerifiedInv => VerifiedWasReproduced
  BY DEF VerifiedInv, Earned, VerifiedWasReproduced
<1> QED BY <1>1, <1>2, VerifiedNext, TypeCorrect, PTL DEF Spec

-----------------------------------------------------------------------------
(* Scoring always has work to do, when the requests on a submission do not   *)
(* overlap and no note is saved.                                             *)

\* A key is one case's, and was given.
KeysDiffer ==
  /\ \A c \in Case : runs[c].pk <= lastRun
  /\ \A c, d \in Case : runs[c].pk = runs[d].pk /\ runs[c] # NoRun => c = d

\* Nothing is scored before the submission is sent.
DraftIsQuiet ==
  status = "draft" => /\ \A p \in RunKey : queue[p] = 0
                      /\ \A w \in Worker : worker[w] = Idle

\* No run is replaced under the worker that scores it.
TasksAreCurrent ==
  \A w \in Worker : worker[w] # Idle => runs[worker[w].case].pk = worker[w].run.pk

\* The keys a request is about to queue are those of all the runs.
HeldAreCurrent ==
  \A r \in Request : request[r].kind \in {"finalize", "rescore"}
    => request[r].keys = CurrentKeys /\ CurrentKeys # {}

WorkInv ==
  KeysDiffer /\ DraftIsQuiet /\ TasksAreCurrent /\ HeldAreCurrent /\ ScoringHasWork

\* Only an add gives a case another key.
LEMMA KeysStay ==
  ASSUME TypeOK, [Next]_vars, \A r \in Request : ~CommitAdd(r)
  PROVE  /\ lastRun' = lastRun
         /\ \A c \in Case : /\ runs'[c].pk = runs[c].pk
                            /\ runs'[c] = NoRun <=> runs[c] = NoRun
         /\ CurrentKeys' = CurrentKeys
<1> USE DEF requestVars, taskVars
<1> DEFINE Stays == /\ lastRun' = lastRun
                    /\ \A c \in Case : runs'[c].pk = runs[c].pk
<1>1. UNCHANGED <<runs, lastRun>> => Stays
  OBVIOUS
<1>2. ASSUME NEW r \in Request, CommitRescore(r) PROVE Stays
  <2>1. ASSUME NEW c \in Case PROVE runs'[c].pk = runs[c].pk
    <3>1. runs[c] \in Run \cup {NoRun}
      BY DEF TypeOK
    <3>2. runs'[c] = IF runs[c] = NoRun THEN NoRun ELSE [runs[c] EXCEPT !.status = "queued"]
      BY <1>2 DEF CommitRescore
    <3> QED BY <3>1, <3>2 DEF Run
  <2> QED BY <1>2, <2>1 DEF CommitRescore
<1>3. ASSUME NEW r \in Request, WebStep(r), ~CommitRescore(r)
      PROVE  UNCHANGED <<runs, lastRun>>
  BY <1>3 DEF WebStep, BeginAdd, BeginFinalize, CommitFinalize, BeginRescore, BeginReview,
      CommitReview, BeginWithdraw, CommitWithdraw, BeginNote, CommitNote, RollBack, Open
<1>4. ASSUME NEW w \in Worker, RecordScore(w) PROVE Stays
  <2>1. worker[w].run \in Run /\ worker[w].case \in Case
    BY <1>4 DEF RecordScore, TypeOK, Task, Idle
  <2>2. Recorded(worker[w]).pk = worker[w].run.pk
    BY <2>1 DEF Recorded, Run
  <2> QED BY <1>4, <2>1, <2>2 DEF RecordScore, Write, TypeOK
<1>5. ASSUME NEW w \in Worker, RecordFailure(w) PROVE Stays
  <2>1. worker[w].case \in Case /\ worker[w].run \in Run
    BY <1>5 DEF RecordFailure, TypeOK, Task, Idle
  <2>2. CASE runs[worker[w].case].pk = worker[w].run.pk
    <3>1. runs[worker[w].case] \in Run
      BY <2>1, <2>2 DEF TypeOK, Run, NoRun
    <3>2. Failed(runs[worker[w].case], worker[w]).pk = runs[worker[w].case].pk
      BY <3>1 DEF Failed, Run
    <3> QED BY <1>5, <2>1, <2>2, <3>2 DEF RecordFailure, Write, TypeOK
  <2>3. CASE runs[worker[w].case].pk # worker[w].run.pk
    BY <1>5, <2>3 DEF RecordFailure, Write
  <2> QED BY <2>2, <2>3
<1>6. ASSUME NEW w \in Worker, WorkerStep(w) \/ WorkerDies(w) \/ GiveUp(w),
             ~RecordScore(w), ~RecordFailure(w)
      PROVE  UNCHANGED <<runs, lastRun>>
  BY <1>6 DEF WorkerStep, StartScoring, Settle, Acknowledge, WorkerDies, GiveUp
<1>7. ASSUME NEW d \in Case, ReplaceCase(d) PROVE UNCHANGED <<runs, lastRun>>
  BY <1>7 DEF ReplaceCase
<1>8. UNCHANGED vars => UNCHANGED <<runs, lastRun>>
  BY DEF vars
<1>9. Stays
  BY <1>1, <1>2, <1>3, <1>4, <1>5, <1>6, <1>7, <1>8 DEF Next
<1>10. ASSUME NEW c \in Case PROVE runs'[c] = NoRun <=> runs[c] = NoRun
  <2>1. runs[c] \in Run \cup {NoRun} /\ runs'[c] \in Run \cup {NoRun}
    BY TypeNext, BoundsAssumption DEF TypeOK
  <2> QED BY <1>9, <2>1 DEF Run, NoRun
<1>11. CurrentKeys' = CurrentKeys
  BY <1>9, <1>10 DEF CurrentKeys
<1> QED BY <1>9, <1>10, <1>11

\* A run is replaced in a draft, where nothing has a task yet.
LEMMA AddWork ==
  ASSUME OneRequest, TypeOK, SerialInv, WorkInv, NEW r \in Request, CommitAdd(r)
  PROVE  WorkInv'
<1> USE DEF requestVars, taskVars
<1>1. status = "draft" /\ status' = "draft"
  BY DEF CommitAdd, SerialInv, RequestsStillGood, StillGood
<1>2. KeysDiffer'
  BY DEF WorkInv, KeysDiffer, CommitAdd, TypeOK, Run, NoRun
<1>3. DraftIsQuiet' /\ TasksAreCurrent'
  BY <1>1 DEF WorkInv, DraftIsQuiet, TasksAreCurrent, CommitAdd
<1>4. HeldAreCurrent'
  BY DEF CommitAdd, Closes, Closed, OneRequest, TypeOK, HeldAreCurrent
<1>5. ScoringHasWork'
  BY <1>1 DEF ScoringHasWork
<1> QED BY <1>2, <1>3, <1>4, <1>5 DEF WorkInv

\* What is sent or rescored is queued, all of it; other requests leave the
\* tasks of a submission that is scoring as they are.
LEMMA WebWork ==
  ASSUME OneRequest, TypeOK, SerialInv, NoNoteHeld, WorkInv, [Next]_vars,
         NEW r \in Request, WebStep(r)
  PROVE  WorkInv'
<1> USE DEF requestVars, taskVars
<1>1. CASE CommitAdd(r)
  BY <1>1, AddWork
<1>2. ASSUME ~CommitAdd(r) PROVE WorkInv'
  <2>1. /\ lastRun' = lastRun
        /\ \A c \in Case : /\ runs'[c].pk = runs[c].pk
                           /\ runs'[c] = NoRun <=> runs[c] = NoRun
        /\ CurrentKeys' = CurrentKeys
    <3>1. \A q \in Request : ~CommitAdd(q)
      BY <1>2 DEF OneRequest
    <3> QED BY <3>1, KeysStay
  <2>2. worker' = worker /\ lost' = lost
    BY <1>2 DEF WebStep, BeginAdd, BeginFinalize, CommitFinalize, BeginRescore,
        CommitRescore, BeginReview, CommitReview, BeginWithdraw, CommitWithdraw, BeginNote,
        CommitNote, RollBack, Open
  <2>3. KeysDiffer'
    BY <2>1 DEF WorkInv, KeysDiffer
  <2>4. TasksAreCurrent'
    BY <2>1, <2>2 DEF WorkInv, TasksAreCurrent, TypeOK, Task
  <2>5. HeldAreCurrent'
    <3>1. CASE BeginFinalize(r) \/ BeginRescore(r)
      <4>1. CurrentKeys # {} /\ request'[r].keys = CurrentKeys
        BY <3>1 DEF BeginFinalize, BeginRescore, Open, Closed, TypeOK
      <4> QED BY <2>1, <4>1 DEF HeldAreCurrent, OneRequest
    <3>2. CASE request'[r].kind \notin {"finalize", "rescore"}
      BY <3>2 DEF HeldAreCurrent, OneRequest
    <3>3. Closes(r) => request'[r].kind = "none"
      BY DEF Closes, Closed, TypeOK
    <3>4. \A read : Open(r, read) => request'[r] = read
      BY DEF Open, TypeOK
    <3>5. CASE BeginAdd(r)
      <4>1. PICK c, report : Open(r, [Closed EXCEPT !.kind = "add", !.case = c,
                                                    !.report = report])
        BY <3>5 DEF BeginAdd
      <4>2. request'[r].kind = "add"
        BY <3>4, <4>1 DEF Closed
      <4> QED BY <3>2, <4>2
    <3>6. CASE BeginReview(r) \/ BeginWithdraw(r)
      <4>1. \A kind : [Closed EXCEPT !.kind = kind].kind = kind
        BY DEF Closed
      <4>2. request'[r].kind \in {"approved", "rejected", "withdraw"}
        BY <3>4, <3>6, <4>1 DEF BeginReview, BeginWithdraw
      <4> QED BY <3>2, <4>2
    <3>7. CASE BeginNote(r)
      <4>1. \A row : [Closed EXCEPT !.kind = "note", !.row = row].kind = "note"
        BY DEF Closed
      <4> QED BY <3>2, <3>4, <3>7, <4>1 DEF BeginNote
    <3> QED BY <1>2, <3>1, <3>2, <3>3, <3>5, <3>6, <3>7 DEF WebStep, CommitFinalize,
              CommitRescore, CommitReview, CommitWithdraw, CommitNote, RollBack
  <2>6. CASE CommitFinalize(r) \/ CommitRescore(r)
    <3>1. /\ CurrentKeys # {} /\ status' = "scoring"
          /\ \A p \in CurrentKeys : queue'[p] > 0
      <4>1. request[r].keys = CurrentKeys /\ CurrentKeys # {}
        BY <2>6 DEF WorkInv, HeldAreCurrent, CommitFinalize, CommitRescore
      <4>2. status' = "scoring" /\ queue' = Enqueued(CurrentKeys)
        BY <2>6, <4>1 DEF CommitFinalize, CommitRescore
      <4>3. CurrentKeys \subseteq RunKey
        BY KeysAreRunKeys
      <4>4. \A p \in CurrentKeys : queue[p] \in Nat /\ queue'[p] = queue[p] + 1
        BY <4>2, <4>3 DEF Enqueued, TypeOK
      <4> QED BY <4>1, <4>2, <4>4
    <3>2. DraftIsQuiet'
      BY <3>1 DEF DraftIsQuiet
    <3>3. \A c \in Case : runs'[c].status = "queued" => runs'[c].pk \in CurrentKeys
      BY <2>1 DEF CurrentKeys, NoRun
    <3>4. ScoringHasWork'
      BY <2>1, <3>1, <3>3 DEF ScoringHasWork, HasTask
    <3> QED BY <2>3, <2>4, <2>5, <3>2, <3>4 DEF WorkInv
  <2>7. CASE ~CommitFinalize(r) /\ ~CommitRescore(r)
    <3>1. ~CommitNote(r)
      BY DEF CommitNote, NoNoteHeld
    <3>2. UNCHANGED <<queue, runs>> /\ (status' = status \/ status' \notin {"draft", "scoring"})
      BY <1>2, <2>7, <3>1 DEF WebStep, BeginAdd, BeginFinalize, BeginRescore, BeginReview,
          CommitReview, BeginWithdraw, CommitWithdraw, BeginNote, RollBack, Open
    <3>3. DraftIsQuiet'
      BY <2>2, <3>2 DEF WorkInv, DraftIsQuiet
    <3>4. ScoringHasWork'
      BY <2>1, <2>2, <3>2 DEF WorkInv, ScoringHasWork, HasTask
    <3> QED BY <2>3, <2>4, <2>5, <3>3, <3>4 DEF WorkInv
  <2> QED BY <2>6, <2>7
<1> QED BY <1>1, <1>2

\* A worker's step keeps a task for every run that is queued, and whoever writes
\* the last one has yet to settle.
LEMMA WorkerWork ==
  ASSUME TypeOK, WorkInv, [Next]_vars, NEW w \in Worker,
         WorkerStep(w) \/ WorkerDies(w) \/ GiveUp(w)
  PROVE  WorkInv'
<1> USE DEF requestVars, taskVars
<1>1. /\ lastRun' = lastRun
      /\ \A c \in Case : /\ runs'[c].pk = runs[c].pk
                         /\ runs'[c] = NoRun <=> runs[c] = NoRun
      /\ CurrentKeys' = CurrentKeys
  <2>1. UNCHANGED <<lastRun, request>>
    BY DEF WorkerStep, StartScoring, RecordScore, RecordFailure, Settle, Acknowledge,
        WorkerDies, GiveUp
  <2>2. \A r \in Request : ~CommitAdd(r)
    BY <2>1 DEF CommitAdd, TypeOK
  <2> QED BY <2>2, KeysStay
<1>2. request' = request /\ role' = role
  BY DEF WorkerStep, StartScoring, RecordScore, RecordFailure, Settle, Acknowledge,
      WorkerDies, GiveUp
<1>3. KeysDiffer' /\ HeldAreCurrent'
  BY <1>1, <1>2 DEF WorkInv, KeysDiffer, HeldAreCurrent
<1>4. status # "draft" /\ status' # "draft"
  <2>1. status # "draft"
    BY DEF WorkInv, DraftIsQuiet, WorkerStep, StartScoring, RecordScore, RecordFailure,
        Settle, Acknowledge, WorkerDies, GiveUp, Idle
  <2> QED BY <2>1 DEF WorkerStep, StartScoring, RecordScore, RecordFailure, Settle, Settled,
            Acknowledge, WorkerDies, GiveUp
<1>5. DraftIsQuiet'
  BY <1>4 DEF DraftIsQuiet
<1> DEFINE act == worker[w]
<1>6. /\ act \in Task \/ act = Idle
      /\ act.phase \in {"scoring", "recorded", "settled"} => act \in Task
  BY DEF TypeOK, Idle
<1>7. act \in Task => /\ act.case \in Case /\ act.run.pk \in RunKey
                      /\ runs[act.case].pk = act.run.pk
                      /\ \A c \in Case : runs[c].pk = act.run.pk => c = act.case
  BY DEF WorkInv, TasksAreCurrent, KeysDiffer, Task, Idle, Run, NoRun
<1>8. \A v \in Worker : v # w => worker'[v] = worker[v]
  BY DEF WorkerStep, StartScoring, RecordScore, RecordFailure, Write, Settle, Acknowledge,
      WorkerDies, GiveUp, Now, TypeOK
<1>9. TasksAreCurrent'
  <2>1. ASSUME worker'[w] # Idle PROVE runs[worker'[w].case].pk = worker'[w].run.pk
                                       /\ worker'[w].case \in Case
    <3>1. ASSUME NEW p \in RunKey, StartScoring(w, p)
          PROVE  \E c \in Case : worker'[w].case = c /\ worker'[w].run = runs[c]
      BY <2>1, <3>1 DEF StartScoring, Now, TypeOK
    <3>2. CASE RecordScore(w) \/ RecordFailure(w) \/ Settle(w)
      <4>1. act \in Task
        BY <1>6, <3>2 DEF RecordScore, RecordFailure, Settle
      <4>2. \/ worker' = [worker EXCEPT ![w] = [act EXCEPT !.phase = "recorded"]]
            \/ worker' = [worker EXCEPT ![w] = [act EXCEPT !.phase = "settled"]]
        BY <1>7, <3>2, <4>1 DEF RecordScore, RecordFailure, Write, Settle, Now
      <4>3. worker'[w].case = act.case /\ worker'[w].run = act.run
        BY <4>1, <4>2 DEF Task, TypeOK
      <4> QED BY <1>7, <4>1, <4>3
    <3>3. CASE Acknowledge(w) \/ WorkerDies(w) \/ GiveUp(w)
      BY <2>1, <3>3 DEF Acknowledge, WorkerDies, GiveUp, Now, TypeOK
    <3> QED BY <3>1, <3>2, <3>3 DEF WorkerStep
  <2>2. ASSUME NEW v \in Worker, v # w, worker[v] # Idle
        PROVE  worker[v].case \in Case /\ runs[worker[v].case].pk = worker[v].run.pk
    BY <2>2 DEF WorkInv, TasksAreCurrent, TypeOK, Task
  <2> QED BY <1>1, <1>8, <2>1, <2>2 DEF TasksAreCurrent
<1>10. ScoringHasWork'
  <2> SUFFICES ASSUME status' = "scoring", lost' = 0 PROVE ScoringHasWork'
    BY DEF ScoringHasWork
  <2>1. status = "scoring" /\ lost = 0
    BY DEF WorkerStep, StartScoring, RecordScore, RecordFailure, Settle, Settled,
        Acknowledge, WorkerDies, GiveUp, TypeOK
  <2>2. /\ \A c \in Case : runs[c].status = "queued" => HasTask(runs[c].pk)
        /\ \/ \E c \in Case : runs[c].status = "queued"
           \/ \E v \in Worker : worker[v].phase = "recorded"
           \/ \E p \in CurrentKeys : HasTask(p)
    BY <2>1 DEF WorkInv, ScoringHasWork
  <2>a. \A c \in Case : runs[c].status = "queued" => runs[c] # NoRun
    BY DEF NoRun
  <2>b. \A c \in Case : runs[c] # NoRun => runs[c].pk \in CurrentKeys
    BY DEF CurrentKeys
  <2>c. \A p : HasTask(p) => queue[p] > 0 \/ \E v \in Worker : /\ worker[v].phase = "scoring"
                                                               /\ worker[v].run.pk = p
    BY DEF HasTask
  <2>d. CurrentKeys \subseteq RunKey /\ queue \in [RunKey -> Nat]
    BY KeysAreRunKeys DEF TypeOK
  <2>3. ASSUME NEW p \in RunKey, StartScoring(w, p) PROVE ScoringHasWork'
    <3>1. /\ act = Idle /\ queue' = [queue EXCEPT ![p] = @ - 1]
          /\ UNCHANGED runs
      BY <2>3 DEF StartScoring
    <3>2. CASE p \in CurrentKeys
      <4>1. worker'[w].phase = "scoring" /\ worker'[w].run.pk = p
        BY <2>3, <3>2 DEF StartScoring, Now, TypeOK
      <4>2. \A q \in RunKey : HasTask(q) => HasTask(q)'
        BY <1>8, <2>c, <2>d, <3>1, <4>1 DEF HasTask, Idle
      <4> QED BY <1>1, <2>2, <2>a, <2>b, <2>d, <3>1, <3>2, <4>1, <4>2
              DEF ScoringHasWork, HasTask
    <3>3. CASE p \notin CurrentKeys
      <4>1. UNCHANGED worker
        BY <2>3, <3>3 DEF StartScoring
      <4>2. \A q \in CurrentKeys : HasTask(q) => HasTask(q)'
        BY <2>c, <2>d, <3>1, <3>3, <4>1 DEF HasTask
      <4> QED BY <1>1, <2>2, <2>a, <2>b, <3>1, <4>1, <4>2 DEF ScoringHasWork
    <3> QED BY <3>2, <3>3
  <2>4. CASE RecordScore(w) \/ RecordFailure(w)
    <3>1. act \in Task /\ act.phase = "scoring"
      BY <1>6, <2>4 DEF RecordScore, RecordFailure
    <3>2. worker'[w].phase = "recorded" /\ UNCHANGED queue
      BY <1>7, <2>4, <3>1 DEF RecordScore, RecordFailure, Write, Now, TypeOK, Task
    <3>3. runs'[act.case].status # "queued"
      <4>1. runs[act.case] \in Run /\ act.run \in Run
        BY <1>7, <3>1 DEF TypeOK, Task, NoRun, Run
      <4>2. /\ Recorded(act).status = "scored"
            /\ Failed(runs[act.case], act).status \in {"scored", "failed"}
        BY <4>1 DEF Recorded, Failed, Run
      <4> QED BY <1>7, <2>4, <3>1, <4>2 DEF RecordScore, RecordFailure, Write, TypeOK
    <3>4. \A c \in Case : c # act.case => runs'[c] = runs[c]
      BY <2>4 DEF RecordScore, RecordFailure, Write, TypeOK
    <3>5. ASSUME NEW c \in Case, c # act.case, runs[c].status = "queued"
          PROVE  HasTask(runs[c].pk)'
      <4>1. HasTask(runs[c].pk) /\ runs[c].pk # act.run.pk
        BY <1>7, <2>2, <3>1, <3>5
      <4> QED BY <1>8, <3>2, <3>4, <3>5, <4>1, <2>c DEF HasTask
    <3> QED BY <3>2, <3>3, <3>4, <3>5 DEF ScoringHasWork
  <2>5. CASE Settle(w)
    <3>1. ~AllScored /\ UNCHANGED <<runs, queue>>
      BY <2>1, <2>5 DEF Settle, Settled
    <3>2. \A p : HasTask(p) => HasTask(p)'
      BY <1>8, <2>5, <3>1 DEF HasTask, Settle
    <3> QED BY <2>2, <3>1, <3>2 DEF AllScored, ScoringHasWork
  <2>6. CASE Acknowledge(w)
    <3>1. act.phase = "settled" /\ UNCHANGED <<runs, queue>>
      BY <2>6 DEF Acknowledge
    <3>2. \A p : HasTask(p) => HasTask(p)'
      BY <1>8, <3>1 DEF HasTask
    <3>3. \A v \in Worker : worker[v].phase = "recorded" => worker'[v].phase = "recorded"
      BY <1>8, <3>1
    <3> QED BY <1>1, <2>2, <3>1, <3>2, <3>3 DEF ScoringHasWork
  <2>7. CASE WorkerDies(w)
    <3>1. act \in Task /\ queue' = [queue EXCEPT ![act.run.pk] = @ + 1] /\ UNCHANGED runs
      BY <1>6, <2>7 DEF WorkerDies
    <3>2. act.run.pk \in CurrentKeys /\ queue'[act.run.pk] > 0
      <4>1. runs[act.case] # NoRun
        BY <1>7, <3>1 DEF NoRun
      <4> QED BY <1>7, <2>b, <2>d, <3>1, <4>1
    <3>3. \A q \in RunKey : HasTask(q) => HasTask(q)'
      BY <1>8, <2>c, <2>d, <3>1, <3>2 DEF HasTask
    <3> QED BY <1>1, <2>2, <2>a, <2>b, <2>d, <3>1, <3>2, <3>3 DEF ScoringHasWork, HasTask
  <2>8. ~GiveUp(w)
    BY <2>1 DEF GiveUp
  <2> QED BY <2>3, <2>4, <2>5, <2>6, <2>7, <2>8 DEF WorkerStep
<1> QED BY <1>3, <1>5, <1>9, <1>10 DEF WorkInv

\* A submission that is scoring, and lost no task, always has a task or a worker
\* that will move it on: whatever order the workers take the runs in, and
\* however often they die and are started again.
THEOREM ScoringIsNeverStuck ==
  ASSUME OneRequest, NoNotes
  PROVE  Spec => []ScoringHasWork
<1>1. Init => WorkInv
  BY DEF Init, WorkInv, KeysDiffer, DraftIsQuiet, TasksAreCurrent, HeldAreCurrent,
      ScoringHasWork, Closed, NoRun
<1>2. TypeOK /\ SerialInv /\ NoNoteHeld /\ WorkInv /\ [Next]_vars => WorkInv'
  <2> SUFFICES ASSUME TypeOK, SerialInv, NoNoteHeld, WorkInv, [Next]_vars PROVE WorkInv'
    OBVIOUS
  <2>1. ASSUME NEW c \in Case, ReplaceCase(c) PROVE WorkInv'
    <3>1. UNCHANGED <<status, runs, lastRun, queue, worker, lost, request>>
      BY <2>1 DEF ReplaceCase, taskVars
    <3> QED BY <3>1 DEF WorkInv, KeysDiffer, DraftIsQuiet, TasksAreCurrent, HeldAreCurrent,
              ScoringHasWork, HasTask, CurrentKeys
  <2>2. CASE UNCHANGED vars
    BY <2>2 DEF vars, requestVars, taskVars, WorkInv, KeysDiffer, DraftIsQuiet,
        TasksAreCurrent, HeldAreCurrent, ScoringHasWork, HasTask, CurrentKeys
  <2> QED BY <2>1, <2>2, WebWork, WorkerWork DEF Next
<1>3. WorkInv => ScoringHasWork
  BY DEF WorkInv
<1> QED BY <1>1, <1>2, <1>3, TypeCorrect, SerialCorrect, NotesCorrect, PTL DEF Spec

=============================================================================
