------------------------ MODULE SubmissionLifecycle ------------------------
(***************************************************************************)
(* What a benchmark submission promises, as one atomic step per decision:   *)
(* a draft is sent, its scoring settles, an editor decides, the submitter   *)
(* takes it back.  The status values are those of SubmissionStatus          *)
(* (apps/benchmarks/models.py).  BenchmarkSubmissions, where a request is   *)
(* a transaction of two steps and scoring runs in other processes, is       *)
(* shown to implement this, for everyone but the staff, when the requests   *)
(* on a submission do not overlap.                                          *)
(***************************************************************************)
CONSTANT Roles                \* the submitter roles considered

VARIABLES status, role, reviewer

lifecycleVars == <<status, role, reviewer>>

Status == {"draft", "scoring", "scoring_failed", "pending_review",
           "approved", "rejected", "withdrawn"}

\* Decisions after which nothing may change any more.
Decided == {"approved", "rejected", "withdrawn"}

\* An editor may rescore what was sent and is not decided.
Rescorable == {"scoring", "scoring_failed", "pending_review"}

Init ==
  /\ status = "draft"
  /\ role \in Roles
  /\ reviewer = "none"

Send ==
  /\ status = "draft"
  /\ status' = "scoring"
  /\ UNCHANGED <<role, reviewer>>

Rescore ==
  /\ status \in Rescorable
  /\ status' = "scoring"
  /\ UNCHANGED <<role, reviewer>>

\* Scoring ends: it failed, or the result waits for an editor, or - the
\* submission being the site's own - it is published at once.
Settle ==
  /\ status = "scoring"
  /\ UNCHANGED role
  /\ \/ /\ status' \in {"scoring_failed"} \cup
                       (IF role = "staff" THEN {} ELSE {"pending_review"})
        /\ UNCHANGED reviewer
     \/ /\ role = "staff"
        /\ status' = "approved"
        /\ reviewer' = "submitter"

Approve ==
  /\ status = "pending_review"
  /\ status' = "approved"
  /\ reviewer' = "editor"
  /\ UNCHANGED role

Reject ==
  /\ status \in {"pending_review", "scoring_failed"}
  /\ status' = "rejected"
  /\ reviewer' = "editor"
  /\ UNCHANGED role

\* "Take a submission back before it is published."
Withdraw ==
  /\ status \notin Decided
  /\ status' = "withdrawn"
  /\ UNCHANGED <<role, reviewer>>

Next == Send \/ Rescore \/ Settle \/ Approve \/ Reject \/ Withdraw

Spec == Init /\ [][Next]_lifecycleVars
============================================================================
