---------------------------- MODULE ResultUpload ----------------------------
(* The page that sends a tool's outputs for scoring                         *)
(* (features/benchmarks/submit-results.tsx and upload-file-row.tsx): a draft *)
(* is opened, PDFs are chosen and matched to cases, uploadAll sends them one *)
(* by one and the draft is sent.  uploadAll is an async loop over the rows as *)
(* they were when the button was pressed; the reader goes on editing the      *)
(* rows while it waits, the button comes back while it sends screenshots,     *)
(* and any answer may be lost.  The server's part is the draft with one       *)
(* output per case (apps/benchmarks/services.py); sending and withdrawing it  *)
(* are one step each here, and overlap one another in BenchmarkSubmissions.   *)
EXTENDS ApiClient, FiniteSets

CONSTANTS
    Cases,       \* the suite's case ids
    MaxPicks,    \* bound: files chosen during the visit
    MaxLoops,    \* bound: uploadAll calls that run at once
    MaxDrafts    \* bound: drafts opened, by Starts whose answer was lost

ASSUME UploadAssumption ==
    /\ Cases # {} /\ "none" \notin Cases
    /\ MaxPicks \in Nat \ {0} /\ MaxLoops \in Nat \ {0} /\ MaxDrafts \in Nat \ {0}

VARIABLES
    submission,  \* useState: the draft the page works on, 0 before StartDraft
    sentForScoring, \* useState: the card that says it is being scored is up
    rows,        \* useState: the chosen files, in order
    nextId,      \* useRef: the id of the next row
    loops,       \* the uploadAll calls that have not returned
    latest,      \* the loop whose call the upload hook reports as pending
    opening,     \* the create hook
    finalizing,  \* the finalize hook
    drafts,      \* server: the drafts of this reader
    lastRun      \* server: run ids handed out

uploadVars == <<submission, sentForScoring, rows, nextId, loops, latest, opening,
                finalizing, drafts, lastRun>>

NoCase == "none"
RowIds == 1..MaxPicks
LoopIds == 1..MaxLoops
DraftIds == 1..MaxDrafts
UploadState == {"ready", "uploading", "done", "failed"}

FileRow == [id : RowIds, case : Cases \cup {NoCase}, state : UploadState,
        shots : BOOLEAN, warning : BOOLEAN]
NoLoop == [todo |-> <<>>, call |-> NoCall]

\* a case's run in a draft: its id, the file it was made from, and the rows
\* whose screenshots were attached to it
NoOutput == [run |-> 0, file |-> 0, shots |-> {}]
NoDraft == [status |-> "none", outputs |-> [c \in Cases |-> NoOutput],
            storedAs |-> [i \in RowIds |-> NoCase]]

UploadInit ==
    /\ submission = 0 /\ sentForScoring = FALSE
    /\ rows = <<>> /\ nextId = 1
    /\ loops = [k \in LoopIds |-> NoLoop] /\ latest = 0
    /\ opening = NoCall /\ finalizing = NoCall
    /\ drafts = [d \in DraftIds |-> NoDraft] /\ lastRun = 0

----------------------------------------------------------------------------
\* what the page derives while it renders
IsReady(row) == row.state = "ready" /\ row.case # NoCase
\* files.filter(isReady): the k-th of them has k ready rows up to its place
ReadyAt == {i \in DOMAIN rows : IsReady(rows[i])}
ReadyUpTo(i) == Cardinality({j \in ReadyAt : j <= i})
ReadyRows ==
    [k \in 1..Cardinality(ReadyAt) |-> rows[CHOOSE i \in ReadyAt : ReadyUpTo(i) = k]]
UploadedRows == SelectSeq(rows, LAMBDA row : row.state = "done")

\* upload.isPending: the hook follows its latest call only
UploadPending ==
    /\ latest # 0
    /\ Pending(loops[latest].call)
    /\ loops[latest].call.req.op = "UploadBenchmarkOutput"

Editing == submission # 0 /\ ~sentForScoring

\* setFiles(current.map(...)): by id, and nothing when the row is gone
UpdateRow(rs, id, change(_)) ==
    [i \in DOMAIN rs |-> IF rs[i].id = id THEN change(rs[i]) ELSE rs[i]]
SetState(rs, id, state) ==
    UpdateRow(rs, id, LAMBDA row : [row EXCEPT !.state = state])

----------------------------------------------------------------------------
\* opening the draft: the button is disabled while the hook is pending, and an
\* answer that is lost leaves the form up, over a draft nobody sees
StartDraft ==
    /\ submission = 0 /\ ~Pending(opening)
    /\ \E d \in DraftIds : drafts[d].status = "none"
    /\ opening' = Sent(CreateBenchmarkSubmission("pdf", "tool"))
    /\ UNCHANGED <<submission, sentForScoring, rows, nextId, loops, latest, finalizing,
                   drafts, lastRun>>

ServeDraft ==
    /\ opening.stage = "sent"
    /\ \/ \E d \in DraftIds, arrives \in BOOLEAN :
            /\ drafts[d].status = "none"
            /\ \A e \in 1..d - 1 : drafts[e].status # "none"
            /\ drafts' = [drafts EXCEPT ![d].status = "draft"]
            /\ opening' = IF arrives THEN Succeeds(opening, d) ELSE Fails(opening)
       \/ opening' = Fails(opening) /\ UNCHANGED drafts
    /\ UNCHANGED <<submission, sentForScoring, rows, nextId, loops, latest, finalizing,
                   lastRun>>

DraftOpened ==
    /\ opening.stage = "answered"
    /\ opening' = NoCall
    /\ submission' = IF opening.ok THEN opening.data ELSE submission
    /\ UNCHANGED <<sentForScoring, rows, nextId, loops, latest, finalizing, drafts,
                   lastRun>>

----------------------------------------------------------------------------
\* the rows: chosen, matched to a case by name or by hand, given screenshots,
\* removed
PickFile ==
    /\ Editing /\ nextId <= MaxPicks
    /\ \E c \in Cases \cup {NoCase} :
          rows' = Append(rows, [id |-> nextId, case |-> c, state |-> "ready",
                                shots |-> FALSE, warning |-> FALSE])
    /\ nextId' = nextId + 1
    /\ UNCHANGED <<submission, sentForScoring, loops, latest, opening, finalizing, drafts,
                   lastRun>>

\* the case select and the screenshot picker, each under its own lock
EditRow ==
    /\ Editing
    /\ \E i \in DOMAIN rows :
          \/ /\ rows[i].state = "ready"
             /\ \E c \in (Cases \cup {NoCase}) \ {rows[i].case} :
                   rows' = [rows EXCEPT ![i].case = c]
          \/ /\ rows[i].state \in {"ready", "failed"}
             /\ rows' = [rows EXCEPT ![i].shots = ~rows[i].shots]
    /\ UNCHANGED <<submission, sentForScoring, nextId, loops, latest, opening, finalizing,
                   drafts, lastRun>>

RemoveRow ==
    /\ Editing
    /\ \E i \in DOMAIN rows :
          /\ rows[i].state \in {"ready", "failed"}
          /\ rows' = RemoveAt(rows, i)
    /\ UNCHANGED <<submission, sentForScoring, nextId, loops, latest, opening, finalizing,
                   drafts, lastRun>>

----------------------------------------------------------------------------
\* uploadAll.  The next item of the loop's own list is marked and its PDF sent;
\* rs is the rows after the update the previous item ended with.
NextItem(k, todo, rs) ==
    IF todo = <<>>
    THEN /\ loops' = [loops EXCEPT ![k] = NoLoop]
         /\ rows' = rs /\ UNCHANGED latest
    ELSE LET item == Head(todo) IN
         /\ loops' = [loops EXCEPT ![k] =
               [todo |-> todo,
                call |-> Sent(UploadBenchmarkOutput(submission, item.case, item.id))]]
         /\ rows' = SetState(rs, item.id, "uploading")
         /\ latest' = k

UploadAll(k) ==
    /\ Editing /\ ReadyRows # <<>> /\ ~UploadPending
    /\ loops[k] = NoLoop /\ \A j \in 1..k - 1 : loops[j] # NoLoop
    /\ NextItem(k, ReadyRows, rows)
    /\ UNCHANGED <<submission, sentForScoring, nextId, opening, finalizing, drafts,
                   lastRun>>

\* what the server keeps of an upload: a new run in place of the case's
StoredInPlace(d, c, file) ==
    [drafts[d].outputs[c] EXCEPT !.file = file, !.run = IF @ = 0 THEN lastRun + 1 ELSE @]
StoredOutput(d, c, file) == [run |-> lastRun + 1, file |-> file, shots |-> {}]

\* the server's transactions read and check in one step, and write and commit in
\* a later one; they share no lock, so what was checked may be over by then
Checked(k, op) == loops[k].call.stage = "checked" /\ loops[k].call.req.op = op
PassesCheck(k, op) ==
    /\ loops[k].call.stage = "sent" /\ loops[k].call.req.op = op
    /\ loops' = [loops EXCEPT ![k].call.stage = "checked"]
    /\ UNCHANGED <<submission, sentForScoring, rows, nextId, latest, opening, finalizing,
                   drafts, lastRun>>

\* an upload goes on to its write while the draft is open
CheckUpload(k) ==
    /\ PassesCheck(k, "UploadBenchmarkOutput")
    /\ drafts[loops[k].call.req.path[1]].status = "draft"

\* it replaces the run of its case, in a draft that may be sent by now, and then
\* the answer may still be lost
ServeUpload(k) ==
    LET call == loops[k].call
        d == call.req.path[1]
        c == call.req.body[1]
        file == call.req.body[2] IN
    /\ Checked(k, "UploadBenchmarkOutput")
    /\ lastRun' = lastRun + 1
    /\ drafts' = [drafts EXCEPT ![d].outputs[c] = StoredOutput(d, c, file),
                                ![d].storedAs[file] = c]
    /\ \E arrives \in BOOLEAN :
          loops' = [loops EXCEPT ![k].call =
                       IF arrives THEN Succeeds(call, StoredOutput(d, c, file).run)
                                  ELSE Fails(call)]
    /\ UNCHANGED <<submission, sentForScoring, rows, nextId, latest, opening, finalizing>>

\* screenshots go to a run by its id; a draft that was sent still takes them
CheckShots(k) ==
    /\ PassesCheck(k, "AddBenchmarkRunScreenshots")
    /\ \E d \in DraftIds, c \in Cases :
          /\ drafts[d].outputs[c].run = loops[k].call.req.path[1]
          /\ drafts[d].status \in {"draft", "scoring"}

\* their rows refer to the run, which an upload for the same case may have deleted
ServeShots(k) ==
    LET call == loops[k].call
        run == call.req.path[1] IN
    /\ Checked(k, "AddBenchmarkRunScreenshots")
    /\ \E d \in DraftIds, c \in Cases, arrives \in BOOLEAN :
          /\ drafts[d].outputs[c].run = run
          /\ drafts' = [drafts EXCEPT ![d].outputs[c].shots = @ \cup {call.req.body}]
          /\ loops' = [loops EXCEPT ![k].call =
                          IF arrives THEN Succeeds(call, run) ELSE Fails(call)]
    /\ UNCHANGED <<submission, sentForScoring, rows, nextId, latest, opening, finalizing,
                   lastRun>>

\* a call that is refused, rolled back or never reaches the server
CallFails(k) ==
    /\ loops[k].call.stage \in {"sent", "checked"}
    /\ loops' = [loops EXCEPT ![k].call = Fails(@)]
    /\ UNCHANGED <<submission, sentForScoring, rows, nextId, latest, opening, finalizing,
                   drafts, lastRun>>

OutcomeAsSent(call) == "done"
Outcome(call) == IF call.ok THEN "done" ELSE "failed"

\* the PDF's answer: a refusal is shown on its own row and the loop goes on; a
\* stored PDF is followed by the item's screenshots, when it had any
PdfAnswered(k) ==
    LET call == loops[k].call
        item == Head(loops[k].todo) IN
    /\ call.stage = "answered" /\ call.req.op = "UploadBenchmarkOutput"
    /\ \/ /\ ~call.ok \/ ~item.shots
          /\ NextItem(k, Tail(loops[k].todo), SetState(rows, item.id, Outcome(call)))
       \/ /\ call.ok /\ item.shots
          /\ loops' = [loops EXCEPT ![k].call =
                          Sent(AddBenchmarkRunScreenshots(call.data, item.id))]
          /\ UNCHANGED <<rows, latest>>
    /\ UNCHANGED <<submission, sentForScoring, nextId, opening, finalizing, drafts,
                   lastRun>>

\* the screenshots' answer: the row is done either way, with a warning when
\* they did not go through
ShotsAnswered(k) ==
    LET call == loops[k].call
        item == Head(loops[k].todo) IN
    /\ call.stage = "answered" /\ call.req.op = "AddBenchmarkRunScreenshots"
    /\ NextItem(k, Tail(loops[k].todo),
                UpdateRow(rows, item.id,
                       LAMBDA row : [row EXCEPT !.state = "done", !.warning = ~call.ok]))
    /\ UNCHANGED <<submission, sentForScoring, nextId, opening, finalizing, drafts,
                   lastRun>>

----------------------------------------------------------------------------
\* sending the draft: offered from the first stored file, uploads still running
Finalize ==
    /\ Editing /\ UploadedRows # <<>> /\ ~Pending(finalizing)
    /\ finalizing' = Sent(FinalizeBenchmarkSubmission(submission))
    /\ UNCHANGED <<submission, sentForScoring, rows, nextId, loops, latest, opening,
                   drafts, lastRun>>

ServeFinalize ==
    LET d == finalizing.req.path[1] IN
    /\ finalizing.stage = "sent"
    /\ \/ /\ drafts[d].status = "draft"
          /\ \E c \in Cases : drafts[d].outputs[c] # NoOutput
          /\ drafts' = [drafts EXCEPT ![d].status = "scoring"]
          /\ \E arrives \in BOOLEAN :
                finalizing' = IF arrives THEN Succeeds(finalizing, d) ELSE Fails(finalizing)
       \/ finalizing' = Fails(finalizing) /\ UNCHANGED drafts
    /\ UNCHANGED <<submission, sentForScoring, rows, nextId, loops, latest, opening,
                   lastRun>>

Finalized ==
    /\ finalizing.stage = "answered"
    /\ finalizing' = NoCall
    /\ sentForScoring' = (sentForScoring \/ finalizing.ok)
    /\ UNCHANGED <<submission, rows, nextId, loops, latest, opening, drafts, lastRun>>

\* the submissions page of another tab takes the draft back
WithdrawElsewhere ==
    /\ submission # 0 /\ drafts[submission].status \in {"draft", "scoring"}
    /\ drafts' = [drafts EXCEPT ![submission].status = "withdrawn"]
    /\ UNCHANGED <<submission, sentForScoring, rows, nextId, loops, latest, opening,
                   finalizing, lastRun>>

UploadReader ==
    \/ StartDraft \/ PickFile \/ EditRow \/ RemoveRow \/ Finalize \/ WithdrawElsewhere
    \/ \E k \in LoopIds : UploadAll(k)
\* what happens without the reader: requests are served and their answers handled
OpeningSteps == ServeDraft \/ DraftOpened
FinalizeSteps == ServeFinalize \/ Finalized
LoopSteps(k) ==
    \/ CheckUpload(k) \/ ServeUpload(k) \/ CheckShots(k) \/ ServeShots(k)
    \/ CallFails(k) \/ PdfAnswered(k) \/ ShotsAnswered(k)

UploadNext ==
    \/ UploadReader \/ OpeningSteps \/ FinalizeSteps
    \/ \E k \in LoopIds : LoopSteps(k)

\* a request is answered in the end - the browser gives up on a dead connection
\* if the server does not - and its continuation runs; the reader owes nothing
UploadFairness ==
    /\ WF_uploadVars(OpeningSteps) /\ WF_uploadVars(FinalizeSteps)
    /\ \A k \in LoopIds : WF_uploadVars(LoopSteps(k))
UploadSpec == UploadInit /\ [][UploadNext]_uploadVars /\ UploadFairness

----------------------------------------------------------------------------
UploadTypeOK ==
    /\ submission \in 0..MaxDrafts /\ sentForScoring \in BOOLEAN
    /\ rows \in Seq(FileRow) /\ nextId \in 1..MaxPicks + 1
    /\ \A k \in LoopIds : loops[k].todo \in Seq(FileRow)
    /\ latest \in 0..MaxLoops /\ lastRun \in Nat
    /\ \A d \in DraftIds :
          /\ drafts[d].status \in {"none", "draft", "scoring", "withdrawn"}
          /\ drafts[d].storedAs \in [RowIds -> Cases \cup {NoCase}]
          /\ \A c \in Cases : /\ drafts[d].outputs[c].run \in 0..lastRun
                              /\ drafts[d].outputs[c].file \in 0..MaxPicks

\* A row that reads "Uploaded" is a PDF the server stored in this draft, and
\* the case it was stored under still has an output - its own, or a later row's
\* for the same case - whatever the other loops, lost answers and a withdrawal
\* did meanwhile (submit-results.tsx uploadAll).
DoneRowWasStored ==
    \A i \in DOMAIN rows : rows[i].state = "done" =>
        LET c == drafts[submission].storedAs[rows[i].id] IN
        c # NoCase /\ drafts[submission].outputs[c] # NoOutput

\* Screenshots sit on the run made from the file they were taken of: a run
\* replaced while its screenshots were on their way takes none of them
\* (submit-results.tsx addShots, services.py add_screenshots).
ShotsOnTheirOwnRun ==
    \A d \in DraftIds, c \in Cases :
        drafts[d].outputs[c].shots \subseteq {drafts[d].outputs[c].file}

\* nothing is on its way and no row reads "Uploading..."
UploadSettled ==
    /\ ~Pending(opening) /\ ~Pending(finalizing)
    /\ \A k \in LoopIds : loops[k] = NoLoop
    /\ \A i \in DOMAIN rows : rows[i].state # "uploading"
=============================================================================
