-------------------------- MODULE ResultUpload_proofs --------------------------
(* Proofs about ResultUpload, for any cases and any number of chosen files,   *)
(* loops and drafts.                                                          *)
(*                                                                            *)
(* A row is marked "Uploaded" by a loop that may have started long before, so *)
(* none of the page's properties is inductive by itself.  The invariant says  *)
(* of every loop under way what its answers rest on: its call is about the    *)
(* first item it has left, in the draft of the page, and from the moment the  *)
(* server stored that item's PDF until its screenshots are answered, the case *)
(* is recorded and only this file's output, or nothing any more, has the run  *)
(* the loop was given.                                                        *)
EXTENDS ResultUpload, FiniteSetTheorems, SequenceTheorems, TLAPS

PdfRequests == {UploadBenchmarkOutput(d, c, i) : d \in DraftIds, c \in Cases, i \in RowIds}
ShotRequests == {AddBenchmarkRunScreenshots(r, i) : r \in Nat, i \in RowIds}
UploadCalls(requests) == [stage : {"idle", "sent", "checked", "answered"},
                          req : {NoRequest} \cup requests, ok : BOOLEAN, data : Nat]
UploadLoop == [todo : Seq(FileRow), call : UploadCalls(PdfRequests \cup ShotRequests)]
DraftOutput == [run : Nat, file : 0..MaxPicks, shots : SUBSET RowIds]
DraftRow == [status : {"none", "draft", "scoring", "withdrawn"},
             outputs : [Cases -> DraftOutput],
             storedAs : [RowIds -> Cases \cup {NoCase}]]

UploadShape ==
    /\ submission \in 0..MaxDrafts /\ sentForScoring \in BOOLEAN
    /\ rows \in Seq(FileRow) /\ nextId \in 1..MaxPicks + 1
    /\ loops \in [LoopIds -> UploadLoop] /\ latest \in 0..MaxLoops
    /\ opening \in UploadCalls({CreateBenchmarkSubmission("pdf", "tool")})
    /\ finalizing \in UploadCalls({FinalizeBenchmarkSubmission(d) : d \in DraftIds})
    /\ drafts \in [DraftIds -> DraftRow] /\ lastRun \in Nat

\* the page opens one draft, and sends that one
PageOnItsDraft ==
    /\ opening.stage # "idle" => submission = 0
    /\ opening.stage = "answered" /\ opening.ok => opening.data \in DraftIds
    /\ finalizing.stage # "idle" =>
          submission # 0 /\ finalizing.req = FinalizeBenchmarkSubmission(submission)

\* what the server holds of a row, and of a run
Stored(i) == submission # 0 /\ drafts[submission].storedAs[i] # NoCase
MadeFrom(run, file) ==
    /\ run \in 1..lastRun
    /\ \A d \in DraftIds, c \in Cases :
          drafts[d].outputs[c].run = run => drafts[d].outputs[c].file = file

AboutItsItem(call, item) ==
    \/ /\ call.req = UploadBenchmarkOutput(submission, item.case, item.id)
       /\ call.stage = "answered" /\ call.ok =>
             Stored(item.id) /\ MadeFrom(call.data, item.id)
    \/ \E run \in Nat :
          /\ call.req = AddBenchmarkRunScreenshots(run, item.id)
          /\ Stored(item.id) /\ MadeFrom(run, item.id)
LoopInv(k) == loops[k].call.stage # "idle" =>
    /\ submission # 0 /\ loops[k].todo # <<>>
    /\ \A i \in DOMAIN loops[k].todo : loops[k].todo[i].case \in Cases
    /\ AboutItsItem(loops[k].call, Head(loops[k].todo))

DoneRowsAreStored == \A i \in DOMAIN rows : rows[i].state = "done" => Stored(rows[i].id)
DraftsSound ==
    \A d \in DraftIds :
        /\ \A c \in Cases : /\ drafts[d].outputs[c].run \in 0..lastRun
                            /\ drafts[d].outputs[c].shots \subseteq {drafts[d].outputs[c].file}
        /\ \A i \in RowIds : drafts[d].storedAs[i] # NoCase =>
              drafts[d].outputs[drafts[d].storedAs[i]].run # 0

UploadInv ==
    /\ UploadShape /\ PageOnItsDraft /\ DoneRowsAreStored /\ DraftsSound
    /\ \A k \in LoopIds : LoopInv(k)

----------------------------------------------------------------------------
\* the rows that files.filter gives are ready ones, with a case
LEMMA ReadyRowsAreReady ==
    ASSUME rows \in Seq(FileRow)
    PROVE  /\ ReadyRows \in Seq(FileRow)
           /\ \A k \in DOMAIN ReadyRows : ReadyRows[k].case \in Cases
  <1> DEFINE n == Cardinality(ReadyAt)
             up == [i \in ReadyAt |-> ReadyUpTo(i)]
  <1>1. IsFiniteSet(ReadyAt) /\ n \in Nat /\ ReadyAt \subseteq Nat
    <2>1. IsFiniteSet(1..Len(rows))
      BY FS_Interval
    <2>2. ReadyAt \in SUBSET (1..Len(rows))
      BY DEF ReadyAt
    <2>3. IsFiniteSet(ReadyAt)
      BY <2>1, <2>2, FS_Subset
    <2>4. 1..Len(rows) \subseteq Nat
      OBVIOUS
    <2> QED BY <2>2, <2>3, <2>4, FS_CardinalityType
  <1>2. ASSUME NEW i \in ReadyAt
        PROVE  /\ ReadyUpTo(i) \in 1..n /\ IsFiniteSet({j \in ReadyAt : j <= i})
    <2> DEFINE S == {j \in ReadyAt : j <= i}
    <2>1. S \in SUBSET ReadyAt
      OBVIOUS
    <2>2. IsFiniteSet(S) /\ Cardinality(S) <= n /\ Cardinality(S) \in Nat
      BY <2>1, <1>1, FS_Subset, FS_CardinalityType
    <2>3. S # {}
      BY <1>1
    <2>4. Cardinality(S) # 0
      BY <2>2, <2>3, FS_EmptySet
    <2> QED BY <2>2, <2>4, <1>1 DEF ReadyUpTo
  <1>3. ASSUME NEW i \in ReadyAt, NEW j \in ReadyAt, i < j
        PROVE  ReadyUpTo(i) # ReadyUpTo(j)
    <2> DEFINE S == {m \in ReadyAt : m <= i}
               T == {m \in ReadyAt : m <= j}
    <2>1. S \in SUBSET T
      <3> SUFFICES ASSUME NEW m \in ReadyAt, m <= i
                   PROVE  m <= j
        OBVIOUS
      <3>1. m \in Nat /\ i \in Nat /\ j \in Nat
        BY <1>1
      <3> QED BY <3>1, <1>3
    <2>2. j \in T /\ j \notin S
      BY <1>3, <1>1
    <2>3. Cardinality(T) # Cardinality(S)
      BY <2>1, <2>2, <1>2, FS_Subset
    <2> QED BY <2>3 DEF ReadyUpTo
  <1>4. up \in Injection(ReadyAt, 1..n)
    <2>1. up \in [ReadyAt -> 1..n]
      BY <1>2
    <2>2. ASSUME NEW i \in ReadyAt, NEW j \in ReadyAt, up[i] = up[j]
          PROVE  i = j
      BY <2>2, <1>3, <1>1
    <2> QED BY <2>1, <2>2 DEF Injection, IsInjective
  <1>5. up \in Surjection(ReadyAt, 1..n)
    <2>1. IsFiniteSet(1..n) /\ Cardinality(1..n) = n
      BY <1>1, FS_Interval
    <2> QED BY <1>4, <2>1, FS_Injection
  <1>6. ASSUME NEW k \in 1..n
        PROVE  \E i \in ReadyAt : ReadyUpTo(i) = k
    BY <1>5 DEF Surjection
  <1>7. ASSUME NEW k \in 1..n
        PROVE  /\ ReadyRows[k] \in FileRow /\ ReadyRows[k].case \in Cases
    <2> DEFINE i == CHOOSE i \in ReadyAt : ReadyUpTo(i) = k
    <2>1. i \in ReadyAt
      BY <1>6
    <2>2. ReadyRows[k] = rows[i]
      BY DEF ReadyRows
    <2>3. i \in DOMAIN rows /\ rows[i] \in FileRow /\ rows[i].case # NoCase
      BY <2>1 DEF ReadyAt, IsReady
    <2> QED BY <2>2, <2>3 DEF FileRow
  <1>8. DOMAIN ReadyRows = 1..n
    BY DEF ReadyRows
  <1>9. ReadyRows = [k \in 1..n |-> ReadyRows[k]]
    BY DEF ReadyRows
  <1> HIDE DEF n
  <1>10. [k \in 1..n |-> ReadyRows[k]] \in Seq(FileRow)
    BY <1>1, <1>7
  <1>11. ReadyRows \in Seq(FileRow)
    BY <1>9, <1>10
  <1> QED BY <1>7, <1>8, <1>11

\* setFiles by id changes the rows of that id only, and keeps their ids
LEMMA StateIsSet ==
    ASSUME NEW rs \in Seq(FileRow), NEW id \in RowIds, NEW state \in UploadState
    PROVE  /\ SetState(rs, id, state) \in Seq(FileRow)
           /\ DOMAIN SetState(rs, id, state) = DOMAIN rs
           /\ \A i \in DOMAIN rs :
                 /\ SetState(rs, id, state)[i].id = rs[i].id
                 /\ SetState(rs, id, state)[i].state =
                       IF rs[i].id = id THEN state ELSE rs[i].state
  <1> DEFINE t == [i \in 1..Len(rs) |->
                      IF rs[i].id = id THEN [rs[i] EXCEPT !.state = state] ELSE rs[i]]
  <1>1. SetState(rs, id, state) = t
    BY DEF SetState, UpdateRow
  <1>2. ASSUME NEW i \in 1..Len(rs)
        PROVE  /\ t[i] \in FileRow /\ t[i].id = rs[i].id
               /\ t[i].state = IF rs[i].id = id THEN state ELSE rs[i].state
    <2> DEFINE row == rs[i]
               changed == [row EXCEPT !.state = state]
    <2>1. row \in FileRow /\ t[i] = IF row.id = id THEN changed ELSE row
      OBVIOUS
    <2> HIDE DEF row, t
    <2>2. changed \in FileRow /\ changed.id = row.id /\ changed.state = state
      BY <2>1 DEF FileRow
    <2>3. /\ t[i] \in FileRow /\ t[i].id = row.id
          /\ t[i].state = IF row.id = id THEN state ELSE row.state
      BY <2>1, <2>2
    <2> QED BY <2>3 DEF row
  <1>3. t \in Seq(FileRow)
    BY <1>2
  <1>4. DOMAIN t = DOMAIN rs
    OBVIOUS
  <1> HIDE DEF t
  <1> QED BY <1>1, <1>2, <1>3, <1>4

\* what a step leaves alone that only drafts, or only the page, moves on
KeepsStore ==
    /\ submission' = submission \/ submission = 0
    /\ lastRun' = lastRun
    /\ \A d \in DraftIds : /\ drafts'[d].outputs = drafts[d].outputs
                           /\ drafts'[d].storedAs = drafts[d].storedAs

LEMMA StoreKept ==
    ASSUME UploadInv, UploadShape', KeepsStore
    PROVE  /\ DraftsSound'
           /\ \A i \in RowIds : Stored(i) => Stored(i)'
           /\ \A run, file : MadeFrom(run, file) => MadeFrom(run, file)'
  <1> USE DEF UploadInv, KeepsStore
  <1>1. DraftsSound'
    BY DEF DraftsSound
  <1>3. ASSUME NEW i \in RowIds, Stored(i)
        PROVE  Stored(i)'
    <2>1. submission \in DraftIds /\ submission' = submission
      BY <1>3 DEF Stored, UploadShape, DraftIds
    <2> QED BY <1>3, <2>1 DEF Stored
  <1>4. ASSUME NEW run, NEW file, MadeFrom(run, file)
        PROVE  MadeFrom(run, file)'
    BY <1>4 DEF MadeFrom
  <1> QED BY <1>1, <1>3, <1>4

\* a call goes by what was stored, and by the draft of the page
LEMMA AboutItemKept ==
    ASSUME NEW call, NEW item, item.id \in RowIds, AboutItsItem(call, item),
           submission' = submission,
           \A i \in RowIds : Stored(i) => Stored(i)',
           \A run, file : MadeFrom(run, file) => MadeFrom(run, file)'
    PROVE  AboutItsItem(call, item)'
  BY DEF AboutItsItem

\* so does its loop
LEMMA LoopKept ==
    ASSUME UploadShape, NEW k \in LoopIds, LoopInv(k), loops'[k] = loops[k],
           submission' = submission \/ submission = 0,
           \A i \in RowIds : Stored(i) => Stored(i)',
           \A run, file : MadeFrom(run, file) => MadeFrom(run, file)'
    PROVE  LoopInv(k)'
  <1>1. CASE loops[k].call.stage = "idle"
    BY <1>1 DEF LoopInv
  <1>2. CASE loops[k].call.stage # "idle"
    <2> DEFINE item == Head(loops[k].todo)
               call == loops[k].call
    <2>1. /\ submission # 0 /\ loops[k].todo # <<>>
          /\ \A i \in DOMAIN loops[k].todo : loops[k].todo[i].case \in Cases
          /\ AboutItsItem(call, item)
      BY <1>2 DEF LoopInv
    <2>2. item.id \in RowIds
      <3>1. loops[k].todo \in Seq(FileRow)
        BY DEF UploadShape, UploadLoop
      <3>2. item \in FileRow
        BY <2>1, <3>1, HeadTailProperties
      <3> QED BY <3>2 DEF FileRow
    <2>3. submission' = submission
      BY <2>1
    <2>4. \A c, i : AboutItsItem(c, i) /\ i.id \in RowIds => AboutItsItem(c, i)'
      BY <2>3, AboutItemKept
    <2>5. AboutItsItem(loops[k].call, Head(loops[k].todo))'
      BY <2>1, <2>2, <2>4
    <2> QED BY <2>1, <2>3, <2>5 DEF LoopInv
  <1> QED BY <1>1, <1>2

----------------------------------------------------------------------------
\* a step of the page or of the server that is no step of a loop
LEMMA QuietStep ==
    ASSUME UploadInv, UploadShape', KeepsStore, PageOnItsDraft', UNCHANGED loops,
           \A i \in DOMAIN rows' : rows'[i].state = "done" =>
              \E j \in DOMAIN rows : rows[j].state = "done" /\ rows[j].id = rows'[i].id
    PROVE  UploadInv'
  <1>1. /\ DraftsSound'
        /\ \A i \in RowIds : Stored(i) => Stored(i)'
        /\ \A run, file : MadeFrom(run, file) => MadeFrom(run, file)'
    BY StoreKept
  <1>2. ASSUME NEW k \in LoopIds
        PROVE  LoopInv(k)'
    BY <1>1, LoopKept DEF UploadInv, KeepsStore
  <1>3. DoneRowsAreStored'
    <2> SUFFICES ASSUME NEW i \in DOMAIN rows', rows'[i].state = "done"
                 PROVE  Stored(rows[i].id)'
      BY DEF DoneRowsAreStored
    <2>1. PICK j \in DOMAIN rows : rows[j].state = "done" /\ rows[j].id = rows'[i].id
      OBVIOUS
    <2>2. Stored(rows[j].id)
      BY <2>1 DEF UploadInv, DoneRowsAreStored
    <2>3. rows[j].id \in RowIds
      <3>1. rows \in Seq(FileRow)
        BY DEF UploadInv, UploadShape
      <3>2. rows[j] \in FileRow
        BY <3>1
      <3> QED BY <3>2 DEF FileRow
    <2> QED BY <2>1, <2>2, <2>3, <1>1
  <1> QED BY <1>1, <1>2, <1>3 DEF UploadInv

LEMMA StatusIsSet ==
    ASSUME drafts \in [DraftIds -> DraftRow], NEW d \in DraftIds,
           NEW s \in {"none", "draft", "scoring", "withdrawn"},
           drafts' = [drafts EXCEPT ![d].status = s]
    PROVE  /\ drafts' \in [DraftIds -> DraftRow]
           /\ \A e \in DraftIds : /\ drafts'[e].outputs = drafts[e].outputs
                                  /\ drafts'[e].storedAs = drafts[e].storedAs
  <1> DEFINE row == [drafts[d] EXCEPT !.status = s]
  <1>1. drafts' = [drafts EXCEPT ![d] = row]
    OBVIOUS
  <1>2. row \in DraftRow /\ row.outputs = drafts[d].outputs /\ row.storedAs = drafts[d].storedAs
    BY DEF DraftRow
  <1> HIDE DEF row
  <1> QED BY <1>1, <1>2

\* the calls of a hook keep their shape
LEMMA SentCall ==
    ASSUME NEW requests, NEW req \in requests
    PROVE  /\ Sent(req) \in UploadCalls(requests)
           /\ Sent(req).stage = "sent" /\ Sent(req).req = req
  BY DEF UploadCalls, NoCall, Sent

LEMMA IdleCall ==
    ASSUME NEW requests
    PROVE  NoCall \in UploadCalls(requests) /\ NoCall.stage = "idle"
  BY DEF UploadCalls, NoCall

LEMMA AnsweredCall ==
    ASSUME NEW requests, NEW call \in UploadCalls(requests), NEW data \in Nat
    PROVE  /\ Succeeds(call, data) \in UploadCalls(requests)
           /\ Succeeds(call, data).req = call.req
           /\ Succeeds(call, data).stage = "answered" /\ Succeeds(call, data).ok = TRUE
           /\ Succeeds(call, data).data = data
  BY DEF UploadCalls, Succeeds

LEMMA FailedCall ==
    ASSUME NEW requests, NEW call \in UploadCalls(requests)
    PROVE  /\ Fails(call) \in UploadCalls(requests) /\ Fails(call).req = call.req
           /\ Fails(call).stage = "answered" /\ Fails(call).ok = FALSE
  BY DEF UploadCalls, Fails

LEMMA OpeningKeeps ==
    ASSUME UploadInv, StartDraft \/ ServeDraft \/ DraftOpened
    PROVE  UploadInv'
  <1> DEFINE request == CreateBenchmarkSubmission("pdf", "tool")
  <1>0. opening \in UploadCalls({request})
    BY DEF UploadInv, UploadShape
  <1> HIDE DEF request
  <1>1. CASE StartDraft
    <2>1. opening' = Sent(request) /\ submission = 0
      BY <1>1 DEF StartDraft, request
    <2>2. opening' \in UploadCalls({request}) /\ opening'.stage = "sent"
      BY <1>0, <2>1, SentCall
    <2>3. UploadShape' /\ PageOnItsDraft' /\ KeepsStore
      BY <1>1, <2>1, <2>2
         DEF StartDraft, UploadInv, UploadShape, PageOnItsDraft, KeepsStore, request
    <2> QED BY <1>1, <2>3, QuietStep DEF StartDraft
  <1>2. CASE ServeDraft
    <2>1. opening.stage = "sent" /\ submission = 0
      BY <1>2 DEF ServeDraft, UploadInv, PageOnItsDraft
    <2>2. /\ opening' \in UploadCalls({request})
          /\ opening'.stage = "answered" /\ opening'.ok => opening'.data \in DraftIds
      <3>1. CASE opening' = Fails(opening)
        BY <1>0, <3>1, FailedCall
      <3>2. ASSUME NEW d \in DraftIds, opening' = Succeeds(opening, d)
            PROVE  /\ opening' \in UploadCalls({request})
                   /\ opening'.stage = "answered" /\ opening'.ok => opening'.data \in DraftIds
        <4>1. d \in Nat
          BY UploadAssumption DEF DraftIds
        <4> QED BY <1>0, <3>2, <4>1, AnsweredCall
      <3> QED BY <1>2, <3>1, <3>2 DEF ServeDraft
    <2>3. /\ drafts' \in [DraftIds -> DraftRow]
          /\ \A e \in DraftIds : /\ drafts'[e].outputs = drafts[e].outputs
                                 /\ drafts'[e].storedAs = drafts[e].storedAs
      <3>1. CASE UNCHANGED drafts
        BY <3>1 DEF UploadInv, UploadShape
      <3>2. ASSUME NEW d \in DraftIds, drafts' = [drafts EXCEPT ![d].status = "draft"]
            PROVE  <2>3
        BY <3>2, StatusIsSet DEF UploadInv, UploadShape
      <3> QED BY <1>2, <3>1, <3>2 DEF ServeDraft
    <2>4. UploadShape' /\ PageOnItsDraft' /\ KeepsStore
      BY <1>2, <2>1, <2>2, <2>3
         DEF ServeDraft, UploadInv, UploadShape, PageOnItsDraft, KeepsStore, request
    <2> QED BY <1>2, <2>4, QuietStep DEF ServeDraft
  <1>3. CASE DraftOpened
    <2>1. submission = 0 /\ submission' \in 0..MaxDrafts
      BY <1>3 DEF DraftOpened, UploadInv, UploadShape, PageOnItsDraft, DraftIds
    <2>2. opening' = NoCall /\ opening' \in UploadCalls({request}) /\ opening'.stage = "idle"
      BY <1>3, <1>0, IdleCall DEF DraftOpened
    <2>3. UploadShape' /\ PageOnItsDraft' /\ KeepsStore
      BY <1>3, <2>1, <2>2
         DEF DraftOpened, UploadInv, UploadShape, PageOnItsDraft, KeepsStore, request
    <2> QED BY <1>3, <2>3, QuietStep DEF DraftOpened
  <1> QED BY <1>1, <1>2, <1>3

LEMMA SendingKeeps ==
    ASSUME UploadInv, Finalize \/ ServeFinalize \/ Finalized \/ WithdrawElsewhere
    PROVE  UploadInv'
  <1> DEFINE requests == {FinalizeBenchmarkSubmission(d) : d \in DraftIds}
             request == FinalizeBenchmarkSubmission(submission)
  <1>0. finalizing \in UploadCalls(requests) /\ (submission # 0 => submission \in DraftIds)
    BY DEF UploadInv, UploadShape, DraftIds
  <1>00. submission \in DraftIds => request \in requests
    OBVIOUS
  <1> HIDE DEF requests, request
  <1>1. CASE Finalize
    <2>1. finalizing' = Sent(request) /\ submission # 0
      BY <1>1 DEF Finalize, Editing, request
    <2>2. /\ finalizing' \in UploadCalls(requests)
          /\ finalizing'.stage = "sent" /\ finalizing'.req = request
      BY <1>0, <1>00, <2>1, SentCall
    <2>3. UploadShape' /\ PageOnItsDraft' /\ KeepsStore
      BY <1>1, <2>1, <2>2
         DEF Finalize, UploadInv, UploadShape, PageOnItsDraft, KeepsStore, request, requests
    <2> QED BY <1>1, <2>3, QuietStep DEF Finalize
  <1>2. CASE ServeFinalize
    <2>1. /\ submission # 0 /\ finalizing.req = request /\ submission \in DraftIds
          /\ request.path[1] = submission
      BY <1>0, <1>2 DEF ServeFinalize, UploadInv, PageOnItsDraft, request,
         FinalizeBenchmarkSubmission, Request
    <2>2. finalizing' \in UploadCalls(requests) /\ finalizing'.req = request
      <3>1. CASE finalizing' = Fails(finalizing)
        BY <1>0, <1>00, <2>1, <3>1, FailedCall
      <3>2. CASE finalizing' = Succeeds(finalizing, submission)
        <4>1. submission \in Nat
          BY <2>1, UploadAssumption DEF DraftIds
        <4> QED BY <1>0, <2>1, <3>2, <4>1, AnsweredCall
      <3> QED BY <1>2, <2>1, <3>1, <3>2 DEF ServeFinalize
    <2>3. /\ drafts' \in [DraftIds -> DraftRow]
          /\ \A e \in DraftIds : /\ drafts'[e].outputs = drafts[e].outputs
                                 /\ drafts'[e].storedAs = drafts[e].storedAs
      <3>1. CASE UNCHANGED drafts
        BY <3>1 DEF UploadInv, UploadShape
      <3>2. CASE drafts' = [drafts EXCEPT ![submission].status = "scoring"]
        BY <2>1, <3>2, StatusIsSet DEF UploadInv, UploadShape
      <3> QED BY <1>2, <2>1, <3>1, <3>2 DEF ServeFinalize
    <2>4. UploadShape' /\ PageOnItsDraft' /\ KeepsStore
      BY <1>2, <2>1, <2>2, <2>3
         DEF ServeFinalize, UploadInv, UploadShape, PageOnItsDraft, KeepsStore, request, requests
    <2> QED BY <1>2, <2>4, QuietStep DEF ServeFinalize
  <1>3. CASE Finalized
    <2>1. finalizing' \in UploadCalls(requests) /\ finalizing'.stage = "idle"
      BY <1>3, <1>0 DEF Finalized, UploadCalls, NoCall
    <2>2. sentForScoring' \in BOOLEAN
      BY <1>3, <1>0 DEF Finalized, UploadInv, UploadShape, UploadCalls
    <2>3. UploadShape' /\ PageOnItsDraft' /\ KeepsStore
      BY <1>3, <2>1, <2>2
         DEF Finalized, UploadInv, UploadShape, PageOnItsDraft, KeepsStore, requests
    <2> QED BY <1>3, <2>3, QuietStep DEF Finalized
  <1>4. CASE WithdrawElsewhere
    <2>1. submission \in DraftIds
      BY <1>0, <1>4 DEF WithdrawElsewhere
    <2>2. /\ drafts' \in [DraftIds -> DraftRow]
          /\ \A e \in DraftIds : /\ drafts'[e].outputs = drafts[e].outputs
                                 /\ drafts'[e].storedAs = drafts[e].storedAs
      BY <1>4, <2>1, StatusIsSet DEF WithdrawElsewhere, UploadInv, UploadShape
    <2>3. UploadShape' /\ PageOnItsDraft' /\ KeepsStore
      BY <1>4, <2>2
         DEF WithdrawElsewhere, UploadInv, UploadShape, PageOnItsDraft, KeepsStore
    <2> QED BY <1>4, <2>3, QuietStep DEF WithdrawElsewhere
  <1> QED BY <1>1, <1>2, <1>3, <1>4

LEMMA RowIsRemoved ==
    ASSUME NEW S, NEW s \in Seq(S), NEW i \in DOMAIN s
    PROVE  /\ RemoveAt(s, i) \in Seq(S)
           /\ \A j \in DOMAIN RemoveAt(s, i) : \E m \in DOMAIN s : RemoveAt(s, i)[j] = s[m]
  <1> DEFINE a == SubSeq(s, 1, i - 1)
             b == SubSeq(s, i + 1, Len(s))
  <1>1. i \in 1..Len(s) /\ Len(s) \in Nat /\ \A m \in 1..Len(s) : s[m] \in S
    OBVIOUS
  <1>2. /\ a \in Seq(S) /\ Len(a) = i - 1
        /\ \A j \in 1..i - 1 : a[j] = s[j]
    BY <1>1, SubSeqProperties
  <1>3. /\ b \in Seq(S) /\ Len(b) = Len(s) - i
        /\ \A j \in 1..Len(s) - i : b[j] = s[j + i]
    BY <1>1, SubSeqProperties
  <1>4. RemoveAt(s, i) = a \o b
    BY DEF RemoveAt
  <1> HIDE DEF a, b
  <1>5. /\ a \o b \in Seq(S) /\ Len(a \o b) = Len(s) - 1
        /\ \A j \in 1..Len(s) - 1 : (a \o b)[j] = IF j <= i - 1 THEN a[j] ELSE b[j - (i - 1)]
    <2>1. /\ a \o b \in Seq(S) /\ Len(a \o b) = Len(a) + Len(b)
          /\ \A j \in 1..Len(a) + Len(b) :
                (a \o b)[j] = IF j <= Len(a) THEN a[j] ELSE b[j - Len(a)]
      BY <1>2, <1>3, ConcatProperties
    <2>2. Len(a) + Len(b) = Len(s) - 1 /\ Len(a) = i - 1
      BY <1>1, <1>2, <1>3
    <2> QED BY <2>1, <2>2
  <1>6. ASSUME NEW j \in 1..Len(s) - 1
        PROVE  \E m \in 1..Len(s) : (a \o b)[j] = s[m]
    <2>1. CASE j <= i - 1
      <3>1. (a \o b)[j] = s[j] /\ j \in 1..Len(s)
        BY <1>1, <1>2, <1>5, <2>1
      <3> QED BY <3>1
    <2>2. CASE ~(j <= i - 1)
      <3>1. j - (i - 1) \in 1..Len(s) - i /\ j + 1 \in 1..Len(s) /\ j - (i - 1) + i = j + 1
        BY <1>1, <2>2
      <3>2. (a \o b)[j] = s[j + 1]
        BY <1>3, <1>5, <2>2, <3>1
      <3> QED BY <3>1, <3>2
    <2> QED BY <2>1, <2>2
  <1>7. DOMAIN (a \o b) = 1..Len(s) - 1
    BY <1>5
  <1>8. DOMAIN s = 1..Len(s)
    OBVIOUS
  <1> QED BY <1>4, <1>5, <1>6, <1>7, <1>8, Zenon

LEMMA RowsKeep ==
    ASSUME UploadInv, PickFile \/ EditRow \/ RemoveRow
    PROVE  UploadInv'
  <1>0. /\ rows \in Seq(FileRow) /\ DOMAIN rows = 1..Len(rows)
        /\ \A i \in DOMAIN rows : rows[i] \in FileRow
    BY DEF UploadInv, UploadShape
  <1>1. CASE PickFile
    <2>1. PICK c \in Cases \cup {NoCase} :
             rows' = Append(rows, [id |-> nextId, case |-> c, state |-> "ready",
                                   shots |-> FALSE, warning |-> FALSE])
      BY <1>1 DEF PickFile
    <2> DEFINE row == [id |-> nextId, case |-> c, state |-> "ready",
                       shots |-> FALSE, warning |-> FALSE]
    <2>2. row \in FileRow /\ row.state = "ready"
      BY <1>1, UploadAssumption
         DEF PickFile, UploadInv, UploadShape, FileRow, RowIds, UploadState
    <2> HIDE DEF row
    <2>3. rows' = Append(rows, row)
      BY <2>1 DEF row
    <2>4. /\ rows' \in Seq(FileRow) /\ DOMAIN rows' = 1..Len(rows) + 1
          /\ \A i \in 1..Len(rows) : rows'[i] = rows[i]
          /\ rows'[Len(rows) + 1] = row
      BY <1>0, <2>2, <2>3
    <2>5. nextId' \in 1..MaxPicks + 1
      BY <1>1, UploadAssumption DEF PickFile, UploadInv, UploadShape
    <2>6. UploadShape' /\ PageOnItsDraft' /\ KeepsStore
      BY <1>1, <2>4, <2>5 DEF PickFile, UploadInv, UploadShape, PageOnItsDraft, KeepsStore
    <2>7. ASSUME NEW i \in DOMAIN rows', rows'[i].state = "done"
          PROVE  \E j \in DOMAIN rows : rows[j].state = "done" /\ rows[j].id = rows'[i].id
      <3>1. i # Len(rows) + 1
        BY <2>2, <2>4, <2>7
      <3>2. i \in 1..Len(rows)
        BY <1>0, <2>4, <3>1
      <3> QED BY <1>0, <2>4, <2>7, <3>2
    <2> QED BY <1>1, <2>6, <2>7, QuietStep DEF PickFile
  <1>2. CASE EditRow
    <2>1. PICK i \in DOMAIN rows :
             \/ \E c \in Cases \cup {NoCase} : rows' = [rows EXCEPT ![i].case = c]
             \/ rows' = [rows EXCEPT ![i].shots = ~rows[i].shots]
      BY <1>2 DEF EditRow
    <2>2. PICK row \in FileRow : /\ rows' = [rows EXCEPT ![i] = row]
                                /\ row.id = rows[i].id /\ row.state = rows[i].state
      <3>1. CASE \E c \in Cases \cup {NoCase} : rows' = [rows EXCEPT ![i].case = c]
        <4>1. PICK c \in Cases \cup {NoCase} : rows' = [rows EXCEPT ![i].case = c]
          BY <3>1
        <4> DEFINE row == [rows[i] EXCEPT !.case = c]
        <4>2. rows' = [rows EXCEPT ![i] = row]
          BY <4>1
        <4>3. row \in FileRow /\ row.id = rows[i].id /\ row.state = rows[i].state
          BY <1>0 DEF FileRow
        <4> QED BY <4>2, <4>3
      <3>2. CASE rows' = [rows EXCEPT ![i].shots = ~rows[i].shots]
        <4> DEFINE row == [rows[i] EXCEPT !.shots = ~rows[i].shots]
        <4>2. rows' = [rows EXCEPT ![i] = row]
          BY <3>2
        <4>3. row \in FileRow /\ row.id = rows[i].id /\ row.state = rows[i].state
          BY <1>0 DEF FileRow
        <4> QED BY <4>2, <4>3
      <3> QED BY <2>1, <3>1, <3>2
    <2>3. /\ rows' \in Seq(FileRow) /\ DOMAIN rows' = DOMAIN rows
          /\ \A j \in DOMAIN rows : rows'[j].id = rows[j].id /\ rows'[j].state = rows[j].state
      BY <1>0, <2>2
    <2>4. UploadShape' /\ PageOnItsDraft' /\ KeepsStore
      BY <1>2, <2>3 DEF EditRow, UploadInv, UploadShape, PageOnItsDraft, KeepsStore
    <2> QED BY <1>2, <2>3, <2>4, QuietStep DEF EditRow
  <1>3. CASE RemoveRow
    <2>1. PICK i \in DOMAIN rows : rows' = RemoveAt(rows, i)
      BY <1>3 DEF RemoveRow
    <2>2. /\ rows' \in Seq(FileRow)
          /\ \A j \in DOMAIN rows' : \E m \in DOMAIN rows : rows'[j] = rows[m]
      BY <1>0, <2>1, RowIsRemoved
    <2>3. UploadShape' /\ PageOnItsDraft' /\ KeepsStore
      BY <1>3, <2>2 DEF RemoveRow, UploadInv, UploadShape, PageOnItsDraft, KeepsStore
    <2>4. ASSUME NEW j \in DOMAIN rows', rows'[j].state = "done"
          PROVE  \E m \in DOMAIN rows : rows[m].state = "done" /\ rows[m].id = rows'[j].id
      BY <2>2, <2>4
    <2> QED BY <1>3, <2>3, <2>4, QuietStep DEF RemoveRow
  <1> QED BY <1>1, <1>2, <1>3

----------------------------------------------------------------------------
\* a loop moves on to its next item, or ends
LEMMA NextItemKeeps ==
    ASSUME UploadInv, NEW k \in LoopIds, NEW todo \in Seq(FileRow), NEW rs \in Seq(FileRow),
           submission # 0, \A i \in DOMAIN todo : todo[i].case \in Cases,
           \A i \in DOMAIN rs : rs[i].state = "done" => Stored(rs[i].id),
           NextItem(k, todo, rs),
           UNCHANGED <<submission, sentForScoring, nextId, opening, finalizing, drafts,
                       lastRun>>
    PROVE  UploadInv'
  <1> DEFINE requests == PdfRequests \cup ShotRequests
  <1>0. loops \in [LoopIds -> UploadLoop] /\ submission \in DraftIds
    BY DEF UploadInv, UploadShape, DraftIds
  <1>1. KeepsStore
    BY DEF KeepsStore
  <1>2. CASE todo = <<>>
    <2>1. /\ loops' = [loops EXCEPT ![k] = NoLoop] /\ rows' = rs /\ UNCHANGED latest
      BY <1>2 DEF NextItem
    <2>2. NoLoop \in UploadLoop /\ NoLoop.call.stage = "idle"
      <3>1. NoCall \in UploadCalls(requests) /\ NoCall.stage = "idle"
        BY IdleCall
      <3> QED BY <3>1 DEF NoLoop, UploadLoop
    <2>3. /\ loops' \in [LoopIds -> UploadLoop] /\ loops'[k].call.stage = "idle"
          /\ \A j \in LoopIds \ {k} : loops'[j] = loops[j]
      BY <1>0, <2>1, <2>2
    <2>4. LoopInv(k)'
      BY <2>3 DEF LoopInv
    <2> QED
    <3>1. UploadShape' /\ PageOnItsDraft'
      BY <2>1, <2>3 DEF UploadInv, UploadShape, PageOnItsDraft
    <3>2. /\ DraftsSound'
          /\ \A i \in RowIds : Stored(i) => Stored(i)'
          /\ \A run, file : MadeFrom(run, file) => MadeFrom(run, file)'
      BY <1>1, <3>1, StoreKept
    <3>3. \A j \in LoopIds : LoopInv(j)'
      BY <2>3, <2>4, <3>2, LoopKept DEF UploadInv
    <3>4. DoneRowsAreStored'
      BY <2>1 DEF DoneRowsAreStored, Stored
    <3> QED BY <3>1, <3>2, <3>3, <3>4 DEF UploadInv
  <1>3. CASE todo # <<>>
    <2> DEFINE item == Head(todo)
               request == UploadBenchmarkOutput(submission, item.case, item.id)
               loop == [todo |-> todo, call |-> Sent(request)]
    <2>1. item \in FileRow /\ item = todo[1] /\ 1 \in DOMAIN todo /\ item.case \in Cases
      <3>1. item \in FileRow
        BY <1>3, HeadTailProperties
      <3>2. item = todo[1] /\ 1 \in DOMAIN todo
        BY <1>3
      <3> QED BY <3>1, <3>2
    <2>2. item.id \in RowIds
      BY <2>1 DEF FileRow
    <2>3. request \in requests
      BY <1>0, <2>1, <2>2 DEF PdfRequests
    <2>4. /\ loops' = [loops EXCEPT ![k] = loop]
          /\ rows' = SetState(rs, item.id, "uploading") /\ latest' = k
      BY <1>3 DEF NextItem
    <2> HIDE DEF request, requests
    <2>5. Sent(request) \in UploadCalls(requests) /\ Sent(request).stage = "sent"
          /\ Sent(request).req = request
      BY <2>3, SentCall
    <2>6. loop \in UploadLoop
      BY <2>5 DEF UploadLoop, requests
    <2>7. /\ loops' \in [LoopIds -> UploadLoop] /\ loops'[k] = loop
          /\ \A j \in LoopIds \ {k} : loops'[j] = loops[j]
      BY <1>0, <2>4, <2>6
    <2>8. LoopInv(k)'
      <3>1. /\ loops'[k].todo = todo /\ loops'[k].call.req = request
            /\ loops'[k].call.stage = "sent"
        BY <2>5, <2>7
      <3>2. AboutItsItem(loops[k].call, Head(loops[k].todo))'
        BY <3>1 DEF AboutItsItem, request
      <3> QED BY <1>3, <3>1, <3>2 DEF LoopInv
    <2>9. /\ rows' \in Seq(FileRow) /\ DOMAIN rows' = DOMAIN rs
          /\ \A i \in DOMAIN rs :
                rows'[i].id = rs[i].id /\ rows'[i].state \in {"uploading", rs[i].state}
      <3> DEFINE to == SetState(rs, item.id, "uploading")
      <3>1. "uploading" \in UploadState
        BY DEF UploadState
      <3>2. /\ to \in Seq(FileRow) /\ DOMAIN to = DOMAIN rs
            /\ \A i \in DOMAIN rs :
                  /\ to[i].id = rs[i].id
                  /\ to[i].state = IF rs[i].id = item.id THEN "uploading" ELSE rs[i].state
        BY <2>2, <3>1, StateIsSet
      <3> QED BY <2>4, <3>2
    <2>10. latest' \in 0..MaxLoops
      BY <2>4, UploadAssumption DEF LoopIds
    <2>11. UploadShape' /\ PageOnItsDraft'
      BY <2>7, <2>9, <2>10 DEF UploadInv, UploadShape, PageOnItsDraft
    <2>12. /\ DraftsSound'
           /\ \A i \in RowIds : Stored(i) => Stored(i)'
           /\ \A run, file : MadeFrom(run, file) => MadeFrom(run, file)'
      BY <1>1, <2>11, StoreKept
    <2>13. \A j \in LoopIds : LoopInv(j)'
      BY <2>7, <2>8, <2>12, LoopKept DEF UploadInv
    <2>14. DoneRowsAreStored'
      <3> SUFFICES ASSUME NEW i \in DOMAIN rows', rows'[i].state = "done"
                   PROVE  Stored(rows[i].id)'
        BY DEF DoneRowsAreStored
      <3>1. rs[i].state = "done" /\ rows'[i].id = rs[i].id /\ i \in DOMAIN rs
        BY <2>9
      <3>2. Stored(rs[i].id)
        BY <3>1
      <3> QED BY <3>1, <3>2 DEF Stored
    <2> QED BY <2>11, <2>12, <2>13, <2>14 DEF UploadInv
  <1> QED BY <1>2, <1>3

LoopRequests == PdfRequests \cup ShotRequests

\* what a loop that waits for an answer has in hand
LEMMA LoopItem ==
    ASSUME UploadInv, NEW k \in LoopIds, loops[k].call.stage # "idle"
    PROVE  LET item == Head(loops[k].todo)
               left == Tail(loops[k].todo) IN
           /\ submission \in DraftIds /\ submission # 0
           /\ item \in FileRow /\ item.id \in RowIds /\ item.case \in Cases
           /\ item.case # NoCase
           /\ left \in Seq(FileRow) /\ \A i \in DOMAIN left : left[i].case \in Cases
           /\ loops \in [LoopIds -> UploadLoop]
           /\ loops[k].call \in UploadCalls(LoopRequests)
           /\ AboutItsItem(loops[k].call, item)
  <1> DEFINE todo == loops[k].todo
  <1>1. loops \in [LoopIds -> UploadLoop] /\ todo \in Seq(FileRow)
        /\ loops[k].call \in UploadCalls(LoopRequests)
    BY DEF UploadInv, UploadShape, UploadLoop, LoopRequests
  <1>2. /\ submission # 0 /\ todo # <<>> /\ AboutItsItem(loops[k].call, Head(todo))
        /\ \A i \in DOMAIN todo : todo[i].case \in Cases
    BY DEF UploadInv, LoopInv
  <1>3. submission \in DraftIds
    BY <1>2 DEF UploadInv, UploadShape, DraftIds
  <1> HIDE DEF todo
  <1>4. /\ Head(todo) \in FileRow /\ Head(todo) = todo[1] /\ 1 \in DOMAIN todo
        /\ Tail(todo) \in Seq(FileRow)
        /\ \A i \in DOMAIN Tail(todo) : i + 1 \in DOMAIN todo /\ Tail(todo)[i] = todo[i + 1]
    BY <1>1, <1>2
  <1>5. Head(todo).case \in Cases /\ \A i \in DOMAIN Tail(todo) : Tail(todo)[i].case \in Cases
    BY <1>2, <1>4
  <1>6. Head(todo).id \in RowIds
    BY <1>4 DEF FileRow
  <1>7. Head(todo).case # NoCase
    BY <1>5, UploadAssumption DEF NoCase
  <1> QED BY <1>1, <1>2, <1>3, <1>4, <1>5, <1>6, <1>7 DEF todo

\* a loop whose call moved on, the other loops standing still
LEMMA CallChanges ==
    ASSUME UploadInv, NEW k \in LoopIds, loops[k].call.stage # "idle",
           NEW call \in UploadCalls(LoopRequests),
           loops' = [loops EXCEPT ![k].call = call], submission' = submission,
           NEW item, item = Head(loops[k].todo), AboutItsItem(call, item)',
           \A i \in RowIds : Stored(i) => Stored(i)',
           \A run, file : MadeFrom(run, file) => MadeFrom(run, file)'
    PROVE  loops' \in [LoopIds -> UploadLoop] /\ \A j \in LoopIds : LoopInv(j)'
  <1> DEFINE loop == [loops[k] EXCEPT !.call = call]
  <1>0. loops \in [LoopIds -> UploadLoop]
    BY DEF UploadInv, UploadShape
  <1>1. loop \in UploadLoop /\ loop.call = call /\ loop.todo = loops[k].todo
    BY <1>0 DEF UploadLoop, LoopRequests
  <1>2. loops' = [loops EXCEPT ![k] = loop]
    OBVIOUS
  <1> HIDE DEF loop
  <1>3. /\ loops' \in [LoopIds -> UploadLoop]
        /\ loops'[k].call = call /\ loops'[k].todo = loops[k].todo
        /\ \A j \in LoopIds \ {k} : loops'[j] = loops[j]
    BY <1>0, <1>1, <1>2
  <1>4. /\ submission # 0 /\ loops[k].todo # <<>>
        /\ \A i \in DOMAIN loops[k].todo : loops[k].todo[i].case \in Cases
    BY DEF UploadInv, LoopInv
  <1>5. AboutItsItem(loops[k].call, Head(loops[k].todo))'
    BY <1>3
  <1>6. LoopInv(k)'
    BY <1>3, <1>4, <1>5 DEF LoopInv
  <1>7. ASSUME NEW j \in LoopIds \ {k}
        PROVE  LoopInv(j)'
    BY <1>3, LoopKept DEF UploadInv
  <1> QED BY <1>3, <1>6, <1>7

\* an answer that was lost, or a refusal, tells a loop nothing
LEMMA FailureIsAboutItsItem ==
    ASSUME NEW call \in UploadCalls(LoopRequests), NEW item, AboutItsItem(call, item),
           item.id \in RowIds, submission' = submission,
           \A i \in RowIds : Stored(i) => Stored(i)',
           \A run, file : MadeFrom(run, file) => MadeFrom(run, file)'
    PROVE  Fails(call) \in UploadCalls(LoopRequests) /\ AboutItsItem(Fails(call), item)'
  <1>1. /\ Fails(call) \in UploadCalls(LoopRequests) /\ Fails(call).req = call.req
        /\ Fails(call).ok = FALSE
    BY FailedCall
  <1>2. AboutItsItem(Fails(call), item)
    BY <1>1 DEF AboutItsItem
  <1> DEFINE failed == Fails(call)
  <1> HIDE DEF failed
  <1>3. \A c : AboutItsItem(c, item) => AboutItsItem(c, item)'
    BY AboutItemKept
  <1> QED BY <1>1, <1>2, <1>3

LEMMA UploadAllKeeps ==
    ASSUME UploadInv, NEW k \in LoopIds, UploadAll(k)
    PROVE  UploadInv'
  <1>1. ReadyRows \in Seq(FileRow) /\ \A i \in DOMAIN ReadyRows : ReadyRows[i].case \in Cases
    BY ReadyRowsAreReady DEF UploadInv, UploadShape
  <1>2. rows \in Seq(FileRow) /\ submission # 0
    BY DEF UploadInv, UploadShape, UploadAll, Editing
  <1>3. \A i \in DOMAIN rows : rows[i].state = "done" => Stored(rows[i].id)
    BY DEF UploadInv, DoneRowsAreStored
  <1>4. NextItem(k, ReadyRows, rows)
    BY DEF UploadAll
  <1>5. UNCHANGED <<submission, sentForScoring, nextId, opening, finalizing, drafts, lastRun>>
    BY DEF UploadAll
  <1> HIDE DEF ReadyRows
  <1> QED BY <1>1, <1>2, <1>3, <1>4, <1>5, NextItemKeeps

\* a new run is put in place of a case's
PutsOutput(d, c, file) ==
    /\ lastRun' = lastRun + 1
    /\ drafts' \in [DraftIds -> DraftRow]
    /\ drafts'[d].outputs[c] = [run |-> lastRun + 1, file |-> file, shots |-> {}]
    /\ drafts'[d].storedAs[file] = c
    /\ \A b \in Cases \ {c} : drafts'[d].outputs[b] = drafts[d].outputs[b]
    /\ \A i \in RowIds \ {file} : drafts'[d].storedAs[i] = drafts[d].storedAs[i]
    /\ \A e \in DraftIds \ {d} : drafts'[e] = drafts[e]

\* what the server holds once it has stored a PDF
LEMMA OutputIsStored ==
    ASSUME UploadInv, NEW d \in DraftIds, d = submission, NEW c \in Cases, NEW file \in RowIds,
           submission' = submission, PutsOutput(d, c, file)
    PROVE  /\ drafts' \in [DraftIds -> DraftRow] /\ DraftsSound'
           /\ \A i \in RowIds : Stored(i) => Stored(i)'
           /\ \A run, f : MadeFrom(run, f) => MadeFrom(run, f)'
           /\ Stored(file)' /\ MadeFrom(lastRun, file)'
  <1>1. drafts \in [DraftIds -> DraftRow] /\ lastRun \in Nat /\ c # NoCase /\ d # 0
    BY UploadAssumption DEF UploadInv, UploadShape, NoCase, DraftIds
  <1> DEFINE output == [run |-> lastRun + 1, file |-> file, shots |-> {}]
  <1>0. /\ lastRun' = lastRun + 1
        /\ output.run = lastRun + 1 /\ output.file = file /\ output.shots = {}
    BY DEF PutsOutput
  <1>2. /\ drafts' \in [DraftIds -> DraftRow]
        /\ \A e \in DraftIds \ {d} : drafts'[e] = drafts[e]
    BY DEF PutsOutput
  <1>3. /\ drafts'[d].outputs[c] = output /\ drafts'[d].storedAs[file] = c
        /\ \A b \in Cases \ {c} : drafts'[d].outputs[b] = drafts[d].outputs[b]
        /\ \A i \in RowIds \ {file} : drafts'[d].storedAs[i] = drafts[d].storedAs[i]
    BY DEF PutsOutput
  <1> HIDE DEF output
  <1>4. ASSUME NEW i \in RowIds, Stored(i)
        PROVE  Stored(i)'
    BY <1>0, <1>1, <1>3, <1>4 DEF Stored
  <1>5. Stored(file)'
    BY <1>0, <1>1, <1>3 DEF Stored
  <1>6. \A e \in DraftIds, b \in Cases :
            \/ e = d /\ b = c /\ drafts'[e].outputs[b] = output
            \/ drafts'[e].outputs[b] = drafts[e].outputs[b]
    BY <1>0, <1>2, <1>3
  <1>7. \A e \in DraftIds, b \in Cases :
            /\ drafts[e].outputs[b].run \in 0..lastRun
            /\ drafts[e].outputs[b].shots \subseteq {drafts[e].outputs[b].file}
    BY DEF UploadInv, DraftsSound
  <1>8. ASSUME NEW run, NEW f, MadeFrom(run, f)
         PROVE  MadeFrom(run, f)'
    <2>1. run \in 1..lastRun /\ run # lastRun + 1 /\ run \in 1..lastRun'
      BY <1>0, <1>1, <1>8 DEF MadeFrom
    <2>2. ASSUME NEW e \in DraftIds, NEW b \in Cases, drafts'[e].outputs[b].run = run
          PROVE  drafts'[e].outputs[b].file = f
      <3>1. drafts'[e].outputs[b] = drafts[e].outputs[b]
        BY <1>0, <1>6, <2>1, <2>2
      <3> QED BY <1>0, <1>8, <2>2, <3>1 DEF MadeFrom
    <2> QED BY <2>1, <2>2 DEF MadeFrom
  <1>9. MadeFrom(lastRun, file)'
    <2>1. lastRun' \in 1..lastRun'
      BY <1>0, <1>1
    <2>2. ASSUME NEW e \in DraftIds, NEW b \in Cases, drafts'[e].outputs[b].run = lastRun'
          PROVE  drafts'[e].outputs[b].file = file
      <3>1. drafts[e].outputs[b].run # lastRun'
        BY <1>0, <1>1, <1>7
      <3> QED BY <1>0, <1>6, <2>2, <3>1
    <2> QED BY <2>1, <2>2 DEF MadeFrom
  <1>10. DraftsSound'
    <2> SUFFICES ASSUME NEW e \in DraftIds
                 PROVE  /\ \A b \in Cases :
                              /\ drafts'[e].outputs[b].run \in 0..lastRun'
                              /\ drafts'[e].outputs[b].shots \subseteq {drafts'[e].outputs[b].file}
                        /\ \A i \in RowIds : drafts'[e].storedAs[i] # NoCase =>
                              drafts'[e].outputs[drafts'[e].storedAs[i]].run # 0
      BY DEF DraftsSound
    <2>1. ASSUME NEW b \in Cases
          PROVE  /\ drafts'[e].outputs[b].run \in 0..lastRun'
                 /\ drafts'[e].outputs[b].shots \subseteq {drafts'[e].outputs[b].file}
      <3>1. CASE drafts'[e].outputs[b] = output
        BY <1>0, <1>1, <3>1
      <3>2. CASE drafts'[e].outputs[b] = drafts[e].outputs[b]
        <4>1. drafts[e].outputs[b].run \in 0..lastRun'
          BY <1>0, <1>1, <1>7
        <4> QED BY <1>0, <1>7, <3>2, <4>1
      <3> QED BY <1>0, <1>6, <3>1, <3>2
    <2>2. ASSUME NEW i \in RowIds, drafts'[e].storedAs[i] # NoCase
          PROVE  drafts'[e].outputs[drafts'[e].storedAs[i]].run # 0
      <3> DEFINE b == drafts'[e].storedAs[i]
      <3>1. b \in Cases
        <4>1. drafts'[e] \in DraftRow
          BY <1>0, <1>2
        <4> QED BY <2>2, <4>1 DEF DraftRow
      <3>2. CASE drafts'[e].outputs[b] = output
        BY <1>0, <1>1, <3>2
      <3>3. CASE drafts'[e].outputs[b] = drafts[e].outputs[b] /\ ~(e = d /\ b = c)
        <4>1. b = drafts[e].storedAs[i]
          BY <1>0, <1>2, <1>3, <3>3
        <4>2. drafts[e].outputs[b].run # 0
          BY <2>2, <4>1 DEF UploadInv, DraftsSound
        <4> QED BY <3>3, <4>2
      <3> QED BY <1>0, <1>3, <1>6, <3>1, <3>2, <3>3
    <2> QED BY <2>1, <2>2
  <1> QED BY <1>0, <1>2, <1>4, <1>5, <1>8, <1>9, <1>10

\* a call that goes on, to its write or to its failure, and writes nothing
LEMMA NothingWrittenKeeps ==
    ASSUME UploadInv, NEW k \in LoopIds, loops[k].call.stage # "idle",
           NEW next \in UploadCalls(LoopRequests), next.req = loops[k].call.req,
           ~(next.stage = "answered" /\ next.ok),
           loops' = [loops EXCEPT ![k].call = next],
           UNCHANGED <<submission, sentForScoring, rows, nextId, latest, opening, finalizing,
                       drafts, lastRun>>
    PROVE  UploadInv'
  <1> DEFINE item == Head(loops[k].todo)
  <1>1. item.id \in RowIds /\ AboutItsItem(loops[k].call, item)
    BY LoopItem
  <1>2. /\ \A i \in RowIds : Stored(i) => Stored(i)'
        /\ \A run, file : MadeFrom(run, file) => MadeFrom(run, file)'
        /\ DraftsSound' /\ DoneRowsAreStored'
    BY DEF Stored, MadeFrom, DraftsSound, DoneRowsAreStored, UploadInv
  <1>3. AboutItsItem(next, item)
    BY <1>1 DEF AboutItsItem
  <1>4. \A c, it : it.id \in RowIds /\ AboutItsItem(c, it) => AboutItsItem(c, it)'
    BY <1>2, AboutItemKept
  <1>5. PICK it : it = item /\ AboutItsItem(next, it)'
    BY <1>1, <1>3, <1>4
  <1>6. loops' \in [LoopIds -> UploadLoop] /\ \A j \in LoopIds : LoopInv(j)'
    BY <1>2, <1>5, CallChanges
  <1>7. UploadShape' /\ PageOnItsDraft'
    BY <1>6 DEF UploadInv, UploadShape, PageOnItsDraft
  <1> QED BY <1>2, <1>6, <1>7 DEF UploadInv

\* a call that passes the server's check, whatever it is about
LEMMA PassesCheckKeeps ==
    ASSUME UploadInv, NEW k \in LoopIds, NEW op, PassesCheck(k, op)
    PROVE  UploadInv'
  <1>1. PICK call \in UploadCalls(LoopRequests) : call = loops[k].call
    BY LoopItem DEF PassesCheck
  <1> DEFINE next == [call EXCEPT !.stage = "checked"]
  <1>2. next \in UploadCalls(LoopRequests) /\ next.req = call.req /\ next.stage = "checked"
    BY DEF UploadCalls
  <1>3. loops' = [loops EXCEPT ![k].call = next]
    BY <1>1 DEF PassesCheck
  <1> HIDE DEF next
  <1> QED BY <1>1, <1>2, <1>3, NothingWrittenKeeps DEF PassesCheck

LEMMA CallFailsKeeps ==
    ASSUME UploadInv, NEW k \in LoopIds, CallFails(k)
    PROVE  UploadInv'
  <1>1. PICK call \in UploadCalls(LoopRequests) : call = loops[k].call
    BY LoopItem DEF CallFails
  <1> DEFINE next == Fails(call)
  <1>2. next \in UploadCalls(LoopRequests) /\ next.req = call.req /\ next.ok = FALSE
    BY FailedCall
  <1>3. loops' = [loops EXCEPT ![k].call = next]
    BY <1>1 DEF CallFails
  <1> HIDE DEF next
  <1> QED BY <1>1, <1>2, <1>3, NothingWrittenKeeps DEF CallFails

LEMMA ServeUploadKeeps ==
    ASSUME UploadInv, NEW k \in LoopIds, ServeUpload(k)
    PROVE  UploadInv'
  <1> DEFINE call == loops[k].call
             item == Head(loops[k].todo)
  <1>1. /\ submission \in DraftIds /\ item.id \in RowIds /\ item.case \in Cases
        /\ call \in UploadCalls(LoopRequests) /\ AboutItsItem(call, item)
        /\ call.stage = "checked" /\ call.req.op = "UploadBenchmarkOutput"
    BY LoopItem DEF ServeUpload, Checked
  <1>0. item \in FileRow
    BY <1>1, LoopItem
  <1>2. call.req = UploadBenchmarkOutput(submission, item.case, item.id)
    <2>1. \A run : AddBenchmarkRunScreenshots(run, item.id).op # "UploadBenchmarkOutput"
      BY DEF AddBenchmarkRunScreenshots, Request
    <2> QED BY <1>1, <2>1 DEF AboutItsItem
  <1>3. call.req.path[1] = submission /\ call.req.body[1] = item.case
        /\ call.req.body[2] = item.id
    BY <1>2 DEF UploadBenchmarkOutput, Request
  <1>4. UNCHANGED <<submission, sentForScoring, rows, nextId, latest, opening, finalizing>>
    BY DEF ServeUpload
  <1>6. UploadInv'
    <2>1. PICK d \in DraftIds, it \in FileRow, c \in Cases, file \in RowIds,
               output \in DraftOutput :
             /\ d = submission /\ it = item /\ c = item.case /\ file = item.id
             /\ output = [run |-> lastRun + 1, file |-> file, shots |-> {}]
      <3>1. [run |-> lastRun + 1, file |-> item.id, shots |-> {}] \in DraftOutput
        BY <1>1, UploadAssumption DEF DraftOutput, RowIds, UploadInv, UploadShape
      <3> QED BY <1>0, <1>1, <3>1
    <2>2. lastRun' = lastRun + 1
      BY DEF ServeUpload
    <2>3. PICK arrives \in BOOLEAN :
             loops' = [loops EXCEPT ![k].call = IF arrives THEN Succeeds(call, lastRun + 1)
                                                          ELSE Fails(call)]
      BY <1>3, <2>1 DEF ServeUpload, StoredOutput
    <2>4. PutsOutput(d, c, file)
      <3>1. PICK old \in DraftRow : old = drafts[d]
        BY DEF UploadInv, UploadShape
      <3> DEFINE row == [old EXCEPT !.outputs = [old.outputs EXCEPT ![c] = output],
                                    !.storedAs = [old.storedAs EXCEPT ![file] = c]]
      <3>2. drafts' = [drafts EXCEPT ![d].outputs[c] = output, ![d].storedAs[file] = c]
        BY <1>3, <2>1 DEF ServeUpload, StoredOutput
      <3>3. drafts' = [drafts EXCEPT ![d] = row]
        BY <3>1, <3>2 DEF DraftRow
      <3> HIDE DEF row
      <3>4. /\ row.outputs = [old.outputs EXCEPT ![c] = output]
            /\ row.storedAs = [old.storedAs EXCEPT ![file] = c]
            /\ row.status = old.status /\ row \in DraftRow
        BY DEF row, DraftRow
      <3>5. old.outputs \in [Cases -> DraftOutput] /\ old.storedAs \in [RowIds -> Cases \cup {NoCase}]
        BY DEF DraftRow
      <3>6. /\ drafts' \in [DraftIds -> DraftRow] /\ drafts'[d] = row
            /\ \A e \in DraftIds \ {d} : drafts'[e] = drafts[e]
        <4>1. drafts \in [DraftIds -> DraftRow]
          BY DEF UploadInv, UploadShape
        <4> QED BY <3>3, <3>4, <4>1
      <3>7. /\ drafts'[d].outputs[c] = output /\ drafts'[d].storedAs[file] = c
            /\ \A b \in Cases \ {c} : drafts'[d].outputs[b] = drafts[d].outputs[b]
            /\ \A i \in RowIds \ {file} : drafts'[d].storedAs[i] = drafts[d].storedAs[i]
        BY <3>1, <3>4, <3>5, <3>6
      <3> QED BY <2>1, <2>2, <3>6, <3>7 DEF PutsOutput
    <2>7. /\ drafts' \in [DraftIds -> DraftRow] /\ DraftsSound'
          /\ \A i \in RowIds : Stored(i) => Stored(i)'
          /\ \A run, f : MadeFrom(run, f) => MadeFrom(run, f)'
          /\ Stored(file)' /\ MadeFrom(lastRun, file)'
      <3>1. submission' = submission
        BY <1>4
      <3> QED BY <2>1, <2>4, <3>1, OutputIsStored
    <2>9. PICK answered \in UploadCalls(LoopRequests) :
             /\ loops' = [loops EXCEPT ![k].call = answered]
             /\ AboutItsItem(answered, it)'
      <3>1. CASE arrives = TRUE
        <4> DEFINE answered == Succeeds(call, lastRun + 1)
        <4>1. lastRun + 1 \in Nat
          BY DEF UploadInv, UploadShape
        <4>2. /\ answered \in UploadCalls(LoopRequests) /\ answered.req = call.req
              /\ answered.data = lastRun + 1
          BY <1>1, <4>1, AnsweredCall, ZenonT(30)
        <4>3. loops' = [loops EXCEPT ![k].call = answered]
          BY <2>3, <3>1
        <4> HIDE DEF answered
        <4>4. PICK a \in UploadCalls(LoopRequests) :
                 a = answered /\ a.req = call.req /\ a.data = lastRun'
          BY <2>1, <2>2, <4>2
        <4>5. a.req = UploadBenchmarkOutput(submission', it.case, it.id)
          BY <1>2, <1>4, <2>1, <4>4
        <4>6. Stored(it.id)' /\ MadeFrom(a.data, it.id)'
          BY <2>1, <2>7, <4>4 DEF MadeFrom
        <4>7. AboutItsItem(a, it)'
          BY <4>5, <4>6 DEF AboutItsItem
        <4> QED BY <4>3, <4>4, <4>7
      <3>2. CASE arrives = FALSE
        <4>1. \A x \in UploadCalls(LoopRequests) : AboutItsItem(x, it) =>
                 Fails(x) \in UploadCalls(LoopRequests) /\ AboutItsItem(Fails(x), it)'
          BY <1>1, <1>4, <2>1, <2>7, FailureIsAboutItsItem
        <4>2. PICK answered \in UploadCalls(LoopRequests) :
                 answered = Fails(call) /\ AboutItsItem(answered, it)'
          BY <1>1, <2>1, <4>1
        <4> QED BY <2>3, <3>2, <4>2
      <3> QED BY <3>1, <3>2
    <2>10. loops' \in [LoopIds -> UploadLoop] /\ \A j \in LoopIds : LoopInv(j)'
      BY <1>1, <1>4, <2>1, <2>7, <2>9, CallChanges
    <2>11. UploadShape' /\ PageOnItsDraft'
      BY <1>4, <2>2, <2>7, <2>10 DEF UploadInv, UploadShape, PageOnItsDraft
    <2>12. DoneRowsAreStored'
      <3>0. \A i \in DOMAIN rows : rows[i] \in FileRow
        BY DEF UploadInv, UploadShape
      <3>1. \A i \in DOMAIN rows : rows[i].state = "done" =>
               Stored(rows[i].id) /\ rows[i].id \in RowIds
        BY <3>0 DEF UploadInv, DoneRowsAreStored, FileRow
      <3> QED BY <1>4, <2>7, <3>1 DEF DoneRowsAreStored
    <2> QED BY <2>7, <2>10, <2>11, <2>12 DEF UploadInv
  <1> QED BY <1>6

\* a file's screenshots are added to an output made from it
AddsShots(file) ==
    /\ drafts' \in [DraftIds -> DraftRow] /\ lastRun' = lastRun
    /\ \A e \in DraftIds : drafts'[e].storedAs = drafts[e].storedAs
    /\ \A e \in DraftIds, b \in Cases :
          /\ drafts'[e].outputs[b].run = drafts[e].outputs[b].run
          /\ drafts'[e].outputs[b].file = drafts[e].outputs[b].file
          /\ \/ drafts'[e].outputs[b].shots = drafts[e].outputs[b].shots
             \/ /\ drafts'[e].outputs[b].shots = drafts[e].outputs[b].shots \cup {file}
                /\ drafts[e].outputs[b].file = file

LEMMA ShotsAreAdded ==
    ASSUME UploadInv, NEW file \in RowIds, AddsShots(file), submission' = submission
    PROVE  /\ DraftsSound'
           /\ \A i \in RowIds : Stored(i) => Stored(i)'
           /\ \A run, f : MadeFrom(run, f) => MadeFrom(run, f)'
  <1>1. DraftsSound'
    <2> SUFFICES ASSUME NEW e \in DraftIds
                 PROVE  /\ \A b \in Cases :
                              /\ drafts'[e].outputs[b].run \in 0..lastRun'
                              /\ drafts'[e].outputs[b].shots \subseteq {drafts'[e].outputs[b].file}
                        /\ \A i \in RowIds : drafts'[e].storedAs[i] # NoCase =>
                              drafts'[e].outputs[drafts'[e].storedAs[i]].run # 0
      BY DEF DraftsSound
    <2>1. ASSUME NEW b \in Cases
          PROVE  /\ drafts'[e].outputs[b].run \in 0..lastRun'
                 /\ drafts'[e].outputs[b].shots \subseteq {drafts'[e].outputs[b].file}
      BY DEF UploadInv, DraftsSound, AddsShots
    <2>2. ASSUME NEW i \in RowIds, drafts'[e].storedAs[i] # NoCase
          PROVE  drafts'[e].outputs[drafts'[e].storedAs[i]].run # 0
      <3> DEFINE b == drafts[e].storedAs[i]
      <3>1. drafts'[e].storedAs[i] = b
        BY DEF AddsShots
      <3>2. b \in Cases /\ drafts[e].outputs[b].run # 0
        <4>1. drafts[e] \in DraftRow
          BY DEF UploadInv, UploadShape
        <4>2. b \in Cases \cup {NoCase}
          BY <4>1 DEF DraftRow
        <4> QED BY <2>2, <3>1, <4>2 DEF UploadInv, DraftsSound
      <3> HIDE DEF b
      <3> QED BY <3>1, <3>2 DEF AddsShots
    <2> QED BY <2>1, <2>2
  <1>3. ASSUME NEW i \in RowIds, Stored(i)
        PROVE  Stored(i)'
    <2>1. submission \in DraftIds
      BY <1>3 DEF Stored, UploadInv, UploadShape, DraftIds
    <2> QED BY <1>3, <2>1 DEF Stored, AddsShots
  <1>4. ASSUME NEW run, NEW f, MadeFrom(run, f)
        PROVE  MadeFrom(run, f)'
    BY <1>4 DEF MadeFrom, AddsShots
  <1> QED BY <1>1, <1>3, <1>4

LEMMA ServeShotsKeeps ==
    ASSUME UploadInv, NEW k \in LoopIds, ServeShots(k)
    PROVE  UploadInv'
  <1> DEFINE call == loops[k].call
             item == Head(loops[k].todo)
  <1>0. item \in FileRow
    BY LoopItem DEF ServeShots, Checked
  <1>1. /\ submission \in DraftIds /\ item.id \in RowIds
        /\ call \in UploadCalls(LoopRequests) /\ AboutItsItem(call, item)
        /\ call.stage = "checked" /\ call.req.op = "AddBenchmarkRunScreenshots"
    BY LoopItem DEF ServeShots, Checked
  <1>2. PICK run \in Nat : /\ call.req = AddBenchmarkRunScreenshots(run, item.id)
                          /\ Stored(item.id) /\ MadeFrom(run, item.id)
    <2>1. \A d, c, i : UploadBenchmarkOutput(d, c, i).op # "AddBenchmarkRunScreenshots"
      BY DEF UploadBenchmarkOutput, Request
    <2> QED BY <1>1, <2>1 DEF AboutItsItem
  <1>3. call.req.path[1] = run /\ call.req.body = item.id
    BY <1>2 DEF AddBenchmarkRunScreenshots, Request
  <1>4. UNCHANGED <<submission, sentForScoring, rows, nextId, latest, opening, finalizing,
                    lastRun>>
    BY DEF ServeShots
  <1>6. UploadInv'
    <2>1. PICK d \in DraftIds, c \in Cases, arrives \in BOOLEAN :
             /\ drafts[d].outputs[c].run = run
             /\ drafts' = [drafts EXCEPT ![d].outputs[c].shots = @ \cup {call.req.body}]
             /\ loops' = [loops EXCEPT ![k].call =
                             IF arrives THEN Succeeds(call, run) ELSE Fails(call)]
      BY <1>3 DEF ServeShots
    <2>2. PICK it \in FileRow, file \in RowIds :
             it = item /\ file = item.id /\ drafts[d].outputs[c].file = file
      BY <1>0, <1>1, <1>2, <2>1 DEF MadeFrom
    <2>3. AddsShots(file)
      <3>1. PICK old \in DraftRow : old = drafts[d]
        BY DEF UploadInv, UploadShape
      <3>2. PICK output \in DraftOutput : output = old.outputs[c]
        BY DEF DraftRow
      <3> DEFINE added == [output EXCEPT !.shots = output.shots \cup {file}]
                 row == [old EXCEPT !.outputs = [old.outputs EXCEPT ![c] = added]]
      <3>3. drafts' = [drafts EXCEPT ![d] = row]
        BY <1>3, <2>1, <2>2, <3>1, <3>2
      <3>4. /\ added \in DraftOutput /\ added.run = output.run /\ added.file = output.file
            /\ added.shots = output.shots \cup {file}
        BY DEF DraftOutput
      <3> HIDE DEF added
      <3>5. old.outputs \in [Cases -> DraftOutput]
        BY DEF DraftRow
      <3>6. [old.outputs EXCEPT ![c] = added] \in [Cases -> DraftOutput]
        BY <3>4, <3>5
      <3>7. /\ row \in DraftRow /\ row.storedAs = old.storedAs
            /\ row.outputs = [old.outputs EXCEPT ![c] = added]
        BY <3>6 DEF DraftRow
      <3> HIDE DEF row
      <3>8. /\ drafts' \in [DraftIds -> DraftRow] /\ drafts'[d] = row
            /\ \A e \in DraftIds \ {d} : drafts'[e] = drafts[e]
        <4>1. drafts \in [DraftIds -> DraftRow]
          BY DEF UploadInv, UploadShape
        <4> QED BY <3>3, <3>7, <4>1
      <3>9. /\ drafts'[d].outputs[c] = added
            /\ \A b \in Cases \ {c} : drafts'[d].outputs[b] = drafts[d].outputs[b]
            /\ drafts'[d].storedAs = drafts[d].storedAs
        BY <3>1, <3>5, <3>7, <3>8
      <3>10. /\ added.run = drafts[d].outputs[c].run /\ added.file = drafts[d].outputs[c].file
             /\ added.shots = drafts[d].outputs[c].shots \cup {file}
        BY <3>1, <3>2, <3>4
      <3>11. \A e \in DraftIds : drafts'[e].storedAs = drafts[e].storedAs
        BY <3>8, <3>9
      <3>12. ASSUME NEW e \in DraftIds, NEW b \in Cases
             PROVE  /\ drafts'[e].outputs[b].run = drafts[e].outputs[b].run
                    /\ drafts'[e].outputs[b].file = drafts[e].outputs[b].file
                    /\ \/ drafts'[e].outputs[b].shots = drafts[e].outputs[b].shots
                       \/ /\ drafts'[e].outputs[b].shots = drafts[e].outputs[b].shots \cup {file}
                          /\ drafts[e].outputs[b].file = file
        <4>1. CASE e = d /\ b = c
          BY <2>2, <3>9, <3>10, <4>1
        <4>2. CASE ~(e = d /\ b = c)
          BY <3>8, <3>9, <4>2
        <4> QED BY <4>1, <4>2
      <3>13. lastRun' = lastRun
        BY <1>4
      <3> QED BY <3>8, <3>11, <3>12, <3>13 DEF AddsShots
    <2>4. submission' = submission
      BY <1>4
    <2>5. /\ DraftsSound'
          /\ \A i \in RowIds : Stored(i) => Stored(i)'
          /\ \A r, f : MadeFrom(r, f) => MadeFrom(r, f)'
      BY <2>3, <2>4, ShotsAreAdded
    <2>6. PICK answered \in UploadCalls(LoopRequests) :
             /\ loops' = [loops EXCEPT ![k].call = answered]
             /\ AboutItsItem(answered, it)'
      <3>1. CASE arrives = TRUE
        <4> DEFINE answered == Succeeds(call, run)
        <4>0. answered \in UploadCalls(LoopRequests) /\ answered.req = call.req
          BY <1>1, AnsweredCall, ZenonT(30)
        <4> HIDE DEF answered
        <4>1. PICK a \in UploadCalls(LoopRequests) : a = answered /\ a.req = call.req
          BY <4>0
        <4>2. a.req = AddBenchmarkRunScreenshots(run, it.id)
          BY <1>2, <2>2, <4>1
        <4>3. Stored(it.id)' /\ MadeFrom(run, it.id)'
          BY <1>1, <1>2, <2>2, <2>5
        <4>4. AboutItsItem(a, it)'
          BY <4>2, <4>3 DEF AboutItsItem
        <4> QED BY <2>1, <3>1, <4>1, <4>4 DEF answered
      <3>2. CASE arrives = FALSE
        <4>1. \A x \in UploadCalls(LoopRequests) : AboutItsItem(x, it) =>
                 Fails(x) \in UploadCalls(LoopRequests) /\ AboutItsItem(Fails(x), it)'
          BY <1>1, <2>2, <2>4, <2>5, FailureIsAboutItsItem
        <4>2. PICK a \in UploadCalls(LoopRequests) : a = Fails(call) /\ AboutItsItem(a, it)'
          BY <1>1, <2>2, <4>1
        <4> QED BY <2>1, <3>2, <4>2
      <3> QED BY <3>1, <3>2
    <2>7. loops' \in [LoopIds -> UploadLoop] /\ \A j \in LoopIds : LoopInv(j)'
      BY <1>1, <2>2, <2>4, <2>5, <2>6, CallChanges
    <2>8. UploadShape' /\ PageOnItsDraft'
      BY <1>4, <2>3, <2>7 DEF UploadInv, UploadShape, PageOnItsDraft, AddsShots
    <2>9. DoneRowsAreStored'
      <3>0. \A i \in DOMAIN rows : rows[i] \in FileRow
        BY DEF UploadInv, UploadShape
      <3>1. \A i \in DOMAIN rows : rows[i].state = "done" =>
               Stored(rows[i].id) /\ rows[i].id \in RowIds
        BY <3>0 DEF UploadInv, DoneRowsAreStored, FileRow
      <3> QED BY <1>4, <2>5, <3>1 DEF DoneRowsAreStored
    <2> QED BY <2>5, <2>7, <2>8, <2>9 DEF UploadInv
  <1> QED BY <1>6

LEMMA PdfAnsweredKeeps ==
    ASSUME UploadInv, NEW k \in LoopIds, PdfAnswered(k)
    PROVE  UploadInv'
  <1> DEFINE call == loops[k].call
             item == Head(loops[k].todo)
             left == Tail(loops[k].todo)
  <1>1. /\ submission # 0 /\ item.id \in RowIds /\ item \in FileRow
        /\ left \in Seq(FileRow) /\ \A i \in DOMAIN left : left[i].case \in Cases
        /\ call \in UploadCalls(LoopRequests) /\ AboutItsItem(call, item)
    BY LoopItem DEF PdfAnswered
  <1>2. /\ call.stage = "answered" /\ call.req.op = "UploadBenchmarkOutput"
        /\ UNCHANGED <<submission, sentForScoring, nextId, opening, finalizing, drafts, lastRun>>
    BY DEF PdfAnswered
  <1>3. call.ok => Stored(item.id) /\ MadeFrom(call.data, item.id)
    <2>1. \A run : AddBenchmarkRunScreenshots(run, item.id).op # "UploadBenchmarkOutput"
      BY DEF AddBenchmarkRunScreenshots, Request
    <2> QED BY <1>1, <1>2, <2>1 DEF AboutItsItem
  <1>4. CASE NextItem(k, left, SetState(rows, item.id, Outcome(call)))
    <2>1. Outcome(call) \in UploadState /\ (Outcome(call) = "done" => call.ok)
      BY DEF Outcome, UploadState
    <2>2. rows \in Seq(FileRow) /\ \A i \in DOMAIN rows : rows[i] \in FileRow
      BY DEF UploadInv, UploadShape
    <2> DEFINE set == SetState(rows, item.id, Outcome(call))
    <2>3. /\ set \in Seq(FileRow) /\ DOMAIN set = DOMAIN rows
          /\ \A i \in DOMAIN rows :
                /\ set[i].id = rows[i].id
                /\ set[i].state = IF rows[i].id = item.id THEN Outcome(call) ELSE rows[i].state
      BY <1>1, <2>1, <2>2, StateIsSet
    <2> HIDE DEF set
    <2>4. ASSUME NEW i \in DOMAIN set, set[i].state = "done"
          PROVE  Stored(set[i].id)
      <3>1. CASE rows[i].id = item.id
        BY <1>3, <2>1, <2>3, <2>4, <3>1
      <3>2. CASE rows[i].id # item.id
        BY <2>3, <2>4, <3>2 DEF UploadInv, DoneRowsAreStored
      <3> QED BY <3>1, <3>2
    <2>5. PICK todo \in Seq(FileRow), rs \in Seq(FileRow) : todo = left /\ rs = set
      BY <1>1, <2>3
    <2>6. /\ NextItem(k, todo, rs) /\ \A i \in DOMAIN todo : todo[i].case \in Cases
          /\ \A i \in DOMAIN rs : rs[i].state = "done" => Stored(rs[i].id)
      BY <1>1, <1>4, <2>4, <2>5 DEF set
    <2> QED BY <1>1, <1>2, <2>6, NextItemKeeps
  <1>5. CASE /\ call.ok /\ item.shots
             /\ loops' = [loops EXCEPT ![k].call =
                             Sent(AddBenchmarkRunScreenshots(call.data, item.id))]
             /\ UNCHANGED <<rows, latest>>
    <2>1. call.data \in Nat /\ AddBenchmarkRunScreenshots(call.data, item.id) \in LoopRequests
      BY <1>1 DEF UploadCalls, LoopRequests, ShotRequests
    <2>2. PICK it \in FileRow, run \in Nat : it = item /\ run = call.data
      BY <1>1, <2>1
    <2> DEFINE next == Sent(AddBenchmarkRunScreenshots(run, it.id))
    <2>3. next \in UploadCalls(LoopRequests) /\ next.req = AddBenchmarkRunScreenshots(run, it.id)
      BY <2>1, <2>2, SentCall
    <2> HIDE DEF next
    <2>4. PICK a \in UploadCalls(LoopRequests) :
             a = next /\ a.req = AddBenchmarkRunScreenshots(run, it.id)
      BY <2>3
    <2>5. loops' = [loops EXCEPT ![k].call = a]
      BY <1>5, <2>2, <2>4 DEF next
    <2>6. /\ submission' = submission
          /\ \A i \in RowIds : Stored(i) => Stored(i)'
          /\ \A r, file : MadeFrom(r, file) => MadeFrom(r, file)'
          /\ DraftsSound' /\ DoneRowsAreStored'
      BY <1>2, <1>5 DEF Stored, MadeFrom, DraftsSound, DoneRowsAreStored,
         UploadInv
    <2>7. AboutItsItem(a, it)'
      <3>1. Stored(it.id)' /\ MadeFrom(run, it.id)'
        BY <1>1, <1>3, <1>5, <2>2, <2>6
      <3> QED BY <2>4, <3>1 DEF AboutItsItem
    <2>8. loops' \in [LoopIds -> UploadLoop] /\ \A j \in LoopIds : LoopInv(j)'
      BY <1>2, <2>2, <2>5, <2>6, <2>7, CallChanges
    <2>9. UploadShape' /\ PageOnItsDraft'
      BY <1>2, <1>5, <2>8 DEF UploadInv, UploadShape, PageOnItsDraft
    <2> QED BY <2>6, <2>8, <2>9 DEF UploadInv
  <1> QED BY <1>4, <1>5 DEF PdfAnswered

LEMMA ShotsAnsweredKeeps ==
    ASSUME UploadInv, NEW k \in LoopIds, ShotsAnswered(k)
    PROVE  UploadInv'
  <1> DEFINE call == loops[k].call
             item == Head(loops[k].todo)
             left == Tail(loops[k].todo)
  <1>1. /\ submission # 0 /\ item.id \in RowIds
        /\ left \in Seq(FileRow) /\ \A i \in DOMAIN left : left[i].case \in Cases
        /\ call \in UploadCalls(LoopRequests) /\ AboutItsItem(call, item)
    BY LoopItem DEF ShotsAnswered
  <1>2. /\ call.req.op = "AddBenchmarkRunScreenshots"
        /\ UNCHANGED <<submission, sentForScoring, nextId, opening, finalizing, drafts, lastRun>>
    BY DEF ShotsAnswered
  <1>3. Stored(item.id)
    <2>1. \A d, c, i : UploadBenchmarkOutput(d, c, i).op # "AddBenchmarkRunScreenshots"
      BY DEF UploadBenchmarkOutput, Request
    <2> QED BY <1>1, <1>2, <2>1 DEF AboutItsItem
  <1> DEFINE Done(row) == [row EXCEPT !.state = "done", !.warning = ~call.ok]
             set == UpdateRow(rows, item.id, Done)
  <1>4. NextItem(k, left, set)
    BY DEF ShotsAnswered
  <1>5. rows \in Seq(FileRow) /\ \A i \in 1..Len(rows) : rows[i] \in FileRow
    BY DEF UploadInv, UploadShape
  <1>6. set = [i \in 1..Len(rows) |-> IF rows[i].id = item.id THEN Done(rows[i]) ELSE rows[i]]
    BY <1>5 DEF UpdateRow
  <1>7. \A row \in FileRow : Done(row) \in FileRow /\ Done(row).id = row.id
    BY DEF FileRow, UploadState
  <1> HIDE DEF Done, set
  <1>8. ASSUME NEW i \in 1..Len(rows)
        PROVE  /\ set[i] \in FileRow /\ set[i].id = rows[i].id
               /\ set[i] = rows[i] \/ rows[i].id = item.id
    BY <1>5, <1>6, <1>7
  <1>9. set \in Seq(FileRow) /\ DOMAIN set = 1..Len(rows)
    <2>1. set = [i \in 1..Len(rows) |-> set[i]]
      BY <1>6
    <2>2. [i \in 1..Len(rows) |-> set[i]] \in Seq(FileRow)
      BY <1>5, <1>8
    <2> QED BY <2>1, <2>2, <1>6
  <1>10. ASSUME NEW i \in DOMAIN set, set[i].state = "done"
         PROVE  Stored(set[i].id)
    <2>1. CASE rows[i].id = item.id
      BY <1>3, <1>8, <1>9, <2>1
    <2>2. CASE set[i] = rows[i]
      BY <1>5, <1>9, <1>10, <2>2 DEF UploadInv, DoneRowsAreStored
    <2> QED BY <1>8, <1>9, <2>1, <2>2
  <1>11. PICK todo \in Seq(FileRow), rs \in Seq(FileRow) : todo = left /\ rs = set
    BY <1>1, <1>9
  <1>12. /\ NextItem(k, todo, rs) /\ \A i \in DOMAIN todo : todo[i].case \in Cases
         /\ \A i \in DOMAIN rs : rs[i].state = "done" => Stored(rs[i].id)
    BY <1>1, <1>4, <1>10, <1>11
  <1> QED BY <1>1, <1>2, <1>12, NextItemKeeps

----------------------------------------------------------------------------
LEMMA UploadInitInv == UploadInit => UploadInv
  <1> SUFFICES ASSUME UploadInit
               PROVE  UploadInv
    OBVIOUS
  <1>1. \A requests : NoCall \in UploadCalls(requests) /\ NoCall.stage = "idle"
    BY IdleCall
  <1>2. NoLoop \in UploadLoop /\ NoLoop.call.stage = "idle"
    BY <1>1 DEF NoLoop, UploadLoop
  <1>3. NoOutput \in DraftOutput
    BY UploadAssumption DEF NoOutput, DraftOutput
  <1>4. /\ NoDraft \in DraftRow
        /\ \A c \in Cases : NoDraft.outputs[c] = NoOutput
        /\ \A i \in RowIds : NoDraft.storedAs[i] = NoCase
    BY <1>3 DEF NoDraft, DraftRow
  <1>5. UploadShape
    <2>1. /\ loops \in [LoopIds -> UploadLoop] /\ drafts \in [DraftIds -> DraftRow]
      BY <1>2, <1>4, Zenon DEF UploadInit
    <2>2. /\ submission \in 0..MaxDrafts /\ nextId \in 1..MaxPicks + 1
          /\ latest \in 0..MaxLoops
      BY UploadAssumption DEF UploadInit
    <2>3. rows \in Seq(FileRow) /\ sentForScoring \in BOOLEAN /\ lastRun \in Nat
      <3>1. rows = <<>> /\ sentForScoring = FALSE /\ lastRun = 0
        BY DEF UploadInit
      <3>2. <<>> \in Seq(FileRow)
        OBVIOUS
      <3> QED BY <3>1, <3>2
    <2>4. /\ opening \in UploadCalls({CreateBenchmarkSubmission("pdf", "tool")})
          /\ finalizing \in UploadCalls({FinalizeBenchmarkSubmission(d) : d \in DraftIds})
      BY <1>1 DEF UploadInit
    <2> QED BY <2>1, <2>2, <2>3, <2>4 DEF UploadShape
  <1>6. PageOnItsDraft /\ DoneRowsAreStored
    BY <1>1 DEF UploadInit, PageOnItsDraft, DoneRowsAreStored
  <1>7. DraftsSound
    BY <1>4 DEF UploadInit, DraftsSound, NoOutput
  <1>8. \A k \in LoopIds : LoopInv(k)
    BY <1>2 DEF UploadInit, LoopInv
  <1> QED BY <1>5, <1>6, <1>7, <1>8 DEF UploadInv

LEMMA UploadNextInv ==
    UploadInv /\ [UploadNext]_uploadVars => UploadInv'
  <1> SUFFICES ASSUME UploadInv, [UploadNext]_uploadVars
               PROVE  UploadInv'
    OBVIOUS
  <1>1. CASE UNCHANGED uploadVars
    <2>1. UploadShape' /\ PageOnItsDraft'
      BY <1>1 DEF uploadVars, UploadInv, UploadShape, PageOnItsDraft
    <2>2. DoneRowsAreStored' /\ DraftsSound'
      BY <1>1 DEF uploadVars, UploadInv, DoneRowsAreStored, DraftsSound, Stored, MadeFrom
    <2>3. ASSUME NEW k \in LoopIds PROVE LoopInv(k)'
      BY <1>1 DEF uploadVars, UploadInv, LoopInv, AboutItsItem, MadeFrom, Stored
    <2> QED BY <1>1, <2>1, <2>2, <2>3 DEF UploadInv
  <1>2. ASSUME NEW k \in LoopIds, UploadAll(k) \/ LoopSteps(k)
        PROVE  UploadInv'
    BY <1>2, UploadAllKeeps, PassesCheckKeeps, ServeUploadKeeps, ServeShotsKeeps, CallFailsKeeps,
       PdfAnsweredKeeps, ShotsAnsweredKeeps DEF LoopSteps, CheckUpload, CheckShots
  <1>3. CASE UploadNext
    BY <1>2, <1>3, OpeningKeeps, SendingKeeps, RowsKeep
       DEF UploadNext, UploadReader, OpeningSteps, FinalizeSteps
  <1> QED BY <1>1, <1>3

LEMMA UploadInvImplies ==
    UploadInv => UploadTypeOK /\ DoneRowWasStored /\ ShotsOnTheirOwnRun
  <1> SUFFICES ASSUME UploadInv
               PROVE  UploadTypeOK /\ DoneRowWasStored /\ ShotsOnTheirOwnRun
    OBVIOUS
  <1>1. UploadTypeOK
    <2>1. ASSUME NEW d \in DraftIds
          PROVE  /\ drafts[d].status \in {"none", "draft", "scoring", "withdrawn"}
                 /\ drafts[d].storedAs \in [RowIds -> Cases \cup {NoCase}]
                 /\ \A c \in Cases : /\ drafts[d].outputs[c].run \in 0..lastRun
                                     /\ drafts[d].outputs[c].file \in 0..MaxPicks
      <3>1. drafts[d] \in DraftRow
        BY DEF UploadInv, UploadShape
      <3>2. \A c \in Cases : drafts[d].outputs[c] \in DraftOutput
        BY <3>1 DEF DraftRow
      <3> QED BY <3>1, <3>2 DEF DraftRow, DraftOutput, UploadInv, DraftsSound
    <2>2. \A k \in LoopIds : loops[k].todo \in Seq(FileRow)
      BY DEF UploadInv, UploadShape, UploadLoop
    <2> QED BY <2>1, <2>2 DEF UploadTypeOK, UploadInv, UploadShape
  <1>2. DoneRowWasStored
    <2> SUFFICES ASSUME NEW i \in DOMAIN rows, rows[i].state = "done"
                 PROVE  LET c == drafts[submission].storedAs[rows[i].id] IN
                        c # NoCase /\ drafts[submission].outputs[c] # NoOutput
      BY DEF DoneRowWasStored
    <2>1. rows[i].id \in RowIds
      <3>1. rows[i] \in FileRow
        BY DEF UploadInv, UploadShape
      <3> QED BY <3>1 DEF FileRow
    <2>2. Stored(rows[i].id) /\ submission \in DraftIds
      BY DEF UploadInv, UploadShape, DoneRowsAreStored, Stored, DraftIds
    <2> QED BY <2>1, <2>2 DEF UploadInv, DraftsSound, Stored, NoOutput
  <1>3. ShotsOnTheirOwnRun
    BY DEF UploadInv, DraftsSound, ShotsOnTheirOwnRun
  <1> QED BY <1>1, <1>2, <1>3
=============================================================================
