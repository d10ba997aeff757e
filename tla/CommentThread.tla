--------------------------- MODULE CommentThread ---------------------------
(* The discussion under a page (features/comments): what a reader sees is    *)
(* built from lists that are read separately - the public thread, the        *)
(* reader's own comments awaiting review, for staff the page's queue - and   *)
(* every write re-reads all of them, one after the other's answer.  On the    *)
(* server a comment is posted, edited, deleted and reviewed                   *)
(* (apps/comments/services.py and staff.py); an edit reads the comment and    *)
(* saves it later without the lock a review takes.                            *)
EXTENDS ApiClient, FiniteSets

CONSTANTS
    MaxComments,   \* bound: comments on the page
    MaxWrites,     \* bound: writes in flight at once
    Threads,       \* the pages a visit may start on, as <<status, parent, author>>
    CommentVisits  \* bound: who reads (a signed-out reader writes nothing), and how
                   \* often a reply, an edit or a delete is opened (modes), something
                   \* is sent (sends), and others act meanwhile (others)

ASSUME CommentAssumption ==
    /\ MaxComments \in Nat \ {0} /\ MaxWrites \in Nat \ {0}
    /\ \A t \in Threads :
          /\ t \in Seq({"pending", "published"} \X Nat \X {"reader", "other"})
          /\ Len(t) <= MaxComments /\ \A c \in DOMAIN t : t[c][2] < c
    /\ \A v \in CommentVisits : /\ v.reader \in {"member", "staff"}
                                /\ {v.modes, v.sends, v.others} \subseteq Nat

VARIABLES
    commentVisit, \* which of the visits this is
    comments,    \* server: the comments of the page
    lists,       \* the query cache: what each list last answered
    listReads,   \* the read of each list: idle, sent, or answered with what it brings
    mode,        \* useState of each comment: read, reply, edit, delete
    modesOpened, \* openings so far
    sends,       \* writes sent so far
    writes,      \* the writes in flight
    othersActed, \* what others did so far
    unsettled    \* history: why the lists may differ from the server

commentVars == <<commentVisit, comments, lists, listReads, mode, modesOpened, sends,
                 writes, othersActed, unsettled>>

CommentIds == 1..MaxComments
WriteSlots == 1..MaxWrites
Statuses == {"none", "pending", "published", "rejected", "removed"}
Page == "tool"

NoComment == [status |-> "none", parent |-> 0, author |-> "none", text |-> 0]
NoWrite == [at |-> 0, call |-> NoCall, read |-> NoComment, waits |-> {}]
ListRead(stage, answer) == [stage |-> stage, data |-> answer]
Unread == ListRead("idle", <<>>)

Exists(c) == comments[c].status # "none"

\* useListToolComments (or ListBlogComments, the same on a post),
\* useListMyPendingComments when signed in, useStaffListComments for staff
PublicList == ListToolComments(Page)
MineList == ListMyPendingComments(Page)
QueueList == StaffListComments(Page, "pending")
Lists == {PublicList, MineList}
           \cup (IF commentVisit.reader = "staff" THEN {QueueList} ELSE {})

\* what the server answers: a list is a partial function from ids to comments.
\* A comment that has left the page but has a published reply below it is a
\* blank placeholder (services.py public_thread)
Threaded(cs, c) ==
    LET above[d \in 0..MaxComments] == IF d = 0 THEN {} ELSE {d} \cup above[cs[d].parent]
    IN above[c]
Placeholder(c) == [status |-> "gone", parent |-> comments[c].parent,
                   author |-> "none", text |-> 0]

PublicThread ==
    LET Published == {c \in CommentIds : comments[c].status = "published"}
        Kept == {c \in CommentIds : \E p \in Published : c \in Threaded(comments, p)} IN
    [c \in Kept |-> IF c \in Published THEN comments[c] ELSE Placeholder(c)]
PendingOf(authors) ==
    LET Waiting == {c \in CommentIds : comments[c].status = "pending"
                                       /\ comments[c].author \in authors} IN
    [c \in Waiting |-> comments[c]]

AnswerOf(list) == CASE list = PublicList -> PublicThread
                    [] list = MineList   -> PendingOf({"reader"})
                    [] list = QueueList  -> PendingOf({"reader", "other"})

ThreadOf(t) ==
    [c \in CommentIds |->
        IF c > Len(t) THEN NoComment
        ELSE [status |-> t[c][1], parent |-> t[c][2], author |-> t[c][3], text |-> 1]]

CommentInit ==
    /\ commentVisit \in CommentVisits
    /\ comments \in {ThreadOf(t) : t \in Threads}
    /\ lists = [l \in Lists |-> AnswerOf(l)]
    /\ listReads = [l \in Lists |-> Unread]
    /\ mode = [c \in CommentIds |-> "read"] /\ modesOpened = 0 /\ sends = 0
    /\ writes = [w \in WriteSlots |-> NoWrite]
    /\ othersActed = 0 /\ unsettled = FALSE

----------------------------------------------------------------------------
\* build-tree.ts: the lists merged by id, what is public first; a reply whose
\* parent is not visible stays at the top level
ByIdOf(ls) ==
    LET From(c) == IF c \in DOMAIN ls[PublicList] THEN PublicList
                   ELSE IF c \in DOMAIN ls[MineList] THEN MineList ELSE QueueList IN
    [c \in UNION {DOMAIN ls[l] : l \in Lists} |-> ls[From(c)][c]]
ById == ByIdOf(lists)
ParentAsSent(nodes, c) == nodes[c].parent
ParentIn(nodes, c) == IF nodes[c].parent \in DOMAIN nodes THEN nodes[c].parent ELSE 0
\* a comment that leaves the tree, or moves in it, is mounted anew
StaysMounted(c, before, after) ==
    /\ {c} \subseteq DOMAIN before \cap DOMAIN after
    /\ ParentIn(before, c) = ParentIn(after, c)
BuildTree(nodes) ==
    [p \in DOMAIN nodes \cup {0} |-> {c \in DOMAIN nodes : ParentIn(nodes, c) = p}]

GoneIn(node) == node.status = "gone"

----------------------------------------------------------------------------
\* the reader: opens a form on a comment, or gives it up
OpenMode(c, m) ==
    /\ c \in DOMAIN ById /\ mode[c] = "read" /\ modesOpened < commentVisit.modes
    /\ \/ m = "reply" /\ ById[c].status = "published"
       \/ m \in {"edit", "delete"} /\ ~GoneIn(ById[c]) /\ ById[c].author = "reader"
    /\ mode' = [mode EXCEPT ![c] = m]
    /\ modesOpened' = modesOpened + 1
    /\ UNCHANGED <<commentVisit, comments, lists, listReads, writes, othersActed,
                   unsettled, sends>>

CloseMode(c) ==
    /\ mode[c] # "read"
    /\ mode' = [mode EXCEPT ![c] = "read"]
    /\ UNCHANGED <<commentVisit, comments, lists, listReads, modesOpened, sends, writes,
                   othersActed, unsettled>>

\* each comment has its own hooks for reply, edit, delete and review
InFlight(op, at) == \E w \in WriteSlots : writes[w].at = at /\ writes[w].call.req.op = op

Send(w, at, req) ==
    /\ writes[w] = NoWrite /\ \A v \in 1..w - 1 : writes[v] # NoWrite
    /\ ~InFlight(req.op, at) /\ sends < commentVisit.sends
    /\ sends' = sends + 1
    /\ writes' = [writes EXCEPT ![w] = [NoWrite EXCEPT !.at = at, !.call = Sent(req)]]
    /\ UNCHANGED <<commentVisit, comments, lists, listReads, mode, modesOpened,
                   othersActed, unsettled>>

Write(w) ==
    \/ /\ \E c \in CommentIds : ~Exists(c)
       /\ Send(w, 0, CreateComment(Page, 0))
    \/ \E c \in DOMAIN ById :
          \/ mode[c] = "reply" /\ (\E d \in CommentIds : ~Exists(d))
             /\ Send(w, c, CreateComment(Page, c))
          \/ mode[c] = "edit" /\ ~GoneIn(ById[c])
             /\ Send(w, c, UpdateComment(c, ById[c].text + 1))
          \/ mode[c] = "delete" /\ ~GoneIn(ById[c]) /\ Send(w, c, DeleteComment(c))
          \/ \E next \in {"published", "rejected", "removed"} :
                /\ commentVisit.reader = "staff" /\ ~GoneIn(ById[c])
                /\ next = "published" => ById[c].status # "published"
                /\ next = "rejected" => ById[c].status = "pending"
                /\ next = "removed" => ById[c].status = "published"
                /\ Send(w, c, StaffReviewComment(c, next))

----------------------------------------------------------------------------
\* the server.  Staff are published at once, others by the settings and their
\* record as they are at that moment (initial_status)
InitialStatus(author) ==
    IF author = "reader" /\ commentVisit.reader = "staff"
    THEN {"published"} ELSE {"pending", "published"}

Posted(author, parent, status) ==
    LET c == CHOOSE d \in CommentIds : ~Exists(d) /\ \A e \in 1..d - 1 : Exists(e) IN
    [comments EXCEPT ![c] =
        [status |-> status, parent |-> parent, author |-> author, text |-> 1]]
Blanked(c) == [comments EXCEPT ![c].status = "removed", ![c].text = 0]

Answer(w, call) == writes' = [writes EXCEPT ![w].call = call]

ServeCreate(w) ==
    LET call == writes[w].call
        parent == call.req.path[2] IN
    /\ call.stage = "sent" /\ call.req.op = "CreateComment"
    /\ \/ /\ parent # 0 => comments[parent].status = "published"
          /\ \E c \in CommentIds : ~Exists(c)
          /\ \E status \in InitialStatus("reader") :
                comments' = Posted("reader", parent, status)
          /\ \/ Answer(w, Succeeds(call, 0)) /\ UNCHANGED unsettled
             \/ Answer(w, Fails(call)) /\ unsettled' = TRUE
       \/ Answer(w, Fails(call)) /\ UNCHANGED <<comments, unsettled>>
    /\ UNCHANGED <<commentVisit, lists, listReads, mode, modesOpened, sends, othersActed>>

\* an edit reads the comment, refuses one that was decided against, and saves
\* its own status and text over whatever is there by then
ReadForEdit(w) ==
    LET call == writes[w].call
        c == call.req.path[1] IN
    /\ call.stage = "sent" /\ call.req.op = "UpdateComment" /\ writes[w].read = NoComment
    /\ IF comments[c].status \in {"pending", "published"}
       THEN writes' = [writes EXCEPT ![w].read = comments[c]]
       ELSE Answer(w, Fails(call))
    /\ UNCHANGED <<commentVisit, comments, lists, listReads, mode, modesOpened, sends,
                   othersActed, unsettled>>

SaveEdit(w) ==
    LET call == writes[w].call
        c == call.req.path[1] IN
    /\ call.stage = "sent" /\ call.req.op = "UpdateComment" /\ writes[w].read # NoComment
    /\ \E status \in InitialStatus("reader") :
          comments' = [comments EXCEPT ![c].status = status, ![c].text = call.req.body]
    /\ \/ Answer(w, Succeeds(call, 0)) /\ UNCHANGED unsettled
       \/ Answer(w, Fails(call)) /\ unsettled' = TRUE
    /\ UNCHANGED <<commentVisit, lists, listReads, mode, modesOpened, sends, othersActed>>

ServeDecision(w) ==
    LET call == writes[w].call
        c == call.req.path[1] IN
    /\ call.stage = "sent" /\ call.req.op \in {"DeleteComment", "StaffReviewComment"}
    /\ comments' = IF call.req.op = "DeleteComment" THEN Blanked(c)
                   ELSE [comments EXCEPT ![c].status = call.req.body]
    /\ \/ Answer(w, Succeeds(call, 0)) /\ UNCHANGED unsettled
       \/ Answer(w, Fails(call)) /\ unsettled' = TRUE
    /\ UNCHANGED <<commentVisit, lists, listReads, mode, modesOpened, sends, othersActed>>

\* other readers reply or delete, other staff decide
OthersAct ==
    /\ othersActed < commentVisit.others
    /\ othersActed' = othersActed + 1 /\ unsettled' = TRUE
    /\ \/ \E c \in CommentIds, status \in {"pending", "published"} :
             /\ comments[c].status = "published" /\ \E d \in CommentIds : ~Exists(d)
             /\ comments' = Posted("other", c, status)
       \/ \E c \in CommentIds : comments[c].author = "other" /\ comments' = Blanked(c)
       \/ \E c \in CommentIds, status \in {"published", "rejected", "removed"} :
             /\ Exists(c) /\ status # comments[c].status
             /\ comments' = [comments EXCEPT ![c].status = status]
    /\ UNCHANGED <<commentVisit, lists, listReads, mode, modesOpened, sends, writes>>

----------------------------------------------------------------------------
\* use-refresh-comments.ts: every query under /api/v1/comments is read again; a
\* read that was under way is dropped, and who waited for it goes on
RefreshComments(w) ==
    /\ listReads' = [l \in Lists |-> ListRead("sent", <<>>)]
    /\ writes' = [v \in WriteSlots |->
          IF v = w THEN [writes[w] EXCEPT !.call.stage = "refreshing", !.waits = Lists]
          ELSE [writes[v] EXCEPT !.waits = {}]]

\* a refusal stays on the form, with what was typed
WriteAnswered(w) ==
    /\ writes[w].call.stage = "answered"
    /\ IF writes[w].call.ok THEN RefreshComments(w)
       ELSE writes' = [writes EXCEPT ![w] = NoWrite] /\ UNCHANGED listReads
    /\ UNCHANGED <<commentVisit, comments, lists, mode, modesOpened, sends, othersActed,
                   unsettled>>

\* the server takes the snapshot a list is answered with; it arrives later, over
\* what has been written since, or not at all
ServeList(l) ==
    /\ listReads[l].stage = "sent"
    /\ listReads' = [listReads EXCEPT ![l] = ListRead("answered", AnswerOf(l))]
    /\ UNCHANGED <<commentVisit, comments, lists, mode, modesOpened, sends, writes,
                   othersActed, unsettled>>

ListReread(l) ==
    /\ listReads[l].stage = "answered"
    /\ \/ /\ lists' = [lists EXCEPT ![l] = listReads[l].data] /\ UNCHANGED unsettled
          /\ mode' = [c \in CommentIds |->
                IF StaysMounted(c, ById, ByIdOf(lists')) THEN mode[c] ELSE "read"]
       \/ UNCHANGED <<lists, mode>> /\ unsettled' = TRUE
    /\ listReads' = [listReads EXCEPT ![l] = Unread]
    /\ writes' = [w \in WriteSlots |-> [writes[w] EXCEPT !.waits = @ \ {l}]]
    /\ UNCHANGED <<commentVisit, comments, modesOpened, sends, othersActed>>

\* the promise resolves: a reply or an edit closes its form; a delete leaves
\* its question up, over the placeholder or on a comment that is gone
WriteDone(w) ==
    /\ writes[w].call.stage = "refreshing" /\ writes[w].waits = {}
    /\ LET c == writes[w].at IN
       mode' = IF c # 0 /\ writes[w].call.req.op \in {"CreateComment", "UpdateComment"}
               THEN [mode EXCEPT ![c] = "read"] ELSE mode
    /\ writes' = [writes EXCEPT ![w] = NoWrite]
    /\ UNCHANGED <<commentVisit, comments, lists, listReads, modesOpened, sends,
                   othersActed, unsettled>>

WriteSteps(w) ==
    \/ ServeCreate(w) \/ ReadForEdit(w) \/ SaveEdit(w) \/ ServeDecision(w)
    \/ WriteAnswered(w) \/ WriteDone(w)
ListSteps == \E l \in Lists : ServeList(l) \/ ListReread(l)
CommentReader ==
    \/ \E c \in CommentIds, m \in {"reply", "edit", "delete"} : OpenMode(c, m)
    \/ \E c \in CommentIds : CloseMode(c)
    \/ \E w \in WriteSlots : Write(w)
    \/ OthersAct
CommentNext == CommentReader \/ ListSteps \/ \E w \in WriteSlots : WriteSteps(w)

\* requests are answered in the end and their continuations run
CommentFairness ==
    /\ WF_commentVars(ListSteps)
    /\ \A w \in WriteSlots : WF_commentVars(WriteSteps(w))
CommentSpec == CommentInit /\ [][CommentNext]_commentVars /\ CommentFairness

----------------------------------------------------------------------------
CommentTypeOK ==
    /\ comments \in [CommentIds -> [status : Statuses, parent : 0..MaxComments,
                                    author : {"none", "reader", "other"}, text : Nat]]
    /\ DOMAIN lists = Lists
    /\ \A l \in Lists : DOMAIN lists[l] \subseteq CommentIds
    /\ \A l \in Lists : /\ listReads[l].stage \in {"idle", "sent", "answered"}
                        /\ DOMAIN listReads[l].data \subseteq CommentIds
    /\ mode \in [CommentIds -> {"read", "reply", "edit", "delete"}]

\* The lists come from different moments, and a comment can be in several or
\* have its parent in none: the tree still holds each of them exactly once and
\* reaches it from the top (build-tree.ts).
TreeHoldsEveryComment ==
    LET tree == BuildTree(ById)
        below[n \in Nat] == IF n = 0 THEN tree[0]
                            ELSE below[n - 1] \cup UNION {tree[c] : c \in below[n - 1]} IN
    /\ below[MaxComments] = UNION {DOMAIN lists[l] : l \in Lists}
    /\ \A p, q \in DOMAIN tree : p # q => tree[p] \cap tree[q] = {}

\* no write is under way, and no list is being read again
CommentSettled ==
    /\ \A w \in WriteSlots : writes[w] = NoWrite
    /\ \A l \in Lists : listReads[l] = Unread

\* When the reader's writes have settled every list says what the server says:
\* one write changes the thread, the author's own list and the queue at once,
\* and a second write drops the re-read the first was waiting for
\* (use-refresh-comments.ts) - unless others acted or an answer was lost.
ThreadIsCurrent ==
    CommentSettled /\ ~unsettled => \A l \in Lists : lists[l] = AnswerOf(l)
=============================================================================
