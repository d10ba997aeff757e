----------------------------- MODULE Newsletter -----------------------------
(* The mailing list (features/newsletter, apps/newsletter): the footer form   *)
(* asks for a confirmation link, and the list changes when somebody presses   *)
(* the button of a page a mailed link opens.  Anyone may fill in the form for *)
(* one's address; mails wait in the task queue, links are opened in any order *)
(* and in several tabs, and answers are lost and asked for again.  The model  *)
(* follows one address.                                                       *)
EXTENDS ApiClient, FiniteSets

CONSTANTS
    TOPICS,
    LinkIds,     \* bound: mails sent
    NewsTabs,    \* bound: pages of mailed links opened
    NewsVisits   \* bound: how often the form is sent, by the reader (asks) or a
                 \* stranger (strangers), and how often staff delete the row (staff)

ASSUME NewsAssumption ==
    /\ TOPICS # {} /\ LinkIds \subseteq Nat \ {0} /\ IsFiniteSet(LinkIds)
    /\ NewsTabs \subseteq Nat
    /\ \A v \in NewsVisits : {v.asks, v.strangers, v.staff} \subseteq Nat

VARIABLES
    newsVisit,   \* what is left of the visit's bounds
    subscribing, \* the subscribe hook
    asked,       \* the form has been replaced by "Check your inbox"
    subscriber,  \* server: the address's row
    newsTasks,   \* server: mails waiting in the queue
    links,       \* the links mailed so far
    newsTabs,    \* the pages of mailed links
    mayReturn    \* history: since an unsubscription was stored with no
                 \* confirmation on its way, a confirmation was pressed

newsVars == <<newsVisit, subscribing, asked, subscriber, newsTasks, links, newsTabs,
              mayReturn>>

NoRow == [pk |-> 0, status |-> "none", topics |-> {}]
NoLink == [kind |-> "none", pk |-> 0, topics |-> {}, expired |-> FALSE, pressed |-> FALSE]
ClosedTab == [link |-> 0, call |-> NoCall, done |-> FALSE]

NewsInit ==
    /\ newsVisit \in NewsVisits
    /\ subscribing = NoCall /\ asked = FALSE
    /\ subscriber = NoRow /\ newsTasks = {}
    /\ links = [l \in LinkIds |-> NoLink]
    /\ newsTabs = [t \in NewsTabs |-> ClosedTab]
    /\ mayReturn = TRUE

SpendNews(kind) ==
    /\ newsVisit[kind] > 0
    /\ newsVisit' = [newsVisit EXCEPT ![kind] = @ - 1]

----------------------------------------------------------------------------
\* newsletter-signup.tsx
AskForLink ==
    /\ ~asked /\ ~Pending(subscribing) /\ SpendNews("asks")
    /\ \E picked \in SUBSET TOPICS \ {{}} : subscribing' = Sent(SubscribeNewsletter(picked))
    /\ UNCHANGED <<asked, subscriber, newsTasks, links, newsTabs, mayReturn>>

\* services.py subscribe: an address on the list keeps its topics until its
\* owner confirms the new ones
RowAtOnce(row, topics) ==
    [row EXCEPT !.status = IF @ = "active" THEN @ ELSE "pending", !.topics = topics]
RowBack(row, topics) ==
    [row EXCEPT !.status = IF @ = "unsubscribed" THEN "active" ELSE @, !.topics = topics]
RowAfter(row, topics) ==
    IF row.status = "active" THEN row
    ELSE [row EXCEPT !.status = "pending", !.topics = topics]

\* a confirmation is mailed either way; a row that staff deleted comes back as another
Subscribed(topics) ==
    LET row == IF subscriber.pk = 0
               THEN [pk |-> 1 + Cardinality({l \in LinkIds : links[l].kind # "none"}),
                     status |-> "pending", topics |-> topics]
               ELSE subscriber IN
    /\ subscriber' = RowAfter(row, topics)
    /\ newsTasks' = newsTasks \cup {[kind |-> "confirm", pk |-> row.pk, topics |-> topics]}

ServeSubscribe ==
    /\ subscribing.stage = "sent"
    /\ \/ /\ Subscribed(subscribing.req.body)
          /\ \E arrives \in BOOLEAN :
                subscribing' = IF arrives THEN Succeeds(subscribing, 0) ELSE Fails(subscribing)
       \/ subscribing' = Fails(subscribing) /\ UNCHANGED <<subscriber, newsTasks>>
    /\ UNCHANGED <<newsVisit, asked, links, newsTabs, mayReturn>>

SubscribeAnswered ==
    /\ subscribing.stage = "answered"
    /\ asked' = (asked \/ subscribing.ok) /\ subscribing' = NoCall
    /\ UNCHANGED <<newsVisit, subscriber, newsTasks, links, newsTabs, mayReturn>>

StrangerSubscribes ==
    /\ SpendNews("strangers")
    /\ \E topics \in SUBSET TOPICS \ {{}} : Subscribed(topics)
    /\ UNCHANGED <<subscribing, asked, links, newsTabs, mayReturn>>

\* the task queue: the mail is written from the row as it is by then, and a row
\* deleted meanwhile makes the task fail
SendNewsMail ==
    \E task \in newsTasks, l \in LinkIds :
        /\ links[l].kind = "none" /\ \A k \in LinkIds : k < l => links[k].kind # "none"
        /\ newsTasks' = newsTasks \ {task}
        /\ links' = IF task.pk # subscriber.pk THEN links
                    ELSE [links EXCEPT ![l] =
                             [NoLink EXCEPT !.pk = task.pk, !.topics = task.topics,
                                 !.kind = IF task.kind = "confirm" THEN "confirm"
                                                                   ELSE "unsubscribe"]]
        /\ UNCHANGED <<newsVisit, subscribing, asked, subscriber, newsTabs, mayReturn>>

----------------------------------------------------------------------------
\* newsletter-link.tsx: opening a link - by its owner or by a mail scanner -
\* asks the server nothing; the button does
OpenLink(t, l) ==
    /\ newsTabs[t] = ClosedTab /\ \A u \in NewsTabs : u < t => newsTabs[u] # ClosedTab
    /\ links[l].kind # "none"
    /\ newsTabs' = [newsTabs EXCEPT ![t].link = l]
    /\ UNCHANGED <<newsVisit, subscribing, asked, subscriber, newsTasks, links,
                   mayReturn>>

PressLink(t) ==
    LET tab == newsTabs[t]
        link == links[tab.link] IN
    /\ tab.link # 0 /\ ~tab.done /\ ~Pending(tab.call)
    /\ newsTabs' = [newsTabs EXCEPT ![t].call =
          Sent(IF link.kind = "confirm" THEN ConfirmNewsletter(tab.link)
                                        ELSE UnsubscribeNewsletter(tab.link))]
    /\ links' = [links EXCEPT ![tab.link].pressed = TRUE]
    /\ mayReturn' = (mayReturn \/ link.kind = "confirm")
    /\ UNCHANGED <<newsVisit, subscribing, asked, subscriber, newsTasks>>

ConfirmUnderWay ==
    \E t \in NewsTabs : newsTabs[t].call.stage = "sent"
                        /\ newsTabs[t].call.req.op = "ConfirmNewsletter"

\* services.py confirm and unsubscribe, under the row's lock
Confirmed(link) ==
    /\ subscriber' = [subscriber EXCEPT !.status = "active", !.topics = link.topics]
    /\ newsTasks' = IF subscriber.status = "active" THEN newsTasks
                    ELSE newsTasks \cup {[kind |-> "welcome", pk |-> link.pk, topics |-> {}]}
    /\ UNCHANGED mayReturn

Unsubscribed ==
    /\ subscriber' = [subscriber EXCEPT !.status = "unsubscribed"]
    /\ mayReturn' = ConfirmUnderWay
    /\ UNCHANGED newsTasks

ServeLink(t) ==
    LET call == newsTabs[t].call
        link == links[newsTabs[t].link] IN
    /\ call.stage = "sent"
    /\ \/ /\ link.pk = subscriber.pk /\ ~link.expired
          /\ IF link.kind = "confirm" THEN Confirmed(link) ELSE Unsubscribed
          /\ \E arrives \in BOOLEAN :
                newsTabs' = [newsTabs EXCEPT ![t].call =
                                IF arrives THEN Succeeds(call, 0) ELSE Fails(call)]
       \/ /\ newsTabs' = [newsTabs EXCEPT ![t].call = Fails(call)]
          /\ UNCHANGED <<subscriber, newsTasks, mayReturn>>
    /\ UNCHANGED <<newsVisit, subscribing, asked, links>>

LinkAnswered(t) ==
    LET call == newsTabs[t].call IN
    /\ call.stage = "answered"
    /\ newsTabs' = [newsTabs EXCEPT ![t].call = NoCall, ![t].done = call.ok]
    /\ UNCHANGED <<newsVisit, subscribing, asked, subscriber, newsTasks, links,
                   mayReturn>>

\* a confirmation link lives seven days, the others for good
ExpireLink(l) ==
    /\ links[l].kind = "confirm" /\ ~links[l].expired
    /\ links' = [links EXCEPT ![l].expired = TRUE]
    /\ UNCHANGED <<newsVisit, subscribing, asked, subscriber, newsTasks, newsTabs,
                   mayReturn>>

StaffDeleteRow ==
    /\ subscriber.pk # 0 /\ SpendNews("staff")
    /\ subscriber' = NoRow
    /\ UNCHANGED <<subscribing, asked, newsTasks, links, newsTabs, mayReturn>>

NewsTabSteps(t) == ServeLink(t) \/ LinkAnswered(t)
SignupSteps == ServeSubscribe \/ SubscribeAnswered
NewsReader ==
    \/ AskForLink
    \/ \E t \in NewsTabs : PressLink(t) \/ \E l \in LinkIds : OpenLink(t, l)
NewsNext ==
    \/ SignupSteps \/ NewsReader \/ StrangerSubscribes \/ StaffDeleteRow \/ SendNewsMail
    \/ \E t \in NewsTabs : NewsTabSteps(t)
    \/ \E l \in LinkIds : ExpireLink(l)

\* requests are answered; nobody owes a press, and a mail may never come
NewsFairness ==
    /\ WF_newsVars(SignupSteps)
    /\ \A t \in NewsTabs : WF_newsVars(NewsTabSteps(t))
NewsSpec == NewsInit /\ [][NewsNext]_newsVars /\ NewsFairness

----------------------------------------------------------------------------
NewsTypeOK ==
    /\ asked \in BOOLEAN
    /\ subscriber.status \in {"none", "pending", "active", "unsubscribed"}
    /\ subscriber.topics \subseteq TOPICS
    /\ \A l \in LinkIds : /\ links[l].kind \in {"none", "confirm", "unsubscribe"}
                          /\ links[l].topics \subseteq TOPICS
    /\ \A t \in NewsTabs : newsTabs[t].link \in LinkIds \cup {0}

\* Double opt-in: an address is on the list, with these topics, only because a
\* link mailed to that row for exactly these topics was opened and its button
\* pressed; a stranger's request changes nothing for whoever is on the list
\* (tokens.py, newsletter-link.tsx:35).
ConfirmedByItsOwner ==
    subscriber.status = "active" =>
        \E l \in LinkIds : /\ links[l].kind = "confirm" /\ links[l].pressed
                           /\ links[l].pk = subscriber.pk
                           /\ links[l].topics = subscriber.topics

\* "This address is unsubscribed and won't get any more newsletter email": an
\* unsubscription holds against late subscribe requests, mails still queued and
\* retried presses, until somebody presses a confirmation after it.
UnsubscribedStays == mayReturn \/ subscriber.status # "active"

\* the form, or a link's page, is not waiting for its answer
SignupSettled == ~Pending(subscribing)
LinkSettled(t) == ~Pending(newsTabs[t].call)
=============================================================================
