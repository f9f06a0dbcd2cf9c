-------------------------- MODULE NotificationFeed --------------------------
(***************************************************************************)
(* Those who read the notifications of notifications-service: the bell and *)
(* the popup in the header of the web client, and a reader of the HTTP     *)
(* interface who turns the pages of GET /notifications.  The service is    *)
(* module Notifications without its failures, and without unsubscribing    *)
(* and deleting accounts, which leave the table and the counters alone.    *)
(*                                                                         *)
(* Every request has a slot: the client awaits its answer while the user   *)
(* and the service go on, and two answers may arrive in either order.  One *)
(* load of the page is modelled.  The token lies in the browser's local    *)
(* storage, which the tabs share; isAuthenticated is state of this tab.    *)
(***************************************************************************)
EXTENDS Naturals, Sequences, FiniteSets

CONSTANTS
    Users, Components,
    Catalogue,   \* components that have a row in table components
    Misnamed,    \* component ids that are no integer
    Nobody,      \* no token in the storage
    PageSize,    \* rows of a page (the popup asks for 10)
    Popups,      \* slots for the list requests of the bell
    Readers,     \* slots for readers of all pages
    Closings,    \* slots for closed popups whose marks are under way
    Mishaps,     \* which of "request" and "tab" may happen
    MaxEvents    \* bound: price changes published

ASSUME NotificationFeedAssumption ==
    /\ Catalogue \subseteq Components
    /\ Misnamed \subseteq Components \ Catalogue
    /\ Nobody \notin Users
    /\ PageSize \in Nat \ {0}
    /\ Mishaps \subseteq {"request", "tab"}
    /\ Popups \cap Readers = {}
    /\ IsFiniteSet(Closings)
    /\ MaxEvents \in Nat

VARIABLES
    accounts, subs, published, delivered, taken, connected, pc, current, todo,
    uncounted, notifs, unread, marking, eligible, dropped,
    token,       \* whose token local storage holds
    signedIn,    \* isAuthenticated
    open,        \* showNotifications
    list,        \* notifications: what the popup shows
    lists,       \* requests of GET /notifications
    closings,    \* marks under way: read requests sent, and updated
    seen,        \* history: rows on the screen while their owner had the
                 \* session
    read,        \* rows a reader has got so far
    atStart      \* history: rows of the reader whose component the
                 \* catalogue has, when the reader began

Service == INSTANCE Notifications
    WITH Faults <- {}, MaxRequests <- Cardinality(Closings) * PageSize

service  == <<accounts, subs, published, delivered, taken, connected, pc,
              current, todo, uncounted, notifs, unread, marking, eligible,
              dropped>>
session  == <<token, signedIn>>
bell     == <<open, list, closings, seen>>
pages    == <<read, atStart>>
vars == <<service, session, bell, lists, pages>>

Slots == Popups \cup Readers
IdleList == [stage |-> "idle", user |-> Nobody, page |-> 1, items |-> {}]
NoMarks  == [user |-> Nobody, sent |-> {}, updated |-> {}]

AskList(u, p) == [IdleList EXCEPT !.stage = "asked", !.user = u, !.page = p]

Ids(items) == {i.id : i \in items}
OnScreen(items, u) == {n \in Ids(items) : notifs[n].user = u}

Init ==
    /\ Service!Init
    /\ token \in Users \cup {Nobody}
    /\ signedIn = (token # Nobody)
    /\ open = FALSE
    /\ list = {}
    /\ lists = [s \in Slots |-> IdleList]
    /\ closings = [k \in Closings |-> NoMarks]
    /\ seen = {}
    /\ read = [r \in Readers |-> {}]
    /\ atStart = [r \in Readers |-> {}]

-----------------------------------------------------------------------------
(* The queries of ListNotifications.  Rows are created one after the other *)
(* by the consumer, so that created_at orders them by number.  A page is   *)
(* the set of its rows: which rows it has depends on the order, what is    *)
(* asked of them does not.                                                 *)
(*                                                                         *)
(* component_id of a notification is text and refers to no other table: it *)
(* is what the price list's row or the shop's page named.  Nothing in the  *)
(* services writes table components, so that the catalogue stays the same. *)

Row(n) == [id |-> n, isRead |-> notifs[n].isRead]
ComponentOf(n) == published[notifs[n].event]

\* JOIN components c ON c.id = n.component_id::integer WHERE n.user_id = u
RowsOf(u) == {n \in DOMAIN notifs : /\ notifs[n].user = u
                                   /\ ComponentOf(n) \in Catalogue}

\* The cast is made for each row of the user, since all are sorted.
CastFails(u) == \E n \in DOMAIN notifs : /\ notifs[n].user = u
                                         /\ ComponentOf(n) \in Misnamed
Refused(u) == u = Nobody \/ CastFails(u)

\* ORDER BY created_at DESC
UnreadThenNewest(m, n) ==
    IF notifs[m].isRead = notifs[n].isRead THEN m > n ELSE ~notifs[m].isRead
OrderedBefore(m, n) == m > n

Ahead(u, n) == {m \in RowsOf(u) : OrderedBefore(m, n)}

\* LIMIT PageSize OFFSET (page - 1) * PageSize
PageRows(u, p) ==
    {n \in RowsOf(u) : /\ (p - 1) * PageSize <= Cardinality(Ahead(u, n))
                       /\ Cardinality(Ahead(u, n)) < p * PageSize}
Page(u, p) == {Row(n) : n \in PageRows(u, p)}

SelectPage(s) ==
    /\ lists[s].stage = "asked"
    /\ ~Refused(lists[s].user)
    /\ lists' = [lists EXCEPT ![s].stage = "answered",
                              ![s].items = Page(lists[s].user, lists[s].page)]
    /\ UNCHANGED <<service, session, bell, pages>>

-----------------------------------------------------------------------------
(* The session. *)

\* The overlay of the open popup covers the buttons of the header.
LogIn(u) ==
    /\ ~signedIn /\ ~open
    /\ token' = u
    /\ signedIn' = TRUE
    /\ UNCHANGED <<service, bell, lists, pages>>

LogOut ==
    /\ signedIn /\ ~open
    /\ token' = Nobody
    /\ signedIn' = FALSE
    /\ UNCHANGED <<service, bell, lists, pages>>

\* Another tab logs in or out.
OtherTab(v) ==
    /\ "tab" \in Mishaps
    /\ token' = v
    /\ seen' = IF open THEN seen \cup OnScreen(list, v) ELSE seen
    /\ UNCHANGED <<service, signedIn, open, list, closings, lists, pages>>

-----------------------------------------------------------------------------
(* The popup. *)

\* handleNotificationClick: the popup opens with the list it had.
ClickBell(s) ==
    /\ signedIn /\ ~open
    /\ lists[s].stage = "idle"
    /\ open' = TRUE
    /\ seen' = seen \cup OnScreen(list, token)
    /\ lists' = [lists EXCEPT ![s] = AskList(token, 1)]
    /\ UNCHANGED <<service, session, list, closings, pages>>

Show(items) ==
    /\ list' = items
    /\ seen' = IF open THEN seen \cup OnScreen(items, token) ELSE seen

ShowList(s) ==
    /\ lists[s].stage = "answered"
    /\ Show(lists[s].items)
    /\ lists' = [lists EXCEPT ![s] = IdleList]
    /\ UNCHANGED <<service, session, open, closings, pages>>

\* No answer leaves the list as it is; an error's JSON has no items, and the
\* status is not looked at.
ListFails(s) ==
    /\ lists[s].stage = "asked"
    /\ \/ /\ Refused(lists[s].user) \/ "request" \in Mishaps
          /\ Show({})
       \/ /\ "request" \in Mishaps
          /\ UNCHANGED <<list, seen>>
    /\ lists' = [lists EXCEPT ![s] = IdleList]
    /\ UNCHANGED <<service, session, open, closings, pages>>

\* handleNotificationsClose: a request for each unread one, all at once.
ToMark == {i.id : i \in {j \in list : ~j.isRead}}
CloseBell ==
    /\ open
    /\ open' = FALSE
    /\ IF ToMark = {} \/ token = Nobody THEN UNCHANGED closings
       ELSE \E k \in Closings :
               /\ closings[k].sent \cup closings[k].updated = {}
               /\ closings' = [closings EXCEPT ![k] =
                     [user |-> token, sent |-> ToMark, updated |-> {}]]
    /\ UNCHANGED <<service, session, list, seen, lists, pages>>

MarkAsRead(k, n) ==
    /\ n \in closings[k].sent
    /\ Service!MarkAsRead(closings[k].user, n)
    /\ closings' = [closings EXCEPT ![k].sent = @ \ {n},
                                    ![k].updated = @ \cup {n}]
    /\ UNCHANGED <<session, open, list, seen, lists, pages>>

ResetUnread(k, n) ==
    /\ n \in closings[k].updated
    /\ Service!ResetUnread(closings[k].user)
    /\ closings' = [closings EXCEPT ![k].updated = @ \ {n}]
    /\ UNCHANGED <<session, open, list, seen, lists, pages>>

\* The error is caught for each request, so that Promise.all goes on.
MarkFails(k, n) ==
    /\ "request" \in Mishaps
    /\ n \in closings[k].sent
    /\ closings' = [closings EXCEPT ![k].sent = @ \ {n}]
    /\ UNCHANGED <<service, session, open, list, seen, lists, pages>>

-----------------------------------------------------------------------------
(* A reader of the interface: page after page until one is not full.  Who  *)
(* is refused a page asks on, and gets none.                               *)

StartReading(r, u) ==
    /\ lists[r] = IdleList
    /\ read[r] = {}
    /\ lists' = [lists EXCEPT ![r] = AskList(u, 1)]
    /\ atStart' = [atStart EXCEPT ![r] = RowsOf(u)]
    /\ UNCHANGED <<service, session, bell, read>>

TurnPage(r) ==
    /\ lists[r].stage = "answered"
    /\ read' = [read EXCEPT ![r] = @ \cup Ids(lists[r].items)]
    /\ lists' = [lists EXCEPT ![r] =
          IF Cardinality(@.items) < PageSize THEN [@ EXCEPT !.stage = "done"]
          ELSE AskList(@.user, @.page + 1)]
    /\ UNCHANGED <<service, session, bell, atStart>>

AskAgain(r) ==
    /\ "request" \in Mishaps
    /\ lists[r].stage = "answered"
    /\ lists' = [lists EXCEPT ![r] = AskList(@.user, @.page)]
    /\ UNCHANGED <<service, session, bell, pages>>

-----------------------------------------------------------------------------
ServiceStep ==
    /\ \/ \E c \in Components : Service!PublishPriceChanged(c)
       \/ Service!Deliver
       \/ Service!ConsumerStep
       \/ \E u \in Users, c \in Components : Service!Subscribe(u, c)
    /\ UNCHANGED <<session, bell, lists, pages>>

ListStep ==
    \/ \E s \in Slots : SelectPage(s)
    \/ \E s \in Popups : ShowList(s) \/ ListFails(s)
    \/ \E r \in Readers :
          TurnPage(r) \/ AskAgain(r) \/ \E u \in Users : StartReading(r, u)

UserStep ==
    \/ \E u \in Users : LogIn(u)
    \/ LogOut
    \/ \E v \in Users \cup {Nobody} : OtherTab(v)
    \/ \E s \in Popups : ClickBell(s)
    \/ CloseBell

MarkStep ==
    \E k \in Closings, n \in DOMAIN notifs :
        MarkAsRead(k, n) \/ ResetUnread(k, n) \/ MarkFails(k, n)

Next ==
    \/ ServiceStep
    \/ ListStep
    \/ UserStep
    \/ MarkStep

Spec == Init /\ [][Next]_vars

-----------------------------------------------------------------------------
(* Properties. *)

Item == [id : Nat, isRead : BOOLEAN]
Stages == {"idle", "asked", "answered", "done"}
ListRequest == [stage : Stages, user : Users \cup {Nobody}, page : Nat \ {0},
                items : SUBSET Item]
Marks == [user : Users \cup {Nobody}, sent : SUBSET Nat,
          updated : SUBSET Nat]

TypeOK ==
    /\ Service!TypeOK
    /\ token \in Users \cup {Nobody}
    /\ signedIn \in BOOLEAN
    /\ open \in BOOLEAN
    /\ list \subseteq Item
    /\ lists \in [Slots -> ListRequest]
    /\ closings \in [Closings -> Marks]
    /\ seen \subseteq DOMAIN notifs
    /\ read \in [Readers -> SUBSET Nat]
    /\ atStart \in [Readers -> SUBSET Nat]

(***************************************************************************)
(* No price change is lost to its reader: a notification is marked read    *)
(* only after the popup had it on the screen in a session of its owner,    *)
(* however the answers of several openings, the closings, the sessions of  *)
(* other tabs and the requests that mark rows fall together (Header.tsx,   *)
(* MarkAsRead).                                                            *)
(***************************************************************************)
ReadOnlyIfSeen == \A n \in DOMAIN notifs : notifs[n].isRead => n \in seen

(***************************************************************************)
(* GET /notifications returns all notifications, with paging               *)
(* (configs/config.yaml): who turns the pages until one is not full has    *)
(* got every row there was at the start whose component the catalogue has, *)
(* although rows are inserted and marked read between the pages            *)
(* (ListNotifications).  The other rows are on no page: the JOIN leaves    *)
(* out those of unknown components, and who has one whose component id is  *)
(* no integer gets no page and never is done.                              *)
(***************************************************************************)
PagingMissesNone ==
    \A r \in Readers : lists[r].stage = "done" => atStart[r] \subseteq read[r]
=============================================================================
