---------------------------- MODULE FeedProofs ----------------------------
(***************************************************************************)
(* Theorems about NotificationFeed, for any users, components, slots and   *)
(* page size.  What the service does to its own state is taken from the    *)
(* lemmas of NotificationsProofs, instantiated as NotificationFeed         *)
(* instantiates Notifications.                                             *)
(***************************************************************************)
EXTENDS NotificationFeed, TLAPS, FiniteSetTheorems, FunctionTheorems,
        SequenceTheorems

About == INSTANCE NotificationsProofs
    WITH Faults <- {}, MaxRequests <- Cardinality(Closings) * PageSize

-----------------------------------------------------------------------------
(* The service as a part of the system. *)

LEMMA ProductType == ASSUME NEW m \in Nat, NEW n \in Nat PROVE m * n \in Nat
OBVIOUS

LEMMA ServiceAssumption == About!NotificationsAssumption
<1>1. Cardinality(Closings) \in Nat
    BY NotificationFeedAssumption, FS_CardinalityType
<1>2. PageSize \in Nat /\ MaxEvents \in Nat
    BY NotificationFeedAssumption
<1>3. Cardinality(Closings) * PageSize \in Nat
    BY <1>1, <1>2, ProductType
<1> QED
    BY <1>2, <1>3 DEF About!NotificationsAssumption

(***************************************************************************)
(* Both instances of Notifications say the same.                           *)
(***************************************************************************)
LEMMA SameService ==
    /\ Service!TypeOK <=> About!TypeOK
    /\ Service!TypeOK' <=> About!TypeOK'
    /\ Service!Next <=> About!Next
    /\ Service!Init <=> About!Init
    /\ UNCHANGED service <=> UNCHANGED About!vars
<1>1. Service!TypeOK <=> About!TypeOK
    BY DEF Service!TypeOK, About!TypeOK, Service!Notification,
           About!Notification, Service!Events, About!Events,
           Service!PcState, About!PcState
<1>2. Service!TypeOK' <=> About!TypeOK'
    BY DEF Service!TypeOK, About!TypeOK, Service!Notification,
           About!Notification, Service!Events, About!Events,
           Service!PcState, About!PcState
<1>3. Service!Next <=> About!Next
    BY DEF Service!Next, About!Next, Service!vars, About!vars,
           Service!brokerVars, About!brokerVars, Service!consumerVars,
           About!consumerVars, Service!history, About!history,
           Service!ConsumerStep, About!ConsumerStep, Service!Request,
           About!Request, Service!PublishPriceChanged,
           About!PublishPriceChanged, Service!Deliver, About!Deliver,
           Service!ConnectionLost, About!ConnectionLost,
           Service!TakeMessage, About!TakeMessage, Service!LeaveLoop,
           About!LeaveLoop, Service!LookUpSubscribers,
           About!LookUpSubscribers, Service!LookupError, About!LookupError,
           Service!GetSubscribers, About!GetSubscribers,
           Service!CreateNotification, About!CreateNotification,
           Service!InsertError, About!InsertError, Service!NotificationRow,
           About!NotificationRow, Service!IncrementUnread,
           About!IncrementUnread, Service!IncrError, About!IncrError,
           Service!FinishMessage, About!FinishMessage, Service!Subscribe,
           About!Subscribe, Service!Unsubscribe, About!Unsubscribe,
           Service!MarkAsRead, About!MarkAsRead, Service!RowsMarkedRead,
           About!RowsMarkedRead, Service!ResetUnread, About!ResetUnread,
           Service!CounterAfterReset, About!CounterAfterReset,
           Service!DeleteUser, About!DeleteUser, Service!Crash,
           About!Crash, Service!GoneWithTheProcess,
           About!GoneWithTheProcess, Service!Restart, About!Restart,
           Service!Serving, About!Serving, Service!LookedUp,
           About!LookedUp, Service!Events, About!Events
<1>4. Service!Init <=> About!Init
    BY DEF Service!Init, About!Init, Service!Events, About!Events
<1>5. UNCHANGED service <=> UNCHANGED About!vars
    BY DEF service, About!vars, About!brokerVars, About!consumerVars,
           About!history
<1> QED
    BY <1>1, <1>2, <1>3, <1>4, <1>5

LEMMA ServiceTypeKept ==
    ASSUME Service!TypeOK, Service!Next \/ UNCHANGED service
    PROVE  Service!TypeOK'
    BY About!TypeStep, ServiceAssumption, SameService

-----------------------------------------------------------------------------
(* The invariant. *)

\* Rows are of events that exist, lists hold rows that exist, marks are sent by a user, and for rows of that
\* user only after the popup showed them; a popup that is open has shown what
\* it holds.
MarksOwned ==
    \A k \in Closings :
        closings[k].sent \cup closings[k].updated # {} => closings[k].user \in Users

MarksSeen ==
    \A k \in Closings : \A n \in closings[k].sent :
        n \in DOMAIN notifs /\ (notifs[n].user = closings[k].user => n \in seen)

ListsExist ==
    /\ Ids(list) \subseteq DOMAIN notifs
    /\ \A s \in Slots : Ids(lists[s].items) \subseteq DOMAIN notifs

EventsExist ==
    \A n \in DOMAIN notifs : notifs[n].event \in DOMAIN published

OpenSeen == open => OnScreen(list, token) \subseteq seen

FeedInv ==
    /\ TypeOK
    /\ EventsExist
    /\ ListsExist
    /\ MarksOwned
    /\ MarksSeen
    /\ OpenSeen
    /\ ReadOnlyIfSeen

LEMMA ServiceMoves ==
    ASSUME FeedInv, [Next]_vars
    PROVE  Service!Next \/ UNCHANGED service
<1>1. CASE ServiceStep
    BY <1>1 DEF ServiceStep, Service!Next, Service!Request
<1>2. CASE ListStep
    BY <1>2
    DEF ListStep, SelectPage, ShowList, ListFails, TurnPage,
        AskAgain, StartReading
<1>4. CASE UserStep
    BY <1>4 DEF UserStep, LogIn, LogOut, OtherTab, ClickBell, CloseBell
<1>5. ASSUME NEW k \in Closings, NEW n \in DOMAIN notifs, MarkAsRead(k, n)
      PROVE  Service!Next
    <2>1. closings[k].user \in Users
        BY <1>5 DEF MarkAsRead, FeedInv, MarksOwned
    <2> QED
        BY <1>5, <2>1 DEF MarkAsRead, Service!Next, Service!Request
<1>6. ASSUME NEW k \in Closings, NEW n \in DOMAIN notifs, ResetUnread(k, n)
      PROVE  Service!Next
    <2>1. closings[k].user \in Users
        BY <1>6 DEF ResetUnread, FeedInv, MarksOwned
    <2> QED
        BY <1>6, <2>1 DEF ResetUnread, Service!Next, Service!Request
<1>7. ASSUME NEW k \in Closings, NEW n \in DOMAIN notifs, MarkFails(k, n)
      PROVE  UNCHANGED service
    BY <1>7 DEF MarkFails
<1>8. CASE UNCHANGED vars
    BY <1>8 DEF vars
<1> QED
    BY <1>1, <1>2, <1>4, <1>5, <1>6, <1>7, <1>8 DEF Next, MarkStep

(***************************************************************************)
(* The table is left as it is, gets a new row of the event in work that is *)
(* not read, or has one row marked by a request that was sent for its      *)
(* user.                                                                   *)
(***************************************************************************)
RowAdded ==
    /\ pc = "notify"
    /\ \E u \in Users :
          notifs' = Append(notifs, Service!NotificationRow(u, current))

RowMarked ==
    \E k \in Closings : \E n \in closings[k].sent :
        notifs' = Service!RowsMarkedRead(closings[k].user, n)

LEMMA TableSteps ==
    ASSUME [Next]_vars
    PROVE  notifs' = notifs \/ RowAdded \/ RowMarked
<1>1. CASE ServiceStep
    <2>1. ASSUME NEW u \in Users, Service!CreateNotification(u)
          PROVE  notifs' = notifs \/ RowAdded
        BY <2>1
        DEF Service!CreateNotification, Service!InsertError, RowAdded
    <2>2. ASSUME NEW u \in Users, Service!IncrementUnread(u)
          PROVE  notifs' = notifs
        BY <2>2 DEF Service!IncrementUnread
    <2>3. ASSUME \/ Service!TakeMessage \/ Service!LeaveLoop
                 \/ Service!LookUpSubscribers \/ Service!FinishMessage
                 \/ \E c \in Components : Service!PublishPriceChanged(c)
                 \/ Service!Deliver
                 \/ \E u \in Users, c \in Components : Service!Subscribe(u, c)
          PROVE  notifs' = notifs
        BY <2>3
        DEF Service!TakeMessage, Service!LeaveLoop, Service!LookUpSubscribers,
            Service!FinishMessage, Service!PublishPriceChanged,
            Service!Deliver, Service!Subscribe
    <2> QED
        BY <1>1, <2>1, <2>2, <2>3 DEF ServiceStep, Service!ConsumerStep
<1>2. CASE ListStep
    BY <1>2
    DEF ListStep, SelectPage, ShowList, ListFails, TurnPage,
        AskAgain, StartReading, service
<1>4. CASE UserStep
    BY <1>4 DEF UserStep, LogIn, LogOut, OtherTab, ClickBell, CloseBell, service
<1>5. CASE MarkStep
    BY <1>5
    DEF MarkStep, MarkAsRead, ResetUnread, MarkFails, RowMarked,
        Service!MarkAsRead, Service!ResetUnread, service
<1>6. CASE UNCHANGED vars
    BY <1>6 DEF vars, service
<1> QED
    BY <1>1, <1>2, <1>4, <1>5, <1>6 DEF Next

LEMMA TableGrows ==
    ASSUME Service!TypeOK, notifs' = notifs \/ RowAdded \/ RowMarked
    PROVE  /\ DOMAIN notifs \subseteq DOMAIN notifs'
           /\ \A i \in DOMAIN notifs :
                 /\ notifs'[i].user = notifs[i].user
                 /\ notifs'[i].event = notifs[i].event
           /\ \A i \in DOMAIN notifs' \ DOMAIN notifs :
                 pc = "notify" /\ notifs'[i].event = current
           /\ \A i \in DOMAIN notifs' : notifs'[i].isRead =>
                 \/ i \in DOMAIN notifs /\ notifs[i].isRead
                 \/ \E k \in Closings :
                       /\ i \in closings[k].sent
                       /\ notifs[i].user = closings[k].user
<1>1. notifs \in Seq(Service!Notification) /\ current \in Nat
    BY DEF Service!TypeOK
<1>2. Len(notifs) \in Nat /\ DOMAIN notifs = 1 .. Len(notifs)
    BY <1>1, LenProperties
<1>3. CASE notifs' = notifs
    BY <1>2, <1>3
<1>4. ASSUME NEW u \in Users,
             notifs' = Append(notifs, Service!NotificationRow(u, current))
      PROVE  /\ DOMAIN notifs' = 1 .. (Len(notifs) + 1)
             /\ \A i \in DOMAIN notifs : notifs'[i] = notifs[i]
             /\ ~notifs'[Len(notifs) + 1].isRead
             /\ notifs'[Len(notifs) + 1].event = current
    <2>1. Service!NotificationRow(u, current) \in Service!Notification
        BY <1>1 DEF Service!NotificationRow, Service!Notification
    <2>2. /\ Len(notifs') = Len(notifs) + 1
          /\ \A i \in 1 .. Len(notifs) : notifs'[i] = notifs[i]
          /\ notifs'[Len(notifs) + 1] = Service!NotificationRow(u, current)
          /\ notifs' \in Seq(Service!Notification)
        BY <1>1, <1>4, <2>1, AppendProperties
    <2>3. DOMAIN notifs' = 1 .. Len(notifs')
        BY <2>2, LenProperties
    <2> QED
        BY <1>2, <2>2, <2>3 DEF Service!NotificationRow
<1>5. CASE RowAdded
    <2>1. /\ pc = "notify"
          /\ \E u \in Users :
                notifs' = Append(notifs, Service!NotificationRow(u, current))
        BY <1>5 DEF RowAdded
    <2>2. /\ DOMAIN notifs' = 1 .. (Len(notifs) + 1)
          /\ \A i \in DOMAIN notifs : notifs'[i] = notifs[i]
          /\ ~notifs'[Len(notifs) + 1].isRead
          /\ notifs'[Len(notifs) + 1].event = current
        BY <1>4, <2>1
    <2>3. ASSUME NEW i \in DOMAIN notifs'
          PROVE  i \in DOMAIN notifs \/ i = Len(notifs) + 1
        BY <1>2, <2>2
    <2>4. DOMAIN notifs \subseteq DOMAIN notifs'
        BY <1>2, <2>2
    <2>5. \A i \in DOMAIN notifs' \ DOMAIN notifs : notifs'[i].event = current
        BY <2>2, <2>3
    <2> QED
        BY <2>1, <2>2, <2>3, <2>4, <2>5
<1>6. ASSUME NEW k \in Closings, NEW n \in closings[k].sent,
             notifs' = Service!RowsMarkedRead(closings[k].user, n)
      PROVE  /\ DOMAIN notifs' = DOMAIN notifs
             /\ \A i \in DOMAIN notifs :
                   /\ notifs'[i].user = notifs[i].user
                   /\ notifs'[i].event = notifs[i].event
                   /\ notifs'[i].isRead =>
                         \/ notifs[i].isRead
                         \/ i = n /\ notifs[i].user = closings[k].user
    <2>1. \A i \in DOMAIN notifs : notifs[i] \in Service!Notification
        BY <1>1, <1>2, ElementOfSeq
    <2>2. DOMAIN notifs' = DOMAIN notifs
        BY <1>6 DEF Service!RowsMarkedRead
    <2>3. ASSUME NEW i \in DOMAIN notifs
          PROVE  notifs'[i] = IF i = n /\ notifs[i].user = closings[k].user
                              THEN [notifs[i] EXCEPT !.isRead = TRUE]
                              ELSE notifs[i]
        BY <1>6 DEF Service!RowsMarkedRead
    <2>4. ASSUME NEW i \in DOMAIN notifs
          PROVE  /\ notifs'[i].user = notifs[i].user
                 /\ notifs'[i].event = notifs[i].event
                 /\ notifs'[i].isRead =>
                       \/ notifs[i].isRead
                       \/ i = n /\ notifs[i].user = closings[k].user
        BY <2>1, <2>3 DEF Service!Notification
    <2> QED
        BY <2>2, <2>4
<1>7. CASE RowMarked
    BY <1>2, <1>6, <1>7 DEF RowMarked
<1> QED
    BY <1>3, <1>5, <1>7

(***************************************************************************)
(* Events are added and never change, so that a row keeps its component;   *)
(* the event in work is one of them.                                       *)
(***************************************************************************)
LEMMA EventsGrow ==
    ASSUME Service!TypeOK, [Next]_vars
    PROVE  /\ DOMAIN published \subseteq DOMAIN published'
           /\ \A e \in DOMAIN published : published'[e] = published[e]
<1>0. published \in Seq(Components)
    BY DEF Service!TypeOK
<1>1. ASSUME NEW c \in Components, Service!PublishPriceChanged(c)
      PROVE  /\ DOMAIN published \subseteq DOMAIN published'
             /\ \A e \in DOMAIN published : published'[e] = published[e]
    BY <1>0, <1>1, AppendProperties DEF Service!PublishPriceChanged
<1>2. CASE ServiceStep
    <2>1. ASSUME Service!Deliver \/ Service!ConsumerStep
                 \/ \E u \in Users, c \in Components : Service!Subscribe(u, c)
          PROVE  published' = published
        BY <2>1
        DEF Service!Deliver, Service!ConsumerStep, Service!TakeMessage,
            Service!LeaveLoop, Service!LookUpSubscribers,
            Service!CreateNotification, Service!IncrementUnread,
            Service!FinishMessage, Service!Subscribe, Service!brokerVars
    <2> QED
        BY <1>1, <1>2, <2>1 DEF ServiceStep
<1>3. CASE ListStep \/ UserStep \/ UNCHANGED vars
    BY <1>3
    DEF ListStep, SelectPage, ShowList, ListFails, TurnPage, AskAgain,
        StartReading, UserStep, LogIn, LogOut, OtherTab, ClickBell, CloseBell,
        vars, service
<1>4. CASE MarkStep
    BY <1>4
    DEF MarkStep, MarkAsRead, ResetUnread, MarkFails, Service!MarkAsRead,
        Service!ResetUnread, Service!brokerVars, service
<1> QED
    BY <1>2, <1>3, <1>4 DEF Next

LEMMA EventInWork ==
    ASSUME Service!TypeOK, pc = "notify"
    PROVE  current \in DOMAIN published
BY DEF Service!TypeOK

-----------------------------------------------------------------------------
(* Types. *)

(***************************************************************************)
(* What a page holds: items of rows of its user.                           *)
(***************************************************************************)
LEMMA RowsFinite ==
    ASSUME Service!TypeOK, NEW u
    PROVE  /\ RowsOf(u) \subseteq DOMAIN notifs
           /\ DOMAIN notifs \subseteq Nat
           /\ IsFiniteSet(RowsOf(u))
           /\ Cardinality(RowsOf(u)) \in Nat
<1>1. notifs \in Seq(Service!Notification)
    BY DEF Service!TypeOK
<1>2. Len(notifs) \in Nat /\ DOMAIN notifs = 1 .. Len(notifs)
    BY <1>1, LenProperties
<1>3. IsFiniteSet(1 .. Len(notifs))
    BY <1>2, FS_Interval
<1>4. RowsOf(u) \in SUBSET (1 .. Len(notifs))
    BY <1>2 DEF RowsOf
<1> QED
    BY <1>2, <1>3, <1>4, FS_Subset, FS_CardinalityType

LEMMA PageType ==
    ASSUME Service!TypeOK, NEW u, NEW p
    PROVE  /\ Page(u, p) \subseteq Item
           /\ Ids(Page(u, p)) = PageRows(u, p)
           /\ PageRows(u, p) \subseteq RowsOf(u)
<1>1. PageRows(u, p) \subseteq RowsOf(u)
    BY DEF PageRows
<1>2. Ids(Page(u, p)) = PageRows(u, p)
    <2>1. \A n : Row(n).id = n
        BY DEF Row
    <2>2. Ids(Page(u, p)) \subseteq PageRows(u, p)
        BY <2>1 DEF Ids, Page
    <2>3. ASSUME NEW n \in PageRows(u, p)
          PROVE  n \in Ids(Page(u, p))
        BY <2>1, <2>3 DEF Ids, Page
    <2> QED
        BY <2>2, <2>3
<1>3. ASSUME NEW n \in PageRows(u, p)
      PROVE  Row(n) \in Item
    <2>1. n \in DOMAIN notifs /\ n \in Nat
        BY <1>1, <1>3, RowsFinite
    <2>2. notifs \in Seq(Service!Notification)
        BY DEF Service!TypeOK
    <2>3. notifs[n] \in Service!Notification
        BY <2>1, <2>2, ElementOfSeq, LenProperties
    <2> QED
        BY <2>1, <2>3 DEF Row, Item, Service!Notification
<1> QED
    BY <1>1, <1>2, <1>3 DEF Page

LEMMA AskListType ==
    ASSUME NEW u \in Users \cup {Nobody}, NEW p \in Nat \ {0}
    PROVE  AskList(u, p) \in ListRequest /\ AskList(u, p).items = {}
    BY DEF AskList, IdleList, ListRequest, Stages, Item

LEMMA IdleType ==
    /\ IdleList \in ListRequest
    /\ IdleList.items = {}
    /\ NoMarks \in Marks
    BY DEF IdleList, NoMarks, ListRequest, Marks, Stages, Item

(***************************************************************************)
(* What is typed besides the service.                                      *)
(***************************************************************************)
ClientTyped ==
    /\ token \in Users \cup {Nobody}
    /\ signedIn \in BOOLEAN /\ open \in BOOLEAN
    /\ list \subseteq Item
    /\ lists \in [Slots -> ListRequest]
    /\ closings \in [Closings -> Marks]
    /\ read \in [Readers -> SUBSET Nat]
    /\ atStart \in [Readers -> SUBSET Nat]

LEMMA TypeParts ==
    /\ TypeOK <=> Service!TypeOK /\ ClientTyped /\ seen \subseteq DOMAIN notifs
    /\ TypeOK' <=> Service!TypeOK' /\ ClientTyped' /\ seen' \subseteq DOMAIN notifs'
    BY DEF TypeOK, ClientTyped

LEMMA ListTyped ==
    ASSUME TypeOK, ListStep
    PROVE  ClientTyped'
<1> USE TypeParts DEF ClientTyped, session, bell, pages
<1>2. ASSUME NEW s \in Slots, SelectPage(s)
      PROVE  ClientTyped'
    <2>1. lists[s] \in ListRequest
        OBVIOUS
    <2>2. Page(lists[s].user, lists[s].page) \subseteq Item
        BY PageType
    <2>3. lists' \in [Slots -> ListRequest]
        BY <1>2, <2>1, <2>2 DEF SelectPage, ListRequest, Stages
    <2> QED
        BY <1>2, <2>3 DEF SelectPage
<1>3. ASSUME NEW s \in Popups, ShowList(s) \/ ListFails(s)
      PROVE  ClientTyped'
    <2>1. lists[s] \in ListRequest
        BY DEF Slots
    <2>2. lists[s].items \subseteq Item
        BY <2>1 DEF ListRequest
    <2> QED
        BY <1>3, <2>2, IdleType DEF ShowList, ListFails, Show
<1>4. ASSUME NEW r \in Readers, NEW u \in Users, StartReading(r, u)
      PROVE  ClientTyped'
    <2>1. RowsOf(u) \subseteq Nat
        BY RowsFinite
    <2>2. AskList(u, 1) \in ListRequest
        BY AskListType
    <2> QED
        BY <1>4, <2>1, <2>2 DEF StartReading
<1>5. ASSUME NEW r \in Readers, TurnPage(r)
      PROVE  ClientTyped'
    <2>1. lists[r] \in ListRequest
        BY DEF Slots
    <2>2. Ids(lists[r].items) \subseteq Nat
        BY <2>1 DEF Ids, ListRequest, Item
    <2>3. [lists[r] EXCEPT !.stage = "done"] \in ListRequest
        BY <2>1 DEF ListRequest, Stages
    <2>4. AskList(lists[r].user, lists[r].page + 1) \in ListRequest
        <3>1. lists[r].user \in Users \cup {Nobody} /\ lists[r].page \in Nat \ {0}
            BY <2>1 DEF ListRequest
        <3> QED
            BY <3>1, AskListType
    <2>5. lists' \in [Slots -> ListRequest]
        BY <1>5, <2>3, <2>4 DEF TurnPage
    <2>6. read' \in [Readers -> SUBSET Nat]
        BY <1>5, <2>2 DEF TurnPage
    <2> QED
        BY <1>5, <2>5, <2>6 DEF TurnPage
<1>6. ASSUME NEW r \in Readers, AskAgain(r)
      PROVE  ClientTyped'
    <2>1. lists[r] \in ListRequest
        BY DEF Slots
    <2>2. AskList(lists[r].user, lists[r].page) \in ListRequest
        BY <2>1, AskListType DEF ListRequest
    <2> QED
        BY <1>6, <2>2 DEF AskAgain
<1> QED
    BY <1>2, <1>3, <1>4, <1>5, <1>6 DEF ListStep

LEMMA UserTyped ==
    ASSUME TypeOK, UserStep
    PROVE  ClientTyped'
<1> USE TypeParts DEF ClientTyped, service, session, bell, pages
<1>1. ASSUME NEW u \in Users, LogIn(u)
      PROVE  ClientTyped'
    BY <1>1 DEF LogIn
<1>2. CASE LogOut
    BY <1>2 DEF LogOut
<1>3. ASSUME NEW v \in Users \cup {Nobody}, OtherTab(v)
      PROVE  ClientTyped'
    BY <1>3 DEF OtherTab
<1>4. ASSUME NEW s \in Popups, ClickBell(s)
      PROVE  ClientTyped'
    <2>1. AskList(token, 1) \in ListRequest
        BY AskListType
    <2>2. lists' \in [Slots -> ListRequest]
        BY <1>4, <2>1 DEF ClickBell
    <2> QED
        BY <1>4, <2>2 DEF ClickBell
<1>5. CASE CloseBell
    <2>1. ToMark \subseteq Nat
        BY DEF ToMark, Item
    <2>2. [user |-> token, sent |-> ToMark, updated |-> {}] \in Marks
        BY <2>1 DEF Marks
    <2>3. closings' \in [Closings -> Marks]
        BY <1>5, <2>2 DEF CloseBell
    <2> QED
        BY <1>5, <2>3 DEF CloseBell
<1> QED
    BY <1>1, <1>2, <1>3, <1>4, <1>5 DEF UserStep

LEMMA MarkTyped ==
    ASSUME TypeOK, MarkStep
    PROVE  ClientTyped'
<1> USE TypeParts DEF ClientTyped, service, session, bell, pages
<1>1. ASSUME NEW k \in Closings, NEW n \in DOMAIN notifs,
             MarkAsRead(k, n) \/ ResetUnread(k, n) \/ MarkFails(k, n)
      PROVE  ClientTyped'
    <2>1. closings[k] \in Marks /\ n \in Nat
        BY RowsFinite
    <2>2. /\ [closings[k] EXCEPT !.sent = @ \ {n}, !.updated = @ \cup {n}] \in Marks
          /\ [closings[k] EXCEPT !.updated = @ \ {n}] \in Marks
          /\ [closings[k] EXCEPT !.sent = @ \ {n}] \in Marks
        BY <2>1 DEF Marks
    <2>3. closings' \in [Closings -> Marks]
        BY <1>1, <2>2 DEF MarkAsRead, ResetUnread, MarkFails
    <2> QED
        BY <1>1, <2>3 DEF MarkAsRead, ResetUnread, MarkFails
<1> QED
    BY <1>1 DEF MarkStep

LEMMA ClientTypeKept ==
    ASSUME TypeOK, [Next]_vars
    PROVE  ClientTyped'
<1>1. CASE ServiceStep
    BY <1>1, TypeParts
    DEF ServiceStep, ClientTyped, session, bell, pages
<1>2. CASE UNCHANGED vars
    BY <1>2, TypeParts DEF vars, ClientTyped, session, bell, pages
<1> QED
    BY <1>1, <1>2, ListTyped, UserTyped, MarkTyped DEF Next

-----------------------------------------------------------------------------
(* What the invariant's parts need of a step. *)

(***************************************************************************)
(* The history only grows, and what popup and requests hold stays in the   *)
(* table.                                                                  *)
(***************************************************************************)
LEMMA ListsKept ==
    ASSUME FeedInv, [Next]_vars
    PROVE  /\ Ids(list') \subseteq DOMAIN notifs
           /\ \A s \in Slots : Ids(lists'[s].items) \subseteq DOMAIN notifs
           /\ seen \subseteq seen'
           /\ seen' \subseteq DOMAIN notifs
<1> USE DEF FeedInv, ListsExist, session, bell, pages
<1>0. /\ lists \in [Slots -> ListRequest]
      /\ Service!TypeOK
      /\ seen \subseteq DOMAIN notifs
      /\ \A v : OnScreen(list, v) \subseteq DOMAIN notifs
    BY DEF TypeOK, OnScreen
<1>1. CASE ServiceStep
    BY <1>0, <1>1 DEF ServiceStep
<1>3. ASSUME NEW s \in Slots, SelectPage(s)
      PROVE  /\ UNCHANGED <<list, seen>>
             /\ \A t \in Slots : Ids(lists'[t].items) \subseteq DOMAIN notifs
    <2>1. Ids(Page(lists[s].user, lists[s].page)) \subseteq DOMAIN notifs
        BY <1>0, PageType, RowsFinite
    <2>2. \A t \in Slots : lists'[t].items =
             IF t = s THEN Page(lists[s].user, lists[s].page)
             ELSE lists[t].items
        BY <1>0, <1>3 DEF SelectPage, ListRequest
    <2> QED
        BY <1>3, <2>1, <2>2 DEF SelectPage
<1>4. Ids({}) = {}
    BY DEF Ids
<1>5. ASSUME NEW s \in Popups, ShowList(s) \/ ListFails(s)
      PROVE  /\ Ids(list') \subseteq DOMAIN notifs
             /\ \A t \in Slots : Ids(lists'[t].items) \subseteq DOMAIN notifs
             /\ seen \subseteq seen'
             /\ seen' \subseteq DOMAIN notifs
    <2>1. s \in Slots
        BY DEF Slots
    <2>2. \A t \in Slots : lists'[t].items = IF t = s THEN {} ELSE lists[t].items
        BY <1>0, <1>5, <2>1, IdleType DEF ShowList, ListFails, ListRequest
    <2>3. list' \in {list, {}, lists[s].items}
        BY <1>5 DEF ShowList, ListFails, Show
    <2>4. Ids(list') \subseteq DOMAIN notifs
        BY <1>4, <2>1, <2>3
    <2>5. seen' = seen \/ seen' = seen \cup OnScreen(list', token)
        BY <1>5 DEF ShowList, ListFails, Show
    <2> QED
        BY <1>0, <1>4, <2>2, <2>4, <2>5 DEF OnScreen
<1>6. ASSUME NEW r \in Readers, NEW u \in Users, StartReading(r, u)
      PROVE  /\ UNCHANGED <<list, seen>>
             /\ \A t \in Slots : Ids(lists'[t].items) \subseteq DOMAIN notifs
    <2>1. \A t \in Slots : lists'[t].items \in {lists[t].items, {}}
        BY <1>0, <1>6 DEF StartReading, AskList, IdleList
    <2> QED
        BY <1>4, <1>6, <2>1 DEF StartReading
<1>7. ASSUME NEW r \in Readers, TurnPage(r) \/ AskAgain(r)
      PROVE  /\ UNCHANGED <<list, seen>>
             /\ \A t \in Slots : Ids(lists'[t].items) \subseteq DOMAIN notifs
    <2>1. r \in Slots /\ lists[r] \in ListRequest
        BY <1>0 DEF Slots
    <2>2. \A u, q : AskList(u, q).items = {}
        BY DEF AskList, IdleList
    <2>3. [lists[r] EXCEPT !.stage = "done"].items = lists[r].items
        BY <2>1 DEF ListRequest
    <2>4. lists'[r].items \in {lists[r].items, {}}
        <3>1. CASE TurnPage(r)
            <4>1. lists'[r] = IF Cardinality(lists[r].items) < PageSize
                              THEN [lists[r] EXCEPT !.stage = "done"]
                              ELSE AskList(lists[r].user, lists[r].page + 1)
                BY <1>0, <2>1, <3>1 DEF TurnPage
            <4> QED
                BY <2>2, <2>3, <4>1
        <3>2. CASE AskAgain(r)
            <4>1. lists'[r] = AskList(lists[r].user, lists[r].page)
                BY <1>0, <2>1, <3>2 DEF AskAgain
            <4> QED
                BY <2>2, <4>1
        <3> QED
            BY <1>7, <3>1, <3>2
    <2>5. \A t \in Slots \ {r} : lists'[t] = lists[t]
        BY <1>0, <1>7, <2>1 DEF TurnPage, AskAgain
    <2> QED
        BY <1>4, <1>7, <2>4, <2>5 DEF TurnPage, AskAgain
<1>8. CASE ListStep
    BY <1>0, <1>3, <1>5, <1>6, <1>7, <1>8 DEF ListStep
<1>10. ASSUME NEW s \in Popups, ClickBell(s)
       PROVE  /\ \A t \in Slots : Ids(lists'[t].items) \subseteq DOMAIN notifs
              /\ list' = list
              /\ seen' = seen \cup OnScreen(list, token)
    <2>1. \A t \in Slots : lists'[t].items \in {lists[t].items, {}}
        BY <1>0, <1>10 DEF ClickBell, AskList, IdleList
    <2> QED
        BY <1>4, <1>10, <2>1 DEF ClickBell
<1>11. CASE UserStep
    BY <1>0, <1>10, <1>11 DEF UserStep, LogIn, LogOut, OtherTab, CloseBell
<1>12. CASE MarkStep
    BY <1>0, <1>12 DEF MarkStep, MarkAsRead, ResetUnread, MarkFails
<1>13. CASE UNCHANGED vars
    BY <1>0, <1>13 DEF vars
<1> QED
    BY <1>1, <1>8, <1>11, <1>12, <1>13 DEF Next

(***************************************************************************)
(* Marks are sent by a user, for rows the popup showed.                    *)
(***************************************************************************)
LEMMA MarksKept ==
    ASSUME FeedInv, [Next]_vars, NEW k \in Closings
    PROVE  \/ /\ closings'[k].user = closings[k].user
              /\ closings'[k].sent \subseteq closings[k].sent
              /\ closings'[k].updated \subseteq
                    closings[k].updated \cup closings[k].sent
           \/ /\ open
              /\ token \in Users
              /\ closings'[k] = [user |-> token, sent |-> ToMark,
                                 updated |-> {}]
<1>0. closings \in [Closings -> Marks] /\ closings[k] \in Marks
    BY DEF FeedInv, TypeOK
<1>1. CASE UNCHANGED closings
    BY <1>1
<1>2. CASE CloseBell
    BY <1>0, <1>2 DEF CloseBell, FeedInv, TypeOK
<1>3. ASSUME NEW j \in Closings, NEW n \in DOMAIN notifs,
             MarkAsRead(j, n) \/ ResetUnread(j, n) \/ MarkFails(j, n)
      PROVE  /\ closings'[k].user = closings[k].user
             /\ closings'[k].sent \subseteq closings[k].sent
             /\ closings'[k].updated \subseteq
                   closings[k].updated \cup closings[k].sent
    BY <1>0, <1>3 DEF MarkAsRead, ResetUnread, MarkFails, Marks
<1>5. CASE MarkStep
    BY <1>3, <1>5 DEF MarkStep
<1>6. CASE ServiceStep \/ ListStep
    BY <1>6
    DEF ServiceStep, ListStep, SelectPage, ShowList, ListFails, TurnPage,
        AskAgain, StartReading, bell
<1>7. CASE UserStep
    BY <1>1, <1>2, <1>7 DEF UserStep, LogIn, LogOut, OtherTab, ClickBell, bell
<1>8. CASE UNCHANGED vars
    BY <1>8 DEF vars, bell
<1> QED
    BY <1>1, <1>5, <1>6, <1>7, <1>8 DEF Next

(***************************************************************************)
(* While the popup is open, what it holds of the session's user was shown. *)
(***************************************************************************)
LEMMA OpenKept ==
    ASSUME FeedInv, [Next]_vars
    PROVE  open' => OnScreen(list', token') \subseteq seen'
<1> USE DEF FeedInv, OpenSeen, session, bell, pages
<1>1. CASE UNCHANGED <<open, list, token, seen>>
    BY <1>1
<1>2. ASSUME NEW s \in Popups, ShowList(s) \/ ListFails(s)
      PROVE  open' => OnScreen(list', token') \subseteq seen'
    BY <1>2 DEF ShowList, ListFails, Show
<1>3. CASE ListStep
    BY <1>1, <1>2, <1>3
    DEF ListStep, SelectPage, TurnPage, AskAgain, StartReading
<1>4. CASE UserStep
    BY <1>4 DEF UserStep, LogIn, LogOut, OtherTab, ClickBell, CloseBell
<1>5. CASE ServiceStep
    BY <1>1, <1>5 DEF ServiceStep
<1>6. CASE MarkStep
    BY <1>1, <1>6 DEF MarkStep, MarkAsRead, ResetUnread, MarkFails
<1>7. CASE UNCHANGED vars
    BY <1>1, <1>7 DEF vars
<1> QED
    BY <1>3, <1>4, <1>5, <1>6, <1>7 DEF Next

-----------------------------------------------------------------------------
(* The invariant holds. *)

LEMMA FeedInit == Init => FeedInv
<1> SUFFICES ASSUME Init PROVE FeedInv
    OBVIOUS
<1>1. Service!TypeOK
    BY About!TypeInit, ServiceAssumption, SameService DEF Init
<1>2. notifs = <<>> /\ DOMAIN notifs = {}
    BY DEF Init, Service!Init
<1>3. ClientTyped
    BY IdleType DEF Init, ClientTyped
<1>4. Ids({}) = {}
    BY DEF Ids
<1>5. \A s \in Slots : lists[s].items = {}
    BY IdleType DEF Init
<1>6. \A k \in Closings : closings[k].sent = {} /\ closings[k].updated = {}
    BY DEF Init, NoMarks
<1> QED
    BY <1>1, <1>2, <1>3, <1>4, <1>5, <1>6, TypeParts
    DEF FeedInv, EventsExist, ListsExist, MarksOwned, MarksSeen, OpenSeen,
        ReadOnlyIfSeen, Init

LEMMA FeedStep == FeedInv /\ [Next]_vars => FeedInv'
<1> SUFFICES ASSUME FeedInv, [Next]_vars PROVE FeedInv'
    OBVIOUS
<1>1. TypeOK /\ Service!TypeOK
    BY DEF FeedInv, TypeOK
<1>2. Service!TypeOK'
    BY <1>1, ServiceMoves, ServiceTypeKept
<1>3. /\ DOMAIN notifs \subseteq DOMAIN notifs'
      /\ \A i \in DOMAIN notifs :
            /\ notifs'[i].user = notifs[i].user
            /\ notifs'[i].event = notifs[i].event
      /\ \A i \in DOMAIN notifs' \ DOMAIN notifs :
            pc = "notify" /\ notifs'[i].event = current
      /\ \A i \in DOMAIN notifs' : notifs'[i].isRead =>
            \/ i \in DOMAIN notifs /\ notifs[i].isRead
            \/ \E k \in Closings :
                  /\ i \in closings[k].sent
                  /\ notifs[i].user = closings[k].user
    BY <1>1, TableSteps, TableGrows
<1>4. TypeOK'
    BY <1>1, <1>2, <1>3, ClientTypeKept, ListsKept, TypeParts
<1>5. ListsExist'
    BY <1>3, ListsKept DEF ListsExist
<1>6. ReadOnlyIfSeen'
    <2> SUFFICES ASSUME NEW i \in DOMAIN notifs', notifs'[i].isRead
                 PROVE  i \in seen'
        BY DEF ReadOnlyIfSeen
    <2>1. i \in seen
        BY <1>3 DEF FeedInv, ReadOnlyIfSeen, MarksSeen
    <2> QED
        BY <2>1, ListsKept
<1>7. OpenSeen'
    BY <1>3, OpenKept, ListsKept DEF OpenSeen, OnScreen
<1>8. MarksOwned' /\ MarksSeen'
    <2> SUFFICES ASSUME NEW k \in Closings
                 PROVE  /\ closings'[k].sent \cup closings'[k].updated # {}
                              => closings'[k].user \in Users
                        /\ \A n \in closings'[k].sent :
                              /\ n \in DOMAIN notifs'
                              /\ notifs'[n].user = closings'[k].user
                                    => n \in seen'
        BY DEF MarksOwned, MarksSeen
    <2>1. CASE /\ closings'[k].user = closings[k].user
               /\ closings'[k].sent \subseteq closings[k].sent
               /\ closings'[k].updated \subseteq
                     closings[k].updated \cup closings[k].sent
        BY <1>3, <2>1, ListsKept DEF FeedInv, MarksOwned, MarksSeen
    <2>3. CASE /\ open
               /\ token \in Users
               /\ closings'[k] = [user |-> token, sent |-> ToMark,
                                  updated |-> {}]
        <3>1. ToMark \subseteq Ids(list)
            BY DEF ToMark, Ids
        <3>2. OnScreen(list, token) \subseteq seen
            BY <2>3 DEF FeedInv, OpenSeen
        <3>3. \A n \in ToMark : /\ n \in DOMAIN notifs
                                /\ notifs[n].user = token => n \in seen
            BY <3>1, <3>2 DEF FeedInv, ListsExist, OnScreen
        <3> QED
            BY <1>3, <2>3, <3>3, ListsKept
    <2> QED
        BY <2>1, <2>3, MarksKept
<1>9. EventsExist'
    BY <1>1, <1>3, EventsGrow, EventInWork DEF FeedInv, EventsExist
<1> QED
    BY <1>4, <1>5, <1>6, <1>7, <1>8, <1>9 DEF FeedInv

LEMMA FeedInvariant == Spec => []FeedInv
    BY FeedInit, FeedStep, PTL DEF Spec

(***************************************************************************)
(* Bell, popup, requests, marks and service keep their types, and the      *)
(* popup only ever shows rows of the table.                                *)
(***************************************************************************)
THEOREM TypeCorrect == Spec => []TypeOK
<1>1. FeedInv => TypeOK
    BY DEF FeedInv
<1> QED
    BY <1>1, FeedInvariant, PTL

(***************************************************************************)
(* No notification is marked read before its owner had it on the screen,   *)
(* for any number of users, popups, tabs, closings and failed requests.    *)
(***************************************************************************)
THEOREM ReadOnlyIfSeenAlways == Spec => []ReadOnlyIfSeen
<1>1. FeedInv => ReadOnlyIfSeen
    BY DEF FeedInv
<1> QED
    BY <1>1, FeedInvariant, PTL

-----------------------------------------------------------------------------
(* Pages.  The rank of a row among those of its user is how many come      *)
(* before it.  Ranks are the numbers from 0 on, each once: that a page     *)
(* with a row behind it is full rests on this.                             *)

Before(R, n) == {m \in R : m > n}
Rank(R, n) == Cardinality(Before(R, n))

LEMMA RankBound ==
    ASSUME NEW R \in SUBSET Nat, IsFiniteSet(R), NEW n \in R
    PROVE  Rank(R, n) \in 0 .. (Cardinality(R) - 1)
<1>1. /\ IsFiniteSet(R \ {n})
      /\ Cardinality(R \ {n}) = Cardinality(R) - 1
    BY FS_RemoveElement
<1>2. Before(R, n) \in SUBSET (R \ {n})
    BY DEF Before
<1>3. /\ IsFiniteSet(Before(R, n))
      /\ Cardinality(Before(R, n)) <= Cardinality(R \ {n})
    BY <1>1, <1>2, FS_Subset
<1>4. Cardinality(Before(R, n)) \in Nat /\ Cardinality(R) \in Nat
    BY <1>3, FS_CardinalityType
<1> QED
    BY <1>1, <1>3, <1>4 DEF Rank

LEMMA RankFalls ==
    ASSUME NEW R \in SUBSET Nat, IsFiniteSet(R), NEW m \in R, NEW n \in R, m < n
    PROVE  Rank(R, n) < Rank(R, m)
<1>1. n \notin Before(R, n) /\ Before(R, n) \cup {n} \in SUBSET Before(R, m)
    <2>1. m \in Nat /\ n \in Nat
        OBVIOUS
    <2>2. \A i \in R : i \in Nat /\ (i > n => i > m)
        BY <2>1
    <2>3. ~(n > n) /\ n > m
        BY <2>1
    <2> QED
        BY <2>2, <2>3 DEF Before
<1>2. Before(R, n) \in SUBSET R /\ Before(R, m) \in SUBSET R
    BY DEF Before
<1>3. IsFiniteSet(Before(R, n)) /\ IsFiniteSet(Before(R, m))
    BY <1>2, FS_Subset
<1>4. Cardinality(Before(R, n) \cup {n}) = Cardinality(Before(R, n)) + 1
    BY <1>1, <1>3, FS_AddElement
<1>5. Cardinality(Before(R, n) \cup {n}) <= Cardinality(Before(R, m))
    BY <1>1, <1>3, FS_Subset
<1>6. Cardinality(Before(R, n)) \in Nat /\ Cardinality(Before(R, m)) \in Nat
    BY <1>3, FS_CardinalityType
<1> QED
    BY <1>4, <1>5, <1>6 DEF Rank

LEMMA RankBijection ==
    ASSUME NEW R \in SUBSET Nat, IsFiniteSet(R)
    PROVE  \A i \in 0 .. (Cardinality(R) - 1) : \E n \in R : Rank(R, n) = i
<1> DEFINE Bound == 0 .. (Cardinality(R) - 1)
           ranks == [n \in R |-> Rank(R, n)]
<1>1. Cardinality(R) \in Nat
    BY FS_CardinalityType
<1>2. IsFiniteSet(Bound) /\ Cardinality(Bound) = Cardinality(R)
    <2>1. 0 \in Int /\ Cardinality(R) - 1 \in Int
        BY <1>1
    <2>2. /\ IsFiniteSet(Bound)
          /\ Cardinality(Bound) = IF 0 > Cardinality(R) - 1 THEN 0
                                  ELSE Cardinality(R) - 1 - 0 + 1
        BY <2>1, FS_Interval
    <2> QED
        BY <1>1, <2>2
<1>3. ranks \in [R -> Bound]
    BY RankBound
<1>4. ASSUME NEW m \in R, NEW n \in R, m # n
      PROVE  ranks[m] # ranks[n]
    <2>1. m \in Nat /\ n \in Nat
        OBVIOUS
    <2>2. Rank(R, m) \in Nat /\ Rank(R, n) \in Nat
        BY RankBound
    <2>3. CASE m < n
        BY <2>2, <2>3, RankFalls
    <2>4. CASE n < m
        BY <2>2, <2>4, RankFalls
    <2> QED
        BY <1>4, <2>1, <2>3, <2>4
<1>5. ranks \in Injection(R, Bound)
    BY <1>3, <1>4, Fun_IsInj
<1>6. ranks \in Surjection(R, Bound)
    BY <1>2, <1>5, FS_Injection
<1> QED
    BY <1>6 DEF Surjection

(***************************************************************************)
(* A stretch of ranks that does not reach behind the last row has a row    *)
(* for each of its numbers.                                                *)
(***************************************************************************)
LEMMA FullStretch ==
    ASSUME NEW R \in SUBSET Nat, IsFiniteSet(R), NEW a \in Nat, NEW s \in Nat,
           NEW z \in R, a + s <= Rank(R, z)
    PROVE  /\ IsFiniteSet({n \in R : a <= Rank(R, n) /\ Rank(R, n) < a + s})
           /\ Cardinality({n \in R : a <= Rank(R, n) /\ Rank(R, n) < a + s}) = s
<1> DEFINE Stretch == {n \in R : a <= Rank(R, n) /\ Rank(R, n) < a + s}
           Numbers == a .. (a + s - 1)
           ranks == [n \in Stretch |-> Rank(R, n)]
<1>1. \A n \in R : Rank(R, n) \in 0 .. (Cardinality(R) - 1)
    BY RankBound
<1>2. Cardinality(R) \in Nat
    BY FS_CardinalityType
<1>3. ranks \in [Stretch -> Numbers]
    <2>1. ASSUME NEW n \in Stretch
          PROVE  Rank(R, n) \in Numbers
        BY <1>1, <1>2, <2>1
    <2> QED
        BY <2>1
<1>4. \A m, n \in Stretch : ranks[m] = ranks[n] => m = n
    <2> SUFFICES ASSUME NEW m \in Stretch, NEW n \in Stretch, m # n
                 PROVE  Rank(R, m) # Rank(R, n)
        OBVIOUS
    <2>1. m \in Nat /\ n \in Nat /\ m \in R /\ n \in R
        OBVIOUS
    <2>2. Rank(R, m) \in Nat /\ Rank(R, n) \in Nat
        BY <1>1, <2>1
    <2>3. CASE m < n
        BY <2>1, <2>2, <2>3, RankFalls
    <2>4. CASE n < m
        BY <2>1, <2>2, <2>4, RankFalls
    <2> QED
        BY <2>1, <2>3, <2>4
<1>5. ASSUME NEW i \in Numbers
      PROVE  \E n \in Stretch : ranks[n] = i
    <2>1. i \in 0 .. (Cardinality(R) - 1)
        BY <1>1, <1>2
    <2>2. PICK n \in R : Rank(R, n) = i
        BY <2>1, RankBijection
    <2>3. n \in Stretch
        BY <2>2
    <2> QED
        BY <2>2, <2>3
<1>6. ranks \in Bijection(Stretch, Numbers)
    BY <1>3, <1>4, <1>5, Fun_IsBij
<1>7. ExistsBijection(Stretch, Numbers)
    BY <1>6, Fun_ExistsBij
<1>8. IsFiniteSet(Stretch)
    <2>1. Stretch \in SUBSET R
        OBVIOUS
    <2> QED
        BY <2>1, FS_Subset
<1>9. Cardinality(Stretch) = Cardinality(Numbers)
    BY <1>7, <1>8, FS_Bijection
<1>10. Cardinality(Numbers) = s
    BY FS_Interval
<1> QED
    BY <1>8, <1>9, <1>10

LEMMA PageBounds ==
    ASSUME NEW p \in Nat \ {0}
    PROVE  /\ (p - 1) * PageSize \in Nat
           /\ p * PageSize \in Nat
           /\ p * PageSize = (p - 1) * PageSize + PageSize
<1>1. PageSize \in Nat
    BY NotificationFeedAssumption
<1>2. p - 1 \in Nat
    OBVIOUS
<1>3. (p - 1) * PageSize \in Nat /\ p * PageSize \in Nat
    BY <1>1, <1>2, ProductType
<1>4. \A q \in Nat : (q + 1) * PageSize = q * PageSize + PageSize
    BY <1>1
<1>5. p = (p - 1) + 1
    OBVIOUS
<1> QED
    BY <1>2, <1>3, <1>4, <1>5

LEMMA PageRanks ==
    ASSUME NEW u, NEW p
    PROVE  /\ \A n : Ahead(u, n) = Before(RowsOf(u), n)
           /\ PageRows(u, p) =
                 {n \in RowsOf(u) :
                     /\ (p - 1) * PageSize <= Rank(RowsOf(u), n)
                     /\ Rank(RowsOf(u), n) < p * PageSize}
<1>1. \A n : Ahead(u, n) = Before(RowsOf(u), n)
    BY DEF Ahead, OrderedBefore, Before
<1> QED
    BY <1>1 DEF PageRows, Rank

LEMMA PageFull ==
    ASSUME Service!TypeOK, NEW u, NEW p \in Nat \ {0}, NEW z \in RowsOf(u),
           p * PageSize <= Rank(RowsOf(u), z)
    PROVE  Cardinality(Page(u, p)) = PageSize
<1> DEFINE rows == [n \in PageRows(u, p) |-> Row(n)]
<1>1. RowsOf(u) \in SUBSET Nat /\ IsFiniteSet(RowsOf(u))
    BY RowsFinite
<1>2. /\ (p - 1) * PageSize \in Nat /\ PageSize \in Nat
      /\ p * PageSize = (p - 1) * PageSize + PageSize
    BY PageBounds, NotificationFeedAssumption
<1>3. PageRows(u, p) = {n \in RowsOf(u) :
                          /\ (p - 1) * PageSize <= Rank(RowsOf(u), n)
                          /\ Rank(RowsOf(u), n) < (p - 1) * PageSize + PageSize}
    BY <1>2, PageRanks
<1>4. /\ IsFiniteSet(PageRows(u, p))
      /\ Cardinality(PageRows(u, p)) = PageSize
    <2> HIDE DEF rows
    <2> DEFINE a == (p - 1) * PageSize
               R == RowsOf(u)
               Part == {n \in R : a <= Rank(R, n) /\ Rank(R, n) < a + PageSize}
    <2>1. a \in Nat /\ a + PageSize <= Rank(R, z)
        BY <1>2
    <2>2. PageRows(u, p) = Part
        BY <1>3
    <2>3. R \in SUBSET Nat /\ IsFiniteSet(R) /\ z \in R
        BY <1>1
    <2> HIDE DEF a, R
    <2>4. IsFiniteSet(Part) /\ Cardinality(Part) = PageSize
        BY <1>2, <2>1, <2>3, FullStretch
    <2> QED
        BY <2>2, <2>4
<1>5. rows \in Bijection(PageRows(u, p), Page(u, p))
    <2>1. \A n : Row(n).id = n
        BY DEF Row
    <2>2. rows \in [PageRows(u, p) -> Page(u, p)]
        BY DEF Page
    <2>3. \A m, n \in PageRows(u, p) : rows[m] = rows[n] => m = n
        BY <2>1
    <2>4. \A t \in Page(u, p) : \E n \in PageRows(u, p) : rows[n] = t
        BY DEF Page
    <2> QED
        BY <2>2, <2>3, <2>4, Fun_IsBij
<1>6. ExistsBijection(PageRows(u, p), Page(u, p))
    BY <1>5, Fun_ExistsBij
<1> QED
    BY <1>4, <1>6, FS_Bijection

-----------------------------------------------------------------------------
(* The reader: rows of the start that lie before the page asked for have   *)
(* been read.  Ranks only grow, so that a row is pushed to later pages,    *)
(* never to one that was read already.                                     *)

ReaderInv(r, u) ==
    /\ lists[r].stage # "idle" =>
          u \in Users /\ atStart[r] \subseteq RowsOf(u)
    /\ lists[r].stage \in {"asked", "answered"} =>
          \A n \in atStart[r] :
              Rank(RowsOf(u), n) < (lists[r].page - 1) * PageSize => n \in read[r]
    /\ lists[r].stage = "answered" =>
          /\ \A n \in atStart[r] :
                Rank(RowsOf(u), n) < lists[r].page * PageSize =>
                    n \in read[r] \cup Ids(lists[r].items)
          /\ Cardinality(lists[r].items) < PageSize =>
                atStart[r] \subseteq read[r] \cup Ids(lists[r].items)
    /\ lists[r].stage = "done" => atStart[r] \subseteq read[r]

PagingInv ==
    \A r \in Readers : \E u \in Users \cup {Nobody} :
        lists[r].user = u /\ ReaderInv(r, u)

LEMMA ReaderSteps ==
    ASSUME FeedInv, [Next]_vars, NEW r \in Readers
    PROVE  \/ /\ lists'[r] = lists[r]
              /\ read'[r] = read[r]
              /\ atStart'[r] = atStart[r]
           \/ SelectPage(r)
           \/ TurnPage(r)
           \/ AskAgain(r)
           \/ \E u \in Users : StartReading(r, u)
<1> DEFINE Kept == /\ lists'[r] = lists[r]
                   /\ read'[r] = read[r]
                   /\ atStart'[r] = atStart[r]
<1>0. /\ lists \in [Slots -> ListRequest]
      /\ read \in [Readers -> SUBSET Nat]
      /\ atStart \in [Readers -> SUBSET Nat]
      /\ r \in Slots /\ r \notin Popups
    BY NotificationFeedAssumption DEF FeedInv, TypeOK, Slots
<1>1. ASSUME NEW s \in Slots, s # r, SelectPage(s)
      PROVE  Kept
    BY <1>0, <1>1 DEF SelectPage, pages
<1>2. ASSUME NEW s \in Popups, ShowList(s) \/ ListFails(s) \/ ClickBell(s)
      PROVE  Kept
    BY <1>0, <1>2 DEF ShowList, ListFails, ClickBell, pages
<1>3. ASSUME NEW q \in Readers, q # r,
             \/ TurnPage(q) \/ AskAgain(q)
             \/ \E u \in Users : StartReading(q, u)
      PROVE  Kept
    BY <1>0, <1>3 DEF TurnPage, AskAgain, StartReading, pages
<1>4. CASE ServiceStep
    BY <1>4 DEF ServiceStep, pages
<1>5. CASE UserStep
    BY <1>2, <1>5 DEF UserStep, LogIn, LogOut, OtherTab, CloseBell,
                      pages
<1>6. CASE MarkStep
    BY <1>6 DEF MarkStep, MarkAsRead, ResetUnread, MarkFails,
                pages
<1>7. CASE UNCHANGED vars
    BY <1>7 DEF vars, pages
<1>8. CASE ListStep
    BY <1>1, <1>2, <1>3, <1>8 DEF ListStep
<1> QED
    BY <1>4, <1>5, <1>6, <1>7, <1>8 DEF Next

LEMMA RanksGrow ==
    ASSUME FeedInv, [Next]_vars, NEW u
    PROVE  /\ RowsOf(u) \subseteq RowsOf(u)'
           /\ \A n \in RowsOf(u) :
                 /\ Rank(RowsOf(u), n) \in Nat
                 /\ Rank(RowsOf(u)', n) \in Nat
                 /\ Rank(RowsOf(u), n) <= Rank(RowsOf(u)', n)
<1>1. Service!TypeOK /\ Service!TypeOK'
    BY ServiceMoves, ServiceTypeKept DEF FeedInv, TypeOK
<1>2. RowsOf(u) \subseteq RowsOf(u)'
    <2>1. /\ DOMAIN notifs \subseteq DOMAIN notifs'
          /\ \A i \in DOMAIN notifs :
                /\ notifs'[i].user = notifs[i].user
                /\ notifs'[i].event = notifs[i].event
        BY <1>1, TableSteps, TableGrows
    <2>2. \A n \in DOMAIN notifs : ComponentOf(n)' = ComponentOf(n)
        BY <1>1, <2>1, EventsGrow DEF FeedInv, EventsExist, ComponentOf
    <2> QED
        BY <2>1, <2>2 DEF RowsOf
<1>3. RowsOf(u) \in SUBSET Nat /\ IsFiniteSet(RowsOf(u))
    BY <1>1, RowsFinite
<1>4. RowsOf(u)' \in SUBSET Nat /\ IsFiniteSet(RowsOf(u)')
    <2>1. notifs' \in Seq(Service!Notification)
        BY <1>1 DEF Service!TypeOK, Service!Notification
    <2>2. Len(notifs') \in Nat /\ DOMAIN notifs' = 1 .. Len(notifs')
        BY <2>1, LenProperties
    <2>3. IsFiniteSet(1 .. Len(notifs'))
        BY <2>2, FS_Interval
    <2>4. RowsOf(u)' \in SUBSET (1 .. Len(notifs'))
        BY <2>2 DEF RowsOf
    <2> QED
        BY <2>2, <2>3, <2>4, FS_Subset
<1>5. ASSUME NEW n \in RowsOf(u)
      PROVE  /\ Rank(RowsOf(u), n) \in Nat
             /\ Rank(RowsOf(u)', n) \in Nat
             /\ Rank(RowsOf(u), n) <= Rank(RowsOf(u)', n)
    <2> DEFINE R == RowsOf(u)
               T == RowsOf(u)'
    <2>1. /\ Before(R, n) \in SUBSET Before(T, n)
          /\ Before(R, n) \in SUBSET R
          /\ Before(T, n) \in SUBSET T
        BY <1>2 DEF Before
    <2>2. IsFiniteSet(Before(R, n)) /\ IsFiniteSet(Before(T, n))
        BY <1>3, <1>4, <2>1, FS_Subset
    <2>3. /\ Cardinality(Before(R, n)) \in Nat
          /\ Cardinality(Before(T, n)) \in Nat
          /\ Cardinality(Before(R, n)) <= Cardinality(Before(T, n))
        BY <2>1, <2>2, FS_Subset, FS_CardinalityType
    <2> QED
        BY <2>3 DEF Rank
<1> QED
    BY <1>2, <1>5

(***************************************************************************)
(* A page has the rows of its ranks, and a page that is not full has the   *)
(* last row.                                                               *)
(***************************************************************************)
LEMMA PageHasRows ==
    ASSUME FeedInv, NEW u, NEW p \in Nat \ {0}, NEW n \in RowsOf(u),
           (p - 1) * PageSize <= Rank(RowsOf(u), n)
    PROVE  /\ Rank(RowsOf(u), n) < p * PageSize => n \in Ids(Page(u, p))
           /\ Cardinality(Page(u, p)) < PageSize
                 => Rank(RowsOf(u), n) < p * PageSize
<1>1. Service!TypeOK
    BY DEF FeedInv, TypeOK
<1>2. Rank(RowsOf(u), n) \in Nat
    BY <1>1, RowsFinite, RankBound
<1>3. p * PageSize \in Nat /\ PageSize \in Nat
    BY PageBounds, NotificationFeedAssumption
<1>4. Rank(RowsOf(u), n) < p * PageSize => n \in Ids(Page(u, p))
    BY <1>1, PageRanks, PageType
<1>5. CASE p * PageSize <= Rank(RowsOf(u), n)
    <2>1. Cardinality(Page(u, p)) = PageSize
        BY <1>1, <1>5, PageFull
    <2> QED
        BY <1>2, <1>3, <1>5, <2>1
<1> QED
    BY <1>2, <1>3, <1>4, <1>5

LEMMA ReaderSelects ==
    ASSUME FeedInv, NEW r \in Readers, NEW u, lists[r].user = u,
           ReaderInv(r, u), SelectPage(r)
    PROVE  lists'[r].user = u /\ ReaderInv(r, u)'
<1> DEFINE p == lists[r].page
           old == lists[r]
<1>0. /\ lists \in [Slots -> ListRequest] /\ r \in Slots
      /\ old \in ListRequest /\ p \in Nat \ {0}
      /\ Service!TypeOK
    BY DEF FeedInv, TypeOK, Slots, ListRequest
<1>1. /\ old.stage = "asked"
      /\ lists'[r].stage = "answered" /\ lists'[r].user = u
      /\ lists'[r].page = p /\ lists'[r].items = Page(u, p)
      /\ UNCHANGED <<notifs, published, read, atStart>>
    BY <1>0 DEF SelectPage, ListRequest, service, pages
<1>2. /\ u \in Users /\ atStart[r] \subseteq RowsOf(u)
      /\ \A n \in atStart[r] :
            Rank(RowsOf(u), n) < (p - 1) * PageSize => n \in read[r]
    BY <1>1 DEF ReaderInv
<1>3. \A n \in atStart[r] : Rank(RowsOf(u), n) \in Nat
    BY <1>0, <1>2, RowsFinite, RankBound
<1>4. (p - 1) * PageSize \in Nat /\ p * PageSize \in Nat
    BY <1>0, PageBounds
<1>5. ASSUME NEW n \in atStart[r], n \notin read[r]
      PROVE  /\ Rank(RowsOf(u), n) < p * PageSize => n \in Ids(Page(u, p))
             /\ Cardinality(Page(u, p)) < PageSize
                   => Rank(RowsOf(u), n) < p * PageSize
    <2>1. (p - 1) * PageSize <= Rank(RowsOf(u), n)
        BY <1>2, <1>3, <1>4, <1>5
    <2> QED
        BY <1>0, <1>2, <2>1, PageHasRows
<1>6. RowsOf(u)' = RowsOf(u)
    BY <1>1 DEF RowsOf, ComponentOf
<1> HIDE DEF p
<1>7. ReaderInv(r, u)'
    BY <1>1, <1>2, <1>5, <1>6 DEF ReaderInv
<1> QED
    BY <1>1, <1>7

LEMMA ReaderTurns ==
    ASSUME FeedInv, NEW r \in Readers, NEW u, lists[r].user = u,
           ReaderInv(r, u), TurnPage(r)
    PROVE  lists'[r].user = u /\ ReaderInv(r, u)'
<1> DEFINE p == lists[r].page
           got == read[r] \cup Ids(lists[r].items)
<1>0. /\ lists \in [Slots -> ListRequest] /\ r \in Slots
      /\ lists[r] \in ListRequest /\ p \in Nat \ {0}
      /\ read \in [Readers -> SUBSET Nat]
    BY DEF FeedInv, TypeOK, Slots, ListRequest
<1>1. /\ lists[r].stage = "answered"
      /\ UNCHANGED <<notifs, published, atStart>> /\ read'[r] = got
      /\ lists'[r] = IF Cardinality(lists[r].items) < PageSize
                     THEN [lists[r] EXCEPT !.stage = "done"]
                     ELSE AskList(u, p + 1)
    BY <1>0 DEF TurnPage, service
<1>2. /\ u \in Users /\ atStart[r] \subseteq RowsOf(u)
      /\ \A n \in atStart[r] : Rank(RowsOf(u), n) < p * PageSize => n \in got
      /\ Cardinality(lists[r].items) < PageSize => atStart[r] \subseteq got
    BY <1>1 DEF ReaderInv
<1>3. RowsOf(u)' = RowsOf(u)
    BY <1>1 DEF RowsOf, ComponentOf
<1>4. CASE Cardinality(lists[r].items) < PageSize
    <2>1. lists'[r].stage = "done" /\ lists'[r].user = u
        BY <1>0, <1>1, <1>4 DEF ListRequest
    <2> HIDE DEF got
    <2>2. ReaderInv(r, u)'
        BY <1>1, <1>2, <1>3, <1>4, <2>1 DEF ReaderInv
    <2> QED
        BY <2>1, <2>2
<1>5. CASE ~(Cardinality(lists[r].items) < PageSize)
    <2>1. lists'[r] = AskList(u, p + 1)
        BY <1>1, <1>5
    <2>2. /\ lists'[r].stage = "asked" /\ lists'[r].user = u
          /\ lists'[r].page = p + 1
        BY <2>1 DEF AskList, IdleList
    <2>3. lists'[r].page - 1 = p
        BY <1>0, <2>2
    <2>4. (lists'[r].page - 1) * PageSize = p * PageSize
        BY <2>3
    <2> HIDE DEF p, got
    <2>5. \A n \in atStart'[r] :
             Rank(RowsOf(u)', n) < (lists'[r].page - 1) * PageSize
                 => n \in read'[r]
        BY <1>1, <1>2, <1>3, <2>4
    <2>6. atStart'[r] \subseteq RowsOf(u)'
        BY <1>1, <1>2, <1>3
    <2>7. ReaderInv(r, u)'
        BY <1>2, <2>2, <2>5, <2>6 DEF ReaderInv
    <2> QED
        BY <2>2, <2>7
<1> QED
    BY <1>4, <1>5

(***************************************************************************)
(* Whatever others do, the rows of the start move to later pages only.     *)
(***************************************************************************)
LEMMA ReaderWaits ==
    ASSUME FeedInv, [Next]_vars, NEW r \in Readers, NEW u,
           lists[r].user = u, ReaderInv(r, u),
           lists'[r] = lists[r], read'[r] = read[r], atStart'[r] = atStart[r]
    PROVE  lists'[r].user = u /\ ReaderInv(r, u)'
<1> DEFINE p == lists[r].page
<1>0. /\ lists[r] \in ListRequest /\ p \in Nat \ {0}
    BY DEF FeedInv, TypeOK, Slots, ListRequest
<1>1. /\ (p - 1) * PageSize \in Nat
      /\ p * PageSize \in Nat
    BY <1>0, PageBounds
<1>2. /\ RowsOf(u) \subseteq RowsOf(u)'
      /\ \A n \in RowsOf(u) :
            /\ Rank(RowsOf(u), n) \in Nat
            /\ Rank(RowsOf(u)', n) \in Nat
            /\ Rank(RowsOf(u), n) <= Rank(RowsOf(u)', n)
    BY RanksGrow
<1>3. ASSUME NEW n \in RowsOf(u)
      PROVE  /\ Rank(RowsOf(u)', n) < (p - 1) * PageSize
                   => Rank(RowsOf(u), n) < (p - 1) * PageSize
             /\ Rank(RowsOf(u)', n) < p * PageSize
                   => Rank(RowsOf(u), n) < p * PageSize
    BY <1>1, <1>2
<1>4. CASE lists[r].stage = "idle"
    BY <1>4 DEF ReaderInv
<1>5. CASE lists[r].stage # "idle"
    <2>1. u \in Users /\ atStart[r] \subseteq RowsOf(u)
        BY <1>5 DEF ReaderInv
    <2>2. \A n \in atStart[r] :
             /\ Rank(RowsOf(u)', n) < (p - 1) * PageSize
                   => Rank(RowsOf(u), n) < (p - 1) * PageSize
             /\ Rank(RowsOf(u)', n) < p * PageSize
                   => Rank(RowsOf(u), n) < p * PageSize
        BY <1>3, <2>1
    <2>3. ReaderInv(r, u)
        OBVIOUS
    <2>4. lists'[r].user = u /\ lists'[r].page = p
        OBVIOUS
    <2>5. ReaderInv(r, u)'
        BY <1>2, <2>1, <2>2, <2>3, <2>4 DEF ReaderInv
    <2> QED
        BY <2>4, <2>5
<1> QED
    BY <1>4, <1>5

LEMMA ReaderAsks ==
    ASSUME FeedInv, NEW r \in Readers, NEW u, lists[r].user = u,
           ReaderInv(r, u), AskAgain(r)
    PROVE  lists'[r].user = u /\ ReaderInv(r, u)'
<1>0. /\ lists \in [Slots -> ListRequest] /\ r \in Slots
      /\ lists[r] \in ListRequest
    BY DEF FeedInv, TypeOK, Slots
<1>1. /\ lists[r].stage = "answered" /\ lists'[r].stage = "asked"
      /\ lists'[r].user = u /\ lists'[r].page = lists[r].page
    <2>1. lists'[r] = AskList(u, lists[r].page)
        BY <1>0 DEF AskAgain
    <2> QED
        BY <2>1 DEF AskAgain, AskList, IdleList
<1>2. UNCHANGED <<notifs, published, read, atStart>>
    BY DEF AskAgain, service, pages
<1>3. RowsOf(u)' = RowsOf(u)
    BY <1>2 DEF RowsOf, ComponentOf
<1>4. ReaderInv(r, u)'
    BY <1>1, <1>2, <1>3 DEF ReaderInv
<1> QED
    BY <1>1, <1>4

LEMMA ReaderStarts ==
    ASSUME FeedInv, NEW r \in Readers, NEW u \in Users, StartReading(r, u)
    PROVE  lists'[r].user = u /\ ReaderInv(r, u)'
<1>0. /\ lists \in [Slots -> ListRequest] /\ r \in Slots
      /\ atStart \in [Readers -> SUBSET Nat]
      /\ Service!TypeOK
    BY DEF FeedInv, TypeOK, Slots
<1>1. lists'[r] = AskList(u, 1)
    BY <1>0 DEF StartReading
<1>2. lists'[r].stage = "asked" /\ lists'[r].user = u /\ lists'[r].page = 1
    BY <1>1 DEF AskList, IdleList
<1>3. UNCHANGED <<notifs, published>> /\ atStart'[r] = RowsOf(u)
    BY <1>0 DEF StartReading, service
<1>4. RowsOf(u)' = RowsOf(u)
    BY <1>3 DEF RowsOf, ComponentOf
<1>5. (1 - 1) * PageSize = 0
    BY NotificationFeedAssumption
<1>6. \A n \in RowsOf(u) : ~(Rank(RowsOf(u), n) < 0)
    <2>1. \A n \in RowsOf(u) : Rank(RowsOf(u), n) \in Nat
        BY <1>0, RowsFinite, RankBound
    <2> QED
        BY <2>1
<1>7. ReaderInv(r, u)'
    BY <1>2, <1>3, <1>4, <1>5, <1>6 DEF ReaderInv
<1> QED
    BY <1>2, <1>7

LEMMA PagingStep == FeedInv /\ PagingInv /\ [Next]_vars => PagingInv'
<1> SUFFICES ASSUME FeedInv, PagingInv, [Next]_vars, NEW r \in Readers
             PROVE  \E u \in Users \cup {Nobody} :
                       lists'[r].user = u /\ ReaderInv(r, u)'
    BY DEF PagingInv
<1>1. PICK u \in Users \cup {Nobody} : lists[r].user = u /\ ReaderInv(r, u)
    BY DEF PagingInv
<1>2. ASSUME \/ /\ lists'[r] = lists[r]
                /\ read'[r] = read[r]
                /\ atStart'[r] = atStart[r]
             \/ SelectPage(r)
             \/ TurnPage(r)
             \/ AskAgain(r)
      PROVE  lists'[r].user = u /\ ReaderInv(r, u)'
    BY <1>1, <1>2, ReaderSelects, ReaderTurns, ReaderWaits, ReaderAsks
<1>3. ASSUME NEW v \in Users, StartReading(r, v)
      PROVE  lists'[r].user = v /\ ReaderInv(r, v)'
    BY <1>3, ReaderStarts
<1> QED
    BY <1>2, <1>3, ReaderSteps

LEMMA PagingInit == Init => PagingInv
    BY DEF Init, PagingInv, ReaderInv, IdleList, Slots

(***************************************************************************)
(* Who turns the pages until one is not full has got every row there was   *)
(* at the start whose component the catalogue has, for any catalogue, any  *)
(* page size, any number of rows inserted and any marks between the pages. *)
(***************************************************************************)
THEOREM PagingMissesNoneAlways == Spec => []PagingMissesNone
<1>1. PagingInv => PagingMissesNone
    BY DEF PagingInv, ReaderInv, PagingMissesNone
<1>2. Spec => []PagingInv
    BY FeedInvariant, PagingInit, PagingStep, PTL DEF Spec
<1> QED
    BY <1>1, <1>2, PTL

(***************************************************************************)
(* Popups, tabs and readers drive the service only through its handlers:   *)
(* NotificationFeed implements Notifications, so that what is proved of    *)
(* the service alone holds of it here.                                     *)
(***************************************************************************)
THEOREM ServiceRuns == Spec => Service!Spec
<1>1. Init => Service!Init
    BY DEF Init
<1>2. FeedInv /\ [Next]_vars => [Service!Next]_(Service!vars)
    BY ServiceMoves, SameService
    DEF service, Service!vars, Service!brokerVars, Service!consumerVars,
        Service!history
<1> QED
    BY <1>1, <1>2, FeedInvariant, PTL DEF Spec, Service!Spec

=============================================================================
