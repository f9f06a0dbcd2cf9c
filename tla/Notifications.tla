--------------------------- MODULE Notifications ---------------------------
(***************************************************************************)
(* notifications-service: the consumer goroutine of queue "price.changed", *)
(* the HTTP handlers of /notifications and /subscriptions, the tables      *)
(* notifications and subscriptions, and the Redis counter of unread        *)
(* notifications of each user.                                             *)
(*                                                                         *)
(* An event is a position of `published', the messages ever routed to the  *)
(* queue.  Positions up to `delivered' have been pushed by the broker to   *)
(* the client (the consumer uses automatic acknowledgement, so the broker  *)
(* has forgotten them) and positions up to `taken' have left the client's  *)
(* buffer: read by the goroutine, or lost with the buffer.                 *)
(***************************************************************************)
EXTENDS Naturals, Sequences, FiniteSets

CONSTANTS
    Users,        \* user ids
    Components,   \* component ids
    Faults,       \* which of the faults below may happen
    MaxEvents,    \* bound: price changes published
    MaxRequests   \* bound: mark-as-read requests of one user in flight

AllFaults == {"db", "redis", "connection", "crash"}

ASSUME NotificationsAssumption ==
    /\ Faults \subseteq AllFaults
    /\ MaxEvents \in Nat
    /\ MaxRequests \in Nat

VARIABLES
    accounts,    \* users that have a row in table users
    subs,        \* table subscriptions: pairs <<user, component>>
    published,   \* component of each event ever routed to the queue
    delivered,   \* events the broker has pushed to the client
    taken,       \* events that have left the client's buffer
    connected,   \* the consumer's AMQP connection is open
    pc,          \* where the consumer goroutine is
    current,     \* the event it is handling
    todo,        \* subscribers of the snapshot it has not come to yet
    uncounted,   \* {u} between the INSERT for user u and the INCR
    notifs,      \* table notifications, in the order of the INSERTs
    unread,      \* Redis counters; an absent key counts as 0
    marking,     \* mark-as-read requests between their UPDATE and their DEL
    eligible,    \* history: who was subscribed at some moment from the
                 \* event's publication to the lookup of its subscribers
    dropped      \* history: users a database error cost the current event
                 \* (both are forgotten when the next event is taken)

brokerVars   == <<published, delivered, taken, connected>>
consumerVars == <<pc, current, todo, uncounted>>
history      == <<eligible, dropped>>
vars == <<accounts, subs, brokerVars, consumerVars, notifs, unread, marking,
          history>>

Events  == 1 .. Len(published)
PcState == {"idle", "lookup", "notify", "incr", "stopped", "down"}
Notification == [user : Users, event : Nat, isRead : BOOLEAN]

Serving == pc # "down"
LookedUp(e) == e <= taken /\ ~(e = current /\ pc = "lookup")

Init ==
    /\ accounts = Users
    /\ subs = {}
    /\ published = <<>>
    /\ eligible = [e \in Events |-> {}]
    /\ dropped = {}
    /\ delivered = 0
    /\ taken = 0
    /\ connected = TRUE
    /\ pc = "idle"
    /\ current = 0
    /\ todo = {}
    /\ uncounted = {}
    /\ notifs = <<>>
    /\ unread = [u \in Users |-> 0]
    /\ marking = [u \in Users |-> 0]

-----------------------------------------------------------------------------
(* The queries of the repository. *)

EveryAccount(c) == accounts
GetSubscribers(c) == {u \in Users : <<u, c>> \in subs}

NotificationRow(u, e) == [user |-> u, event |-> e, isRead |-> FALSE]

RowsOfUserMarkedRead(u, n) ==
    [i \in DOMAIN notifs |-> [notifs[i] EXCEPT !.isRead = @ \/ notifs[i].user = u]]

RowMarkedReadByAnyone(u, n) == [notifs EXCEPT ![n].isRead = TRUE]

\* UPDATE ... SET is_read = TRUE WHERE id = n AND user_id = u
RowsMarkedRead(u, n) ==
    [i \in DOMAIN notifs |->
        IF i = n /\ notifs[i].user = u
        THEN [notifs[i] EXCEPT !.isRead = TRUE]
        ELSE notifs[i]]

\* DEL of the counter's key.
CounterDecremented(u) == unread[u] - 1
CounterAfterReset(u) == 0

-----------------------------------------------------------------------------
(* The publisher (aggregator-service) and the broker. *)

\* A price change of component c is routed to queue price.changed.
PublishPriceChanged(c) ==
    /\ Len(published) < MaxEvents
    /\ published' = Append(published, c)
    /\ eligible' = [e \in Events' |-> IF e \in Events THEN eligible[e]
                                     ELSE {u \in Users : <<u, c>> \in subs}]
    /\ UNCHANGED <<dropped, accounts, subs, delivered, taken, connected, consumerVars,
                   notifs, unread, marking>>

\* The broker pushes the next message and, with autoAck, deletes it.
Deliver ==
    /\ connected
    /\ delivered < Len(published)
    /\ delivered' = delivered + 1
    /\ UNCHANGED <<accounts, subs, published, taken, connected, consumerVars,
                   notifs, unread, marking, history>>

\* The connection breaks and the client's buffer is dropped.  The queue is
\* durable but its messages are not persistent: a broker restart loses them.
ConnectionLost ==
    /\ "connection" \in Faults
    /\ connected
    /\ connected' = FALSE
    /\ \E d \in {delivered, Len(published)} : delivered' = d /\ taken' = d
    /\ UNCHANGED <<accounts, subs, published, consumerVars, notifs, unread,
                   marking, history>>

-----------------------------------------------------------------------------
(* The consumer goroutine. *)

\* for d := range msgs
TakeMessage ==
    /\ pc = "idle"
    /\ taken < delivered
    /\ taken' = taken + 1
    /\ current' = taken + 1
    /\ pc' = "lookup"
    /\ eligible' = [e \in Events |-> IF e > taken THEN eligible[e] ELSE {}]
    /\ dropped' = {}
    /\ UNCHANGED <<accounts, subs, published, delivered, connected, todo,
                   uncounted, notifs, unread, marking>>

\* The channel of deliveries is closed: the loop ends with a nil error, so
\* the process goes on serving HTTP and nobody consumes any more.
LeaveLoop ==
    /\ pc = "idle"
    /\ ~connected
    /\ taken = delivered
    /\ pc' = "stopped"
    /\ UNCHANGED <<accounts, subs, brokerVars, current, todo, uncounted,
                   notifs, unread, marking, history>>

LookupError == todo' = {} /\ pc' = "idle"

\* HandlePriceChange reads the subscribers; an error drops the event.
LookUpSubscribers ==
    /\ pc = "lookup"
    /\ \/ /\ todo' = GetSubscribers(published[current])
          /\ pc' = "notify"
          /\ UNCHANGED dropped
       \/ "db" \in Faults /\ LookupError /\ dropped' = Users
    /\ UNCHANGED <<accounts, subs, brokerVars, current, uncounted, notifs,
                   unread, marking, eligible>>

\* A failed INSERT goes on to the next user without counting.
InsertErrorCounted(u) == UNCHANGED notifs /\ uncounted' = {u} /\ pc' = "incr"
InsertError(u) == UNCHANGED <<notifs, uncounted, pc>>

\* One iteration of the loop over the users, up to the INSERT.
CreateNotification(u) ==
    /\ pc = "notify"
    /\ u \in todo
    /\ todo' = todo \ {u}
    /\ \/ /\ notifs' = Append(notifs, NotificationRow(u, current))
          /\ uncounted' = {u}
          /\ pc' = "incr"
          /\ UNCHANGED dropped
       \/ /\ "db" \in Faults
          /\ InsertError(u)
          /\ dropped' = dropped \cup {u}
    /\ UNCHANGED <<accounts, subs, brokerVars, current, unread, marking,
                   eligible>>

IncrErrorReturns == UNCHANGED unread /\ pc' = "idle"
IncrError == UNCHANGED unread /\ pc' = "notify"

\* The rest of the iteration: INCR, whose error is only logged.
IncrementUnread(u) ==
    /\ pc = "incr"
    /\ u \in uncounted
    /\ uncounted' = {}
    /\ \/ unread' = [unread EXCEPT ![u] = @ + 1] /\ pc' = "notify"
       \/ "redis" \in Faults /\ IncrError
    /\ UNCHANGED <<accounts, subs, brokerVars, current, todo, notifs, marking,
                   history>>

FinishMessage ==
    /\ pc = "notify"
    /\ todo = {}
    /\ pc' = "idle"
    /\ UNCHANGED <<accounts, subs, brokerVars, current, todo, uncounted,
                   notifs, unread, marking, history>>

-----------------------------------------------------------------------------
(* The HTTP handlers. *)

\* INSERT ... ON CONFLICT DO NOTHING; the foreign key refuses a user whose
\* account is gone (an access token outlives the account).
Subscribe(u, c) ==
    /\ Serving
    /\ u \in accounts
    /\ subs' = subs \cup {<<u, c>>}
    /\ eligible' = [e \in Events |->
                        IF published[e] = c /\ ~LookedUp(e)
                        THEN eligible[e] \cup {u}
                        ELSE eligible[e]]
    /\ UNCHANGED <<accounts, brokerVars, consumerVars, notifs, unread,
                   marking, dropped>>

Unsubscribe(u, c) ==
    /\ Serving
    /\ subs' = subs \ {<<u, c>>}
    /\ UNCHANGED <<accounts, brokerVars, consumerVars, notifs, unread, marking,
                   history>>

\* MarkAsRead up to the UPDATE.  n may be any notification: when it is not
\* one of u's the UPDATE matches no row, and the request goes on all the same.
MarkAsRead(u, n) ==
    /\ Serving
    /\ marking[u] < MaxRequests
    /\ notifs' = RowsMarkedRead(u, n)
    /\ marking' = [marking EXCEPT ![u] = @ + 1]
    /\ UNCHANGED <<accounts, subs, brokerVars, consumerVars, unread, history>>

\* The rest of MarkAsRead: DEL, whose error is only logged.
ResetUnread(u) ==
    /\ marking[u] > 0
    /\ marking' = [marking EXCEPT ![u] = @ - 1]
    /\ \/ unread' = [unread EXCEPT ![u] = CounterAfterReset(u)]
       \/ "redis" \in Faults /\ UNCHANGED unread
    /\ UNCHANGED <<accounts, subs, brokerVars, consumerVars, notifs, history>>

\* DELETE FROM users by auth-service: the subscriptions go by cascade, the
\* notifications and the counter stay.
DeleteUser(u) ==
    /\ u \in accounts
    /\ accounts' = accounts \ {u}
    /\ subs' = {s \in subs : s[1] # u}
    /\ UNCHANGED <<brokerVars, consumerVars, notifs, unread, marking, history>>

-----------------------------------------------------------------------------
(* The process dies; started again, it consumes what the queue still holds. *)

\* With autoAck everything delivered is gone for good.
RequeuedUnlessHandled ==
    IF pc \in {"lookup", "notify", "incr"} THEN current - 1 ELSE taken
GoneWithTheProcess == delivered

Crash ==
    /\ "crash" \in Faults
    /\ Serving
    /\ pc' = "down"
    /\ connected' = FALSE
    /\ taken' = GoneWithTheProcess
    /\ todo' = {}
    /\ uncounted' = {}
    /\ marking' = [u \in Users |-> 0]
    /\ UNCHANGED <<accounts, subs, published, delivered, current, notifs,
                   unread, history>>

Restart ==
    /\ pc = "down"
    /\ pc' = "idle"
    /\ connected' = TRUE
    /\ UNCHANGED <<accounts, subs, published, delivered, taken, current, todo,
                   uncounted, notifs, unread, marking, history>>

-----------------------------------------------------------------------------
ConsumerStep ==
    \/ TakeMessage
    \/ LeaveLoop
    \/ LookUpSubscribers
    \/ \E u \in Users : CreateNotification(u) \/ IncrementUnread(u)
    \/ FinishMessage

Request ==
    \E u \in Users :
        \/ \E c \in Components : Subscribe(u, c) \/ Unsubscribe(u, c)
        \/ \E n \in DOMAIN notifs : MarkAsRead(u, n)
        \/ ResetUnread(u)
        \/ DeleteUser(u)

Next ==
    \/ \E c \in Components : PublishPriceChanged(c)
    \/ Deliver
    \/ ConnectionLost
    \/ ConsumerStep
    \/ Request
    \/ Crash
    \/ Restart

Spec == Init /\ [][Next]_vars

(***************************************************************************)
(* The broker pushes what it holds to a connected consumer and the         *)
(* goroutine keeps running.  Users, failures and an operator's restart     *)
(* owe nothing.  (A step of the goroutine changes pc or todo.)             *)
(***************************************************************************)
FairSpec == Spec /\ WF_delivered(Deliver) /\ WF_<<pc, todo>>(ConsumerStep)

-----------------------------------------------------------------------------
(* Properties. *)

NotificationsOf(u) == {i \in DOMAIN notifs : notifs[i].user = u}
Notified(u, e) == \E i \in DOMAIN notifs : notifs[i].user = u /\ notifs[i].event = e

TypeOK ==
    /\ accounts \subseteq Users
    /\ subs \subseteq Users \X Components
    /\ published \in Seq(Components)
    /\ eligible \in [Events -> SUBSET Users]
    /\ dropped \subseteq Users
    /\ delivered \in 0 .. Len(published)
    /\ taken \in 0 .. delivered
    /\ connected \in BOOLEAN
    /\ pc \in PcState
    /\ current \in 0 .. taken
    /\ pc \in {"lookup", "notify", "incr"} => current > 0
    /\ todo \subseteq Users
    /\ uncounted \subseteq Users
    /\ notifs \in Seq(Notification)
    /\ unread \in [Users -> Nat]
    /\ marking \in [Users -> Nat]

(***************************************************************************)
(* A user gets the notifications of price changes in the order the changes *)
(* were published, and never two for one change, whatever is subscribed,   *)
(* unsubscribed, lost or restarted in between.                             *)
(***************************************************************************)
NotificationsInOrder ==
    \A i, j \in DOMAIN notifs :
        (i < j /\ notifs[i].user = notifs[j].user)
            => notifs[i].event < notifs[j].event

(***************************************************************************)
(* Nobody is notified of a change of a component they were not subscribed  *)
(* to at some moment between the publication of the change and the lookup  *)
(* of its subscribers, although subscriptions change all the while.        *)
(***************************************************************************)
OnlySubscribersNotified ==
    \A i \in DOMAIN notifs :
        notifs[i].event = current => notifs[i].user \in eligible[current]

(***************************************************************************)
(* The counter in Redis, with the increment still to come, never exceeds   *)
(* the number of the user's rows in the table: INCR follows INSERT, and    *)
(* failures, restarts and resets can only lose increments.                 *)
(***************************************************************************)
Pending(u) == IF u \in uncounted THEN 1 ELSE 0

CounterCovered ==
    \A u \in Users :
        unread[u] + Pending(u) <= Cardinality(NotificationsOf(u))

(***************************************************************************)
(* What one user has not read yet is not touched by others: a notification *)
(* becomes read only by a request its owner started, and a counter goes    *)
(* down only when a request of its owner ends.                             *)
(***************************************************************************)
OwnRequestsOnly ==
    [][\A u \in Users :
          /\ (\E i \in NotificationsOf(u) :
                 ~notifs[i].isRead /\ notifs'[i].isRead)
                => marking'[u] = marking[u] + 1
          /\ unread'[u] < unread[u] => marking'[u] = marking[u] - 1]_vars

(***************************************************************************)
(* The service implements Mailboxes: the lookup settles whom a change goes *)
(* to, each INSERT sends it, and only errors of the database, lost         *)
(* connections and crashes lose anything.  Errors of Redis do not, however *)
(* the loop, the broker, the handlers and the other service interleave.    *)
(***************************************************************************)
Pairs(rows) == {<<notifs[i].user, notifs[i].event>> : i \in rows}

Boxes == INSTANCE Mailboxes
             WITH MayLose <- Faults \cap {"db", "connection", "crash"} # {},
                  at <- IF pc = "lookup" THEN current - 1 ELSE current,
                  to <- todo,
                  box <- Pairs(DOMAIN notifs),
                  opened <- Pairs({i \in DOMAIN notifs : notifs[i].isRead})

ImplementsMailboxes == Boxes!Spec

Waiting(u, e) == e > taken /\ e \in Events /\ <<u, published[e]>> \in subs

Reached(u, e) ==
    /\ e \in Events
    /\ \/ <<u, published[e]>> \notin subs
       \/ Notified(u, e)
       \/ current = e /\ u \in dropped

(***************************************************************************)
(* A price change that is still to be consumed reaches each subscriber who *)
(* stays subscribed, unless the process dies or its connection is lost, or *)
(* a database error hits that very user or the lookup: errors met for      *)
(* other users, for the counter or for other events cost nothing, and      *)
(* never end the loop.                                                     *)
(***************************************************************************)
SubscriberNotified ==
    \A u \in Users, e \in 1 .. MaxEvents :
        Waiting(u, e) ~> (~connected \/ Reached(u, e))

(***************************************************************************)
(* What the comment in the consumer loop says: on each price change all    *)
(* subscribed users are notified.                                          *)
(***************************************************************************)
EverySubscriberNotified ==
    \A u \in Users, e \in 1 .. MaxEvents : Waiting(u, e) ~> Reached(u, e)

(***************************************************************************)
(* What the comment on GetUnreadCount says: it returns the number of the   *)
(* user's unread notifications.  Asked only while nothing is under way.    *)
(***************************************************************************)
Quiet(u) == pc = "idle" /\ marking[u] = 0
UnreadOf(u) == {i \in NotificationsOf(u) : ~notifs[i].isRead}

UnreadCountExact ==
    \A u \in Users : Quiet(u) => unread[u] = Cardinality(UnreadOf(u))
=============================================================================
