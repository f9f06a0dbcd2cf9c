---------------------------- MODULE PriceAlerts ----------------------------
(***************************************************************************)
(* From a price list to the user: the importer (PriceLists), the offers of *)
(* aggregator-service (Offers) and the subscriptions and notifications of  *)
(* notifications-service (Notifications) as one system.                    *)
(*                                                                         *)
(* The services share the two queues.  The consumer of the import queue    *)
(* takes its rows from the list it has opened; a message published on      *)
(* exchange aggregator-ex is routed to queue price.changed, which the      *)
(* aggregator declares and binds before it publishes anything.             *)
(*                                                                         *)
(* The jobs of the update consumer are left out: they read table           *)
(* shop_components, which nothing in the repository creates.  So are       *)
(* uploads, whose races with the consumer Offers shows and the properties  *)
(* below would except, and reading notifications and deleting accounts,    *)
(* which change nothing that is asked here.                                *)
(***************************************************************************)
EXTENDS Integers, Sequences, FiniteSets

CONSTANTS
    Users, Components, Shops, Prices,
    Names, Lists, ImporterRuns, Mishaps,     \* see PriceLists
    AggregatorFaults,                     \* Faults of Offers
    NotificationsFaults,                  \* Faults of Notifications
    MaxLists, MaxRows,                    \* bounds
    MaxFailures                           \* bound: of processes and connections

ASSUME PriceAlertsAssumption ==
    /\ Names \subseteq Nat /\ IsFiniteSet(Names)
    /\ Mishaps \subseteq {"rename", "publish", "importer"}
    /\ Components # {} /\ Shops # {} /\ Prices \subseteq Nat
    /\ AggregatorFaults \subseteq {"db", "broker", "shortRow", "crash"}
    /\ NotificationsFaults \subseteq {"db", "redis", "connection", "crash"}
    /\ MaxLists \in Nat /\ MaxRows \in Nat /\ MaxFailures \in Nat

VARIABLES
    inbox, processed, entries, moved, queue, buffer, atHand, newest, imported,
    lost,
    up, connected, pc, item, pages, task, jobs, offers, prices, published,
    readRows, changes, unannounced, unrecorded, orphaned,
    accounts, subs, delivered, taken, consuming, step, current, todo,
    uncounted, notifs, unread, marking, eligible, dropped,
    seen,        \* history: the price of each offer last given to each user:
                 \* read for their page, or written into a notification
    passed,      \* history: <<user, offer>>: a change of the offer, news to
                 \* the user, went to its subscribers past them
    failures,    \* history: failures of processes and connections
    missed       \* history: users whom a failure of notifications-service
                 \* may have cost a notification

\* What routing by the key leaves of an event, for Notifications.
Routed == [e \in DOMAIN published |-> published[e].key[1]]

List == INSTANCE PriceLists

Aggregator == INSTANCE Offers
    WITH Known <- Components, Uploads <- {}, Jobs <- {},
         Faults <- AggregatorFaults

Notifier == INSTANCE Notifications
    WITH Faults <- NotificationsFaults, MaxEvents <- MaxRows, MaxRequests <- 0,
         published <- Routed, connected <- consuming, pc <- step

lists      == <<inbox, processed, entries, moved, queue, buffer, atHand,
                newest, imported, lost>>
aggregator == <<up, connected, pc, item, pages, task, jobs, offers, prices,
                published, readRows, changes, unannounced, unrecorded,
                orphaned>>
notifier   == <<accounts, subs, delivered, taken, consuming, step, current,
                todo, uncounted, notifs, unread, marking, eligible, dropped>>
knowledge  == <<seen, passed, missed>>
vars == <<lists, aggregator, notifier, knowledge, failures>>

Init ==
    /\ List!Init
    /\ Aggregator!Init
    /\ Notifier!Init
    /\ seen = [u \in Users |-> [k \in Aggregator!Keys |-> 0]]
    /\ passed = {}
    /\ missed = {}
    /\ failures = 0

Fail == failures < MaxFailures /\ failures' = failures + 1
-----------------------------------------------------------------------------
(* Price lists. *)

Deliver ==
    /\ up /\ connected
    /\ List!Deliver
    /\ UNCHANGED <<aggregator, notifier, knowledge>>

ImportList ==
    /\ List!OpenList
    /\ IF atHand' = {} THEN UNCHANGED aggregator
       ELSE Aggregator!StartImport("import")
    /\ UNCHANGED <<notifier, knowledge>>

ImportRow ==
    \E k \in Aggregator!Keys, p \in Prices :
        /\ List!NextRow([key |-> k, price |-> p])
        /\ Aggregator!ReadRow("import", k, p)
        /\ UNCHANGED <<notifier, knowledge>>

EndList ==
    /\ List!CloseList
    /\ Aggregator!FinishImport("import")
    /\ UNCHANGED <<notifier, knowledge>>

ListStep ==
    \/ \E n \in Names : List!PlaceList(n)
    \/ \E i \in ImporterRuns :
          List!ReadDir(i) \/ List!MoveFile(i) \/ List!PublishPath(i)

ImporterDies ==
    /\ Fail
    /\ \E i \in ImporterRuns : List!ImporterDies(i)
    /\ UNCHANGED <<aggregator, notifier, knowledge>>
-----------------------------------------------------------------------------
(* Offers. *)

\* What the upsert, the history and the publication of a row do.  A message
\* the broker accepts is one Notifications sees published.
RowStep ==
    /\ Aggregator!RowStep("import")
    /\ IF Len(published') > Len(published)
       THEN \E c \in Components : Notifier!PublishPriceChanged(c)
       ELSE UNCHANGED notifier
    /\ UNCHANGED <<lists, knowledge>>

AggregatorCutOff ==
    /\ Fail
    /\ Aggregator!ConnectionLost
    /\ List!ConsumerCutOff
    /\ UNCHANGED <<notifier, knowledge>>

AggregatorDies ==
    /\ Fail
    /\ Aggregator!Crash
    /\ List!ConsumerDies
    /\ UNCHANGED <<notifier, knowledge>>
-----------------------------------------------------------------------------
(* Notifications. *)

\* A mutant: the columns for the old and the new price are swapped.
OldPriceTold(event) == event.old

PriceTold(event) == event.price

\* A notification inserted tells its user the new price.
Tell ==
    LET row   == notifs'[Len(notifs')]
        event == published[row.event]
    IN  /\ seen' = [seen EXCEPT ![row.user][event.key] = PriceTold(event)]
        /\ passed' = passed \ {<<row.user, event.key>>}

NewsTo(u, event) ==
    Aggregator!Stored(seen[u][event.key]) # Aggregator!Stored(event.price)

\* The subscribers have been looked up; the others will not be told.
PassBy ==
    LET event  == published[current]
        others == {u \in Users : <<u, event.key[1]>> \notin subs}
    IN  /\ passed' = {p \in passed : p[1] \notin others \/ p[2] # event.key}
                         \cup {<<u, event.key>> : u \in {v \in others : NewsTo(v, event)}}
        /\ UNCHANGED seen

LookupDone == step = "lookup" /\ step' = "notify"

Learn ==
    IF Len(notifs') > Len(notifs) THEN Tell
    ELSE IF LookupDone THEN PassBy
    ELSE UNCHANGED <<seen, passed>>

NotifierStep ==
    /\ UNCHANGED <<lists, aggregator>>
    /\ Notifier!Deliver \/ Notifier!ConsumerStep
    /\ Learn
    /\ missed' = missed \cup dropped'

\* The page asks for the offers of a component.
FetchOffers(u, c) ==
    /\ up
    /\ UNCHANGED <<lists, aggregator, notifier, missed>>
    /\ seen' = [seen EXCEPT ![u] =
                  [k \in Aggregator!Keys |-> IF k[1] = c THEN Aggregator!OldPrice(k)
                                             ELSE seen[u][k]]]
    /\ passed' = {p \in passed : p[1] # u \/ p[2][1] # c}

\* The button on it, now or later: nothing is asked for again.
Subscribe(u, c) ==
    /\ <<u, c>> \notin subs
    /\ UNCHANGED <<lists, aggregator, knowledge>>
    /\ Notifier!Subscribe(u, c)

Unsubscribe(u, c) ==
    /\ <<u, c>> \in subs
    /\ UNCHANGED <<lists, aggregator, knowledge>>
    /\ Notifier!Unsubscribe(u, c)

NotifierFails ==
    /\ Fail
    /\ UNCHANGED <<lists, aggregator, seen, passed>>
    /\ Notifier!Crash \/ Notifier!ConnectionLost
    /\ missed' = Users
-----------------------------------------------------------------------------
Work ==
    \/ ListStep /\ UNCHANGED <<aggregator, notifier, knowledge>>
    \/ Deliver \/ ImportList \/ ImportRow \/ EndList
    \/ RowStep
    \/ Aggregator!Restart /\ UNCHANGED <<lists, notifier, knowledge>>
    \/ NotifierStep
    \/ \E u \in Users, c \in Components :
          FetchOffers(u, c) \/ Subscribe(u, c) \/ Unsubscribe(u, c)
    \/ UNCHANGED <<lists, aggregator, knowledge>> /\ Notifier!Restart

Next ==
    \/ Work /\ UNCHANGED failures
    \/ ImporterDies \/ AggregatorCutOff \/ AggregatorDies \/ NotifierFails

Spec == Init /\ [][Next]_vars

(***************************************************************************)
(* The goroutines of both services keep running and the broker pushes what *)
(* it holds.  Nobody owes lists, runs of the importer, visits of a page,   *)
(* subscriptions or restarts.                                              *)
(***************************************************************************)
FairSpec ==
    /\ Spec
    /\ WF_vars(RowStep /\ UNCHANGED failures)
    /\ WF_vars(NotifierStep /\ UNCHANGED failures)
-----------------------------------------------------------------------------
(* Properties. *)

TypeOK ==
    /\ List!TypeOK
    /\ Aggregator!TypeOK
    /\ Notifier!TypeOK
    /\ seen \in [Users -> [Aggregator!Keys -> Nat]]
    /\ passed \subseteq Users \X Aggregator!Keys
    /\ missed \subseteq Users
    /\ failures \in 0 .. MaxFailures

NewestListOpened == List!NewestListOpened

\* What the table says and what was announced has all arrived.
Settled(k) ==
    /\ ~Aggregator!At({"record", "publish"}, k)
    /\ step = "idle" /\ taken = Len(published)

Informed(u, k) ==
    \/ Aggregator!Stored(seen[u][k]) = Aggregator!OldPrice(k)
    \/ <<u, k>> \in passed
    \/ k \in unannounced
    \/ u \in missed

(***************************************************************************)
(* What a user was given last of an offer is its price in the table, once  *)
(* all events have been handled: read for the page, or told by a           *)
(* notification.  No change is announced as another one, and whoever       *)
(* subscribes before the subscribers of a change are looked up is told, at *)
(* whatever point the change was when the page was read (HandlePriceChange,*)
(* ImportPriceList).  Excepted are failures, and users past whom a change  *)
(* went because they subscribed after its lookup, or not at all: the page  *)
(* is not read again with the subscription (ComponentCard.tsx).            *)
(***************************************************************************)
SubscriberKnowsPrice ==
    \A u \in Users, k \in Aggregator!Keys : Settled(k) => Informed(u, k)

(***************************************************************************)
(* And a user who has an old price comes to know the new one, through both *)
(* services and both queues, unless it goes past them.                     *)
(***************************************************************************)
SubscriberLearnsPrice ==
    \A u \in Users, k \in Aggregator!Keys : ~Informed(u, k) ~> Informed(u, k)
=============================================================================
