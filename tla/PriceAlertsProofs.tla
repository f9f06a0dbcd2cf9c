------------------------- MODULE PriceAlertsProofs -------------------------
(***************************************************************************)
(* What the system as a whole promises of its safety, from the importer to *)
(* the subscriber: the newest list of a name is the one opened last, and   *)
(* once all is announced and handled, subscribers know the prices of the   *)
(* table.                                                                  *)
(*                                                                         *)
(* Two invariants, for the first and the second half of the way: ListInv   *)
(* follows a list from the directory to the consumer, AlertInv a price     *)
(* from the row that has it to the users.                                  *)
(*                                                                         *)
(* Then the services as parts of the whole: every step of the system is a  *)
(* step of aggregator-service's specification or leaves it alone, likewise *)
(* of notifications-service's, so that what OffersProofs and               *)
(* NotificationsProofs prove of each holds here.                           *)
(***************************************************************************)
EXTENDS PriceAlerts, SequenceTheorems, FiniteSetTheorems,
        WellFoundedInduction, TLAPS

NoFile == List!NoFile

Holds(q, n) == \E k \in DOMAIN q : q[k] = n

\* Paths whose publication is due, that are queued, or that are pushed.
Announced(n) ==
    \/ \E i \in ImporterRuns : n \in moved[i]
    \/ Holds(queue, n)
    \/ Holds(buffer, n)

ListType ==
    /\ inbox = [n \in Names |-> inbox[n]]
    /\ processed = [n \in Names |-> processed[n]]
    /\ newest = [n \in Names |-> newest[n]]
    /\ imported = [n \in Names |-> imported[n]]
    /\ entries \in [ImporterRuns -> SUBSET Names]
    /\ moved \in [ImporterRuns -> SUBSET Names]
    /\ queue \in Seq(Names) /\ buffer \in Seq(Names)

\* A run publishes the path it has moved.
Working == \A i \in ImporterRuns :
    moved[i] # {} => entries[i] # {} /\ moved[i] = {List!Current(i)}

\* The newest file is in the directory, or was the last one to be moved.
NewestKept == \A n \in Names :
    IF inbox[n] # NoFile THEN inbox[n].number = newest[n]
                         ELSE processed[n].number = newest[n]

\* A path that was or will be published leads to a file of that name.
PathsLead == \A n \in Names :
    /\ Announced(n) => processed[n] # NoFile
    /\ inbox[n] # NoFile => inbox[n].name = n
    /\ processed[n] # NoFile => processed[n].name = n

\* Nobody is left to open the newest list only if it was opened last.
Opened == \A n \in Names \ lost :
    inbox[n] = NoFile /\ ~Announced(n) => imported[n] = newest[n]

ListInv == ListType /\ Working /\ NewestKept /\ PathsLead /\ Opened

ListNext ==
    \/ \E n \in Names : List!PlaceList(n)
    \/ \E i \in ImporterRuns : \/ List!ReadDir(i) \/ List!MoveFile(i)
                               \/ List!PublishPath(i) \/ List!ImporterDies(i)
    \/ List!Deliver \/ List!OpenList
    \/ \E row : List!NextRow(row)
    \/ List!CloseList \/ List!ConsumerCutOff \/ List!ConsumerDies

LEMMA InvOpens == ListInv => NewestListOpened
    BY DEF ListInv, Opened, NewestListOpened, List!NewestListOpened, List!UnderWay,
           Announced, Holds, List!Range, NoFile

LEMMA ListInit == Init => ListInv
    BY DEF Init, List!Init, ListInv, ListType, Working, NewestKept, PathsLead, Opened,
           Announced, Holds, NoFile, List!NoFile

\* Lists change by their own steps only.
LEMMA ListsOwnSteps == [Next]_vars => ListNext \/ UNCHANGED lists
<1>1. CASE Work
    <2>1. CASE ListStep /\ UNCHANGED <<aggregator, notifier, knowledge>>
        BY <2>1 DEF ListStep, ListNext
    <2>2. CASE Deliver \/ ImportList \/ EndList
        BY <2>2 DEF Deliver, ImportList, EndList, ListNext
    <2>3. CASE ImportRow
        <3>1. PICK k \in Aggregator!Keys, p \in Prices :
                  List!NextRow([key |-> k, price |-> p])
            BY <2>3 DEF ImportRow
        <3>2. \E row : List!NextRow(row)
            BY <3>1
        <3> QED
            BY <3>2 DEF ListNext
    <2>4. CASE RowStep \/ NotifierStep
        BY <2>4 DEF RowStep, NotifierStep
    <2>5. CASE \E u \in Users, c \in Components :
                  FetchOffers(u, c) \/ Subscribe(u, c) \/ Unsubscribe(u, c)
        BY <2>5 DEF FetchOffers, Subscribe, Unsubscribe
    <2>6. CASE UNCHANGED lists
        BY <2>6
    <2> QED
        BY <1>1, <2>1, <2>2, <2>3, <2>4, <2>5, <2>6 DEF Work
<1>2. CASE ImporterDies \/ AggregatorCutOff \/ AggregatorDies \/ NotifierFails
    BY <1>2 DEF ImporterDies, AggregatorCutOff, AggregatorDies, NotifierFails,
                ListNext
<1>3. CASE UNCHANGED vars
    BY <1>3 DEF vars
<1> QED
    BY <1>1, <1>2, <1>3 DEF Next
-----------------------------------------------------------------------------
\* The entry that a run is at is one of its entries.
LEMMA CurrentEntry ==
    ASSUME ListInv, NEW i \in ImporterRuns, entries[i] # {}
    PROVE  List!Current(i) \in entries[i] /\ List!Current(i) \in Names
<1>1. entries[i] \subseteq Names /\ entries[i] \subseteq Nat
    BY PriceAlertsAssumption DEF ListInv, ListType
<1> DEFINE upTo(x) == entries[i] \cap 0 .. x
           T       == {upTo(x) : x \in entries[i]}
<1>2. T \subseteq FiniteSubsetsOf(Nat) /\ T # {}
    <2>1. ASSUME NEW x \in entries[i]
          PROVE  upTo(x) \in FiniteSubsetsOf(Nat)
        <3>1. IsFiniteSet(0 .. x) /\ upTo(x) \in SUBSET (0 .. x)
            BY <1>1, FS_Interval
        <3>2. IsFiniteSet(upTo(x))
            BY <3>1, FS_Subset
        <3> QED
            BY <1>1, <3>2 DEF FiniteSubsetsOf
    <2> QED
        BY <2>1
<1>3. PICK t \in T : \A s \in T : <<s, t>> \notin StrictSubsetOrdering(Nat)
    <2> HIDE DEF T
    <2> QED
        BY <1>2, WFMin, FS_StrictSubsetOrderingWellFounded
<1>4. PICK x \in entries[i] : t = upTo(x)
    OBVIOUS
<1>5. ASSUME NEW y \in entries[i], ~(x <= y)
      PROVE  FALSE
    <2>1. upTo(y) \subseteq upTo(x) /\ x \in upTo(x) /\ x \notin upTo(y)
        BY <1>1, <1>5
    <2>2. <<upTo(y), t>> \in StrictSubsetOrdering(Nat)
        BY <1>1, <1>4, <2>1 DEF StrictSubsetOrdering
    <2> QED
        BY <1>3, <2>2
<1> QED
    BY <1>1, <1>4, <1>5 DEF List!Current, List!Min

LEMMA PlaceListKeeps ==
    ASSUME ListInv, NEW n \in Names, List!PlaceList(n)
    PROVE  ListInv'
<1>1. /\ UNCHANGED <<processed, entries, moved, queue, buffer, imported>>
      /\ newest' = [newest EXCEPT ![n] = List!Placed + 1]
      /\ lost' = lost \ {n}
    BY DEF List!PlaceList, List!runs, List!messages
<1>2. PICK rows \in Lists :
          inbox' = [inbox EXCEPT ![n] =
                       [number |-> List!Placed + 1, name |-> n, rows |-> rows]]
    BY DEF List!PlaceList
<1>3. [number |-> List!Placed + 1, name |-> n, rows |-> rows] # NoFile
    BY DEF NoFile, List!NoFile
<1> QED
    BY <1>1, <1>2, <1>3 DEF ListInv, ListType, Working, NewestKept, PathsLead, Opened,
                           Announced, List!Current

LEMMA MoveFileKeeps ==
    ASSUME ListInv, NEW i \in ImporterRuns, List!MoveFile(i)
    PROVE  ListInv'
<1> DEFINE n == List!Current(i)
<1>1. /\ UNCHANGED <<queue, buffer, newest, imported, lost>>
      /\ moved[i] = {}
    BY DEF List!MoveFile, List!messages, List!history
<1>2. CASE UNCHANGED <<inbox, processed, moved>> /\ List!Skip(i)
    BY <1>1, <1>2 DEF ListInv, ListType, Working, NewestKept, PathsLead, Opened,
                      Announced, List!Skip, List!Current
<1>3. CASE /\ inbox[n] # NoFile
           /\ inbox' = [inbox EXCEPT ![n] = NoFile]
           /\ processed' = [processed EXCEPT ![n] = inbox[n]]
           /\ moved' = [moved EXCEPT ![i] = {n}]
           /\ UNCHANGED entries
    <2>1. n \in Names
        BY CurrentEntry DEF List!MoveFile
    <2> HIDE DEF n
    <2>2. ListType' /\ NewestKept'
        BY <1>1, <1>3, <2>1 DEF ListInv, ListType, NewestKept
    <2>3. PathsLead' /\ Opened'
        BY <1>1, <1>3, <2>1 DEF ListInv, ListType, PathsLead, Opened, Announced
    <2>4. Working'
        BY <1>1, <1>3 DEF ListInv, ListType, Working, List!Current, List!MoveFile, n
    <2> QED
        BY <2>2, <2>3, <2>4 DEF ListInv
<1> QED
    BY <1>2, <1>3 DEF List!MoveFile, NoFile, List!files

\* What a sequence holds after a message came or went.
LEMMA HeadAndTail ==
    ASSUME NEW q \in Seq(Names), q # <<>>
    PROVE  /\ Head(q) \in Names /\ Tail(q) \in Seq(Names)
           /\ \A n : Holds(q, n) <=> n = Head(q) \/ Holds(Tail(q), n)
<1>1. /\ Head(q) \in Names /\ Tail(q) \in Seq(Names) /\ Head(q) = q[1]
      /\ Len(q) \in Nat \ {0} /\ DOMAIN q = 1 .. Len(q)
      /\ DOMAIN Tail(q) = 1 .. Len(q) - 1
      /\ \A k \in 1 .. Len(q) - 1 : Tail(q)[k] = q[k + 1]
    OBVIOUS
<1>2. ASSUME NEW n, Holds(q, n), n # Head(q)
      PROVE  Holds(Tail(q), n)
    <2>1. PICK k \in DOMAIN q : q[k] = n
        BY <1>2 DEF Holds
    <2>2. k - 1 \in DOMAIN Tail(q) /\ Tail(q)[k - 1] = n
        BY <1>1, <1>2, <2>1
    <2> QED
        BY <2>2 DEF Holds
<1>3. ASSUME NEW n, Holds(Tail(q), n)
      PROVE  Holds(q, n)
    <2>1. PICK k \in DOMAIN Tail(q) : Tail(q)[k] = n
        BY <1>3 DEF Holds
    <2>2. k + 1 \in DOMAIN q /\ q[k + 1] = n
        BY <1>1, <2>1
    <2> QED
        BY <2>2 DEF Holds
<1>4. Holds(q, Head(q))
    BY <1>1 DEF Holds
<1> QED
    BY <1>1, <1>2, <1>3, <1>4

LEMMA Appended ==
    ASSUME NEW q \in Seq(Names), NEW m \in Names
    PROVE  /\ Append(q, m) \in Seq(Names)
           /\ \A n : Holds(Append(q, m), n) <=> n = m \/ Holds(q, n)
<1>1. /\ Append(q, m) \in Seq(Names) /\ Len(q) \in Nat
      /\ DOMAIN q = 1 .. Len(q) /\ DOMAIN Append(q, m) = 1 .. Len(q) + 1
      /\ \A k \in DOMAIN q : Append(q, m)[k] = q[k]
      /\ Append(q, m)[Len(q) + 1] = m
    OBVIOUS
<1>2. ASSUME NEW n
      PROVE  Holds(Append(q, m), n) <=> n = m \/ Holds(q, n)
    BY <1>1 DEF Holds
<1> QED
    BY <1>1, <1>2

LEMMA PublishPathKeeps ==
    ASSUME ListInv, NEW i \in ImporterRuns, List!PublishPath(i)
    PROVE  ListInv'
<1> DEFINE n == List!Current(i)
<1>1. /\ UNCHANGED <<inbox, processed, buffer, newest, imported>>
      /\ moved[i] # {}
      /\ moved' = [moved EXCEPT ![i] = {}]
      /\ entries' = [entries EXCEPT ![i] = @ \ {n}]
    BY DEF List!PublishPath, List!files, List!Skip
<1>2. moved[i] = {n} /\ n \in Names
    BY <1>1, CurrentEntry DEF ListInv, Working
<1>3. Working'
    BY <1>1 DEF ListInv, ListType, Working, List!Current
<1> HIDE DEF n
<1>4. CASE queue' = Append(queue, n) /\ UNCHANGED lost
    <2>1. /\ queue' \in Seq(Names)
          /\ \A m : Holds(queue', m) <=> m = n \/ Holds(queue, m)
        BY <1>2, <1>4, Appended DEF ListInv, ListType
    <2>2. ASSUME NEW m \in Names
          PROVE  Announced(m)' <=> Announced(m)
        BY <1>1, <1>2, <2>1 DEF ListInv, ListType, Announced
    <2> QED
        BY <1>1, <1>3, <1>4, <2>1, <2>2
        DEF ListInv, ListType, NewestKept, PathsLead, Opened
<1>5. CASE UNCHANGED queue /\ lost' = lost \cup moved[i]
    BY <1>1, <1>2, <1>3, <1>5
    DEF ListInv, ListType, NewestKept, PathsLead, Opened, Announced
<1> QED
    BY <1>4, <1>5 DEF List!PublishPath, n

LEMMA ImporterDiesKeeps ==
    ASSUME ListInv, NEW i \in ImporterRuns, List!ImporterDies(i)
    PROVE  ListInv'
<1>1. /\ UNCHANGED <<inbox, processed, queue, buffer, newest, imported>>
      /\ moved' = [moved EXCEPT ![i] = {}]
      /\ entries' = [entries EXCEPT ![i] = {}]
      /\ lost' = lost \cup moved[i]
    BY DEF List!ImporterDies, List!files, List!messages
<1> QED
    BY <1>1 DEF ListInv, ListType, Working, NewestKept, PathsLead, Opened, Announced,
                List!Current

LEMMA DeliverKeeps ==
    ASSUME ListInv, List!Deliver
    PROVE  ListInv'
<1>1. /\ UNCHANGED <<inbox, processed, entries, moved, newest, imported, lost>>
      /\ queue # <<>> /\ buffer' = Append(buffer, Head(queue)) /\ queue' = Tail(queue)
    BY DEF List!Deliver, List!files, List!runs, List!history
<1>2. /\ Head(queue) \in Names /\ queue' \in Seq(Names)
      /\ \A n : Holds(queue, n) <=> n = Head(queue) \/ Holds(queue', n)
    BY <1>1, HeadAndTail DEF ListInv, ListType
<1>3. /\ buffer' \in Seq(Names)
      /\ \A n : Holds(buffer', n) <=> n = Head(queue) \/ Holds(buffer, n)
    BY <1>1, <1>2, Appended DEF ListInv, ListType
<1>4. ASSUME NEW n \in Names
      PROVE  Announced(n)' <=> Announced(n)
    BY <1>1, <1>2, <1>3 DEF Announced
<1> QED
    BY <1>1, <1>2, <1>3, <1>4
    DEF ListInv, ListType, Working, NewestKept, PathsLead, Opened, List!Current

LEMMA OpenListKeeps ==
    ASSUME ListInv, List!OpenList
    PROVE  ListInv'
<1> DEFINE n == Head(buffer)
<1>1. /\ UNCHANGED <<inbox, processed, entries, moved, queue, newest, lost>>
      /\ buffer # <<>> /\ buffer' = Tail(buffer)
      /\ IF processed[n] = NoFile THEN UNCHANGED imported
         ELSE imported' = [imported EXCEPT ![processed[n].name] = processed[n].number]
    BY DEF List!OpenList, List!files, List!runs, List!FileAt, NoFile
<1>2. /\ n \in Names /\ buffer' \in Seq(Names)
      /\ \A m : Holds(buffer, m) <=> m = n \/ Holds(buffer', m)
    BY <1>1, HeadAndTail DEF ListInv, ListType
<1> HIDE DEF n
<1>3. imported' = [imported EXCEPT ![n] = processed[n].number]
    BY <1>1, <1>2 DEF ListInv, PathsLead, Announced
<1>4. ASSUME NEW m \in Names
      PROVE  /\ Announced(m)' => Announced(m)
             /\ m # n => (Announced(m)' <=> Announced(m))
    BY <1>1, <1>2 DEF Announced
<1> QED
    BY <1>1, <1>2, <1>3, <1>4
    DEF ListInv, ListType, Working, NewestKept, PathsLead, Opened, List!Current

LEMMA BufferLostKeeps ==
    ASSUME ListInv, List!BufferLost
    PROVE  ListInv'
<1>1. /\ UNCHANGED <<inbox, processed, entries, moved, queue, newest, imported>>
      /\ buffer' = <<>>
      /\ (\A n : n \in lost' <=> n \in lost \/ Holds(buffer, n)) /\ ~\E n : Holds(buffer', n)
    BY DEF List!BufferLost, List!files, List!runs, List!Range, Holds
<1>2. ASSUME NEW n \in Names
      PROVE  /\ Announced(n)' => Announced(n)
             /\ n \notin lost' => (Announced(n)' <=> Announced(n))
    BY <1>1 DEF Announced
<1>3. ListType' /\ Working' /\ NewestKept'
    <2>1. buffer' \in Seq(Names)
        BY <1>1
    <2>2. ListType'
        BY <1>1, <2>1 DEF ListInv, ListType
    <2>3. Working'
        BY <1>1 DEF ListInv, Working, List!Current
    <2> QED
        BY <1>1, <2>2, <2>3 DEF ListInv, NewestKept
<1>4. PathsLead' /\ Opened'
    BY <1>1, <1>2 DEF ListInv, PathsLead, Opened
<1> QED
    BY <1>3, <1>4 DEF ListInv

LEMMA ListInvInductive == ListInv /\ [Next]_vars => ListInv'
<1> SUFFICES ASSUME ListInv, ListNext \/ UNCHANGED lists
             PROVE  ListInv'
    BY ListsOwnSteps
<1>1. CASE \E n \in Names : List!PlaceList(n)
    BY <1>1, PlaceListKeeps
<1>2. CASE \E i \in ImporterRuns : List!ReadDir(i)
    <2>1. PICK i \in ImporterRuns : List!ReadDir(i)
        BY <1>2
    <2>2. /\ UNCHANGED <<inbox, processed, moved, queue, buffer, newest, imported, lost>>
          /\ entries[i] = {} /\ \E S \in SUBSET Names : entries' = [entries EXCEPT ![i] = S]
        BY <2>1 DEF List!ReadDir, List!files, List!messages, List!history
    <2> QED
        BY <2>2 DEF ListInv, ListType, Working, NewestKept, PathsLead, Opened,
                    Announced, List!Current
<1>3. CASE \E i \in ImporterRuns : \/ List!MoveFile(i) \/ List!PublishPath(i)
                                  \/ List!ImporterDies(i)
    BY <1>3, MoveFileKeeps, PublishPathKeeps, ImporterDiesKeeps
<1>4. CASE List!Deliver \/ List!OpenList
    BY <1>4, DeliverKeeps, OpenListKeeps
<1>5. CASE List!ConsumerCutOff \/ List!ConsumerDies
    BY <1>5, BufferLostKeeps DEF List!ConsumerCutOff, List!ConsumerDies
<1>6. CASE (\E row : List!NextRow(row)) \/ List!CloseList \/ UNCHANGED lists
    <2>1. UNCHANGED <<inbox, processed, entries, moved, queue, buffer, newest, imported, lost>>
        BY <1>6 DEF List!NextRow, List!CloseList, List!files, List!runs, List!messages,
                    List!history, lists
    <2> QED
        BY <2>1 DEF ListInv, ListType, Working, NewestKept, PathsLead, Opened,
                    Announced, List!Current
<1> QED
    BY <1>1, <1>2, <1>3, <1>4, <1>5, <1>6 DEF ListNext

(***************************************************************************)
(* The newest list of a name is opened last: when nothing of a name is     *)
(* under way, and no message was lost, what the import consumer opened     *)
(* last is the file that was put into the directory last (publishAll and   *)
(* StartImportConsumer), for any number of names and runs of the importer. *)
(***************************************************************************)
THEOREM NewestListOpenedAlways == Spec => []NewestListOpened
<1>1. Init => ListInv
    BY ListInit
<1>2. ListInv /\ [Next]_vars => ListInv'
    BY ListInvInductive
<1>3. ListInv => NewestListOpened
    BY InvOpens
<1> QED
    BY <1>1, <1>2, <1>3, PTL DEF Spec
-----------------------------------------------------------------------------
(***************************************************************************)
(* What a subscriber knows.                                                *)
(*                                                                         *)
(* A price is right for an offer if the table has it, or if a change of    *)
(* the offer is stored and about to be announced.  The last event of an    *)
(* offer has a right price; and so has what a user was given, unless the   *)
(* last event is still on its way to them, or has gone past them.          *)
(***************************************************************************)
Keys      == Aggregator!Keys
Item      == Aggregator!Item
Stored(q) == Aggregator!Stored(q)
Price(k)  == Aggregator!OldPrice(k)
Row       == item["import"]

AtWork == pc["import"] \in {"upsert", "record", "publish"}
InLoop == step \in {"lookup", "notify", "incr"}

AlertType ==
    /\ pc = [a \in {"import", "update"} |-> pc[a]]
    /\ item = [a \in {"import", "update"} |-> item[a]]
    /\ offers = [k \in Keys |-> offers[k]]
    /\ AtWork => Row \in Item
    /\ published \in Seq(Item)
    /\ \A k \in Keys : Price(k) \in Nat /\ Stored(Price(k)) = Price(k)
    /\ seen \in [Users -> [Keys -> Nat]]
    /\ notifs \in Seq(Notifier!Notification)
    /\ delivered \in 0 .. Len(published)
    /\ taken \in 0 .. delivered
    /\ InLoop => current \in 1 .. Len(published)

\* Event m is the last one of offer k.
Last(k, m) ==
    /\ m \in DOMAIN published /\ published[m].key = k
    /\ \A n \in DOMAIN published : n > m => published[n].key # k

MidChange(k) ==
    pc["import"] \in {"record", "publish"} /\ Row.key = k /\ Row.price # Row.old

Right(k, q) == Stored(q) = Price(k) \/ MidChange(k)

\* Event m has not come to user u yet.
Waiting(u, m) ==
    \/ m > taken
    \/ m = current /\ step = "lookup"
    \/ m = current /\ step \in {"notify", "incr"} /\ u \in todo

\* The row at work tells the price before and after it.
RowInv ==
    AtWork /\ Row.key \notin unannounced =>
        /\ pc["import"] = "upsert" => Row.old = Price(Row.key)
        /\ pc["import"] # "upsert" => Stored(Row.price) = Price(Row.key)

HasLast == \A n \in DOMAIN published : \E m \in DOMAIN published :
               m >= n /\ Last(published[n].key, m)

LastRight == \A k \in Keys \ unannounced, m \in DOMAIN published :
                 Last(k, m) => Right(k, published[m].price)

\* Only a failure takes events away from the consumer.
OneAtATime == \A u \in Users \ missed : InLoop => current = taken

Knows == \A u \in Users \ missed, k \in Keys \ unannounced :
    <<u, k>> \notin passed =>
        Right(k, seen[u][k]) \/ \E m \in DOMAIN published : Last(k, m) /\ Waiting(u, m)

EventInv == HasLast /\ LastRight
AlertInv == AlertType /\ RowInv /\ EventInv /\ OneAtATime /\ Knows

LEMMA StoredTwice ==
    ASSUME NEW q \in Nat
    PROVE  Stored(q) \in Nat /\ Stored(Stored(q)) = Stored(q)
    BY DEF Stored, Aggregator!Stored

LEMMA AlertInit == Init => AlertInv
<1> SUFFICES ASSUME Init
             PROVE  AlertInv
    OBVIOUS
<1>1. /\ pc = [a \in {"import", "update"} |-> "idle"]
      /\ item = [a \in {"import", "update"} |-> Aggregator!NoItem]
      /\ offers = [k \in Keys |-> -1] /\ published = <<>>
    BY DEF Init, Aggregator!Init, Aggregator!Actors, Aggregator!Importers,
           Aggregator!NoOffer, Keys
<1>2. /\ delivered = 0 /\ taken = 0 /\ step = "idle" /\ notifs = <<>> /\ subs = {}
      /\ seen = [u \in Users |-> [k \in Keys |-> 0]]
    BY DEF Init, Notifier!Init, Keys
<1>3. \A k \in Keys : Price(k) = 0
    BY <1>1 DEF Price, Aggregator!OldPrice, Aggregator!NoOffer
<1>4. Stored(0) = 0
    BY DEF Stored, Aggregator!Stored
<1> QED
    BY <1>1, <1>2, <1>3, <1>4
    DEF AlertInv, AlertType, RowInv, EventInv, HasLast, LastRight, OneAtATime, Knows,
        Right, AtWork, InLoop, Last

\* The last event of an event's offer has come to nobody to whom the event
\* itself has not come.
LEMMA LaterWaits ==
    ASSUME AlertInv, NEW u \in Users \ missed, NEW n \in DOMAIN published,
           Waiting(u, n)
    PROVE  \E m \in DOMAIN published :
               Last(published[n].key, m) /\ Waiting(u, m)
<1>1. PICK m \in DOMAIN published : m >= n /\ Last(published[n].key, m)
    BY DEF AlertInv, EventInv, HasLast
<1>2. n \in Nat /\ m \in Nat /\ taken \in Nat
    BY DEF AlertInv, AlertType
<1>3. CASE m = n
    BY <1>1, <1>3
<1>4. CASE m > n
    BY <1>1, <1>2, <1>4 DEF Waiting, AlertInv, OneAtATime, InLoop
<1> QED
    BY <1>1, <1>2, <1>3, <1>4

LEMMA AlertOpens == AlertInv => SubscriberKnowsPrice
<1> SUFFICES ASSUME AlertInv, NEW u \in Users, NEW k \in Keys, Settled(k),
                    u \notin missed, k \notin unannounced, <<u, k>> \notin passed
             PROVE  Stored(seen[u][k]) = Price(k)
    BY DEF SubscriberKnowsPrice, Informed, Keys, Stored, Price
<1>1. ~MidChange(k)
    BY DEF Settled, Aggregator!At, Aggregator!Actors, Aggregator!Importers, MidChange, Row
<1>2. ASSUME NEW m \in DOMAIN published
      PROVE  ~Waiting(u, m)
    BY <1>2 DEF Settled, Waiting, AlertInv, AlertType
<1> QED
    BY <1>1, <1>2 DEF AlertInv, Knows, Right
-----------------------------------------------------------------------------
(* The steps of the aggregator.                                            *)

reader == <<subs, delivered, taken, step, current, todo, notifs, seen, passed, missed>>

LEMMA ReaderKept == notifier' = notifier /\ knowledge' = knowledge => UNCHANGED reader
    BY DEF notifier, knowledge, reader

\* A step that announces nothing and leaves right what was right.
LEMMA NothingAnnounced ==
    ASSUME AlertInv, UNCHANGED reader, UNCHANGED published,
           unannounced \subseteq unannounced',
           \A k \in Keys \ unannounced', q \in Nat : Right(k, q) => Right(k, q)'
    PROVE  EventInv' /\ OneAtATime' /\ Knows'
<1>1. \A k, m : Last(k, m)' <=> Last(k, m)
    BY DEF Last
<1>2. \A u, m : Waiting(u, m)' <=> Waiting(u, m)
    BY DEF Waiting, reader
<1>3. HasLast'
    BY <1>1 DEF AlertInv, EventInv, HasLast
<1>4. LastRight'
    <2>1. \A m \in DOMAIN published : published[m].price \in Nat
        <3>1. \A m \in DOMAIN published : published[m] \in Item
            BY DEF AlertInv, AlertType
        <3> QED
            BY <3>1 DEF Item, Aggregator!Item
    <2> QED
        BY <1>1, <2>1 DEF AlertInv, EventInv, LastRight
<1>5. OneAtATime'
    BY DEF AlertInv, OneAtATime, InLoop, reader
<1>6. Knows'
    <2> SUFFICES ASSUME NEW u \in Users \ missed, NEW k \in Keys \ unannounced',
                        <<u, k>> \notin passed
                 PROVE  \/ Right(k, seen[u][k])'
                        \/ \E m \in DOMAIN published' : Last(k, m)' /\ Waiting(u, m)'
        BY DEF Knows, reader
    <2>1. CASE Right(k, seen[u][k])
        <3>1. seen[u][k] \in Nat /\ seen' = seen
            BY DEF AlertInv, AlertType, reader
        <3> DEFINE q == seen[u][k]
        <3>2. Right(k, q)'
            BY <2>1, <3>1
        <3> QED
            BY <3>1, <3>2 DEF Right
    <2>2. CASE \E m \in DOMAIN published : Last(k, m) /\ Waiting(u, m)
        BY <1>1, <1>2, <2>2
    <2> QED
        BY <2>1, <2>2 DEF AlertInv, Knows
<1> QED
    BY <1>3, <1>4, <1>5, <1>6 DEF EventInv

\* Neither a row was at work before the step, nor after it.
LEMMA BetweenRows ==
    ASSUME AlertInv, UNCHANGED reader, UNCHANGED <<offers, published, unannounced>>,
           item' = [a \in {"import", "update"} |-> item'[a]],
           pc' = [a \in {"import", "update"} |-> pc'[a]],
           \/ ~AtWork /\ ~AtWork'
           \/ UNCHANGED <<pc, item>>
    PROVE  AlertInv'
<1>1. \A k : Price(k)' = Price(k)
    BY DEF Price, Aggregator!OldPrice
<1>2. \A k, q : Right(k, q) => Right(k, q)'
    BY <1>1 DEF Right, MidChange, AtWork, Row
<1>3. AlertType'
    BY <1>1 DEF AlertInv, AlertType, AtWork, Row, InLoop, reader
<1>4. RowInv'
    BY <1>1 DEF AlertInv, RowInv, AtWork, Row
<1> QED
    BY <1>2, <1>3, <1>4, NothingAnnounced DEF AlertInv

LEMMA ReadRowKeeps ==
    ASSUME AlertInv, ImportRow
    PROVE  AlertInv'
<1>1. PICK k \in Keys, q \in Prices :
          Aggregator!ReadRow("import", k, q) /\ UNCHANGED <<notifier, knowledge>>
    BY DEF ImportRow, Keys
<1>2. UNCHANGED reader
    BY <1>1, ReaderKept
<1>3. /\ pc["import"] = "rows" /\ pc' = [pc EXCEPT !["import"] = "upsert"]
      /\ UNCHANGED <<offers, published>> /\ unannounced \subseteq unannounced'
    BY <1>1 DEF Aggregator!ReadRow, Aggregator!GetOfferPrice, Aggregator!Goto,
                Aggregator!tables
<1>4. PICK old \in {Price(k), 0} :
          /\ item' = [item EXCEPT !["import"] = [key |-> k, price |-> q, old |-> old]]
          /\ old # Price(k) => k \in unannounced'
    BY <1>1 DEF Aggregator!ReadRow, Aggregator!GetOfferPrice, Price, Aggregator!SpoiltIf
<1>5. \A j : Price(j)' = Price(j)
    BY <1>3 DEF Price, Aggregator!OldPrice
<1>6. Row' = [key |-> k, price |-> q, old |-> old] /\ pc'["import"] = "upsert"
    BY <1>3, <1>4 DEF AlertInv, AlertType, Row
<1>7. Row' \in Item
    BY <1>6, PriceAlertsAssumption DEF Item, Aggregator!Item, Keys, AlertInv, AlertType
<1>8. AlertType'
    BY <1>2, <1>3, <1>4, <1>5, <1>7 DEF AlertInv, AlertType, InLoop, reader
<1>9. RowInv'
    BY <1>4, <1>5, <1>6 DEF RowInv
<1>10. \A j, r : Right(j, r) => Right(j, r)'
    BY <1>3, <1>5 DEF Right, MidChange
<1> QED
    BY <1>2, <1>3, <1>8, <1>9, <1>10, NothingAnnounced DEF AlertInv

LEMMA UpsertKeeps ==
    ASSUME AlertInv, UNCHANGED reader, Aggregator!Upsert("import")
    PROVE  AlertInv'
<1> PICK k : k = Row.key
    OBVIOUS
<1>1. /\ pc["import"] = "upsert" /\ pc' = [pc EXCEPT !["import"] = "record"]
      /\ offers' = [offers EXCEPT ![k] = Stored(Row.price)]
      /\ UNCHANGED <<item, published, unannounced>>
    BY DEF Aggregator!Upsert, Aggregator!Goto, Row, Stored
<1>2. Row \in Item /\ Row' = Row /\ pc'["import"] = "record" /\ k \in Keys
    BY <1>1 DEF AlertInv, AlertType, AtWork, Row, Item, Aggregator!Item, Keys
<1>3. Row.price \in Nat /\ Row.old \in Nat
    BY <1>2 DEF Item, Aggregator!Item
<1>4. Stored(Row.price) \in Nat /\ Stored(Stored(Row.price)) = Stored(Row.price)
    BY <1>3, StoredTwice
<1>5. /\ Price(k)' = Stored(Row.price)
      /\ \A j \in Keys : j # k => Price(j)' = Price(j)
    BY <1>1, <1>2, <1>4 DEF AlertInv, AlertType, Price, Aggregator!OldPrice,
                            Aggregator!NoOffer
<1>6. AlertType'
    BY <1>1, <1>2, <1>4, <1>5 DEF AlertInv, AlertType, InLoop, reader
<1>7. RowInv'
    BY <1>1, <1>2, <1>5 DEF RowInv
<1>8. ASSUME NEW j \in Keys \ unannounced, NEW r \in Nat, Right(j, r)
      PROVE  Right(j, r)'
    <2>1. CASE j # k
        BY <1>2, <1>5, <1>8, <2>1 DEF Right, MidChange
    <2>2. CASE j = k /\ Row.price # Row.old
        BY <1>2, <2>2 DEF Right, MidChange
    <2>3. CASE j = k /\ Row.price = Row.old
        <3>1. Stored(r) = Price(k) /\ Row.old = Price(k)
            BY <1>1, <1>8, <2>3 DEF Right, MidChange, AlertInv, RowInv, AtWork
        <3>2. Price(k)' = Stored(Price(k)) /\ Stored(Price(k)) = Price(k)
            BY <1>2, <1>5, <2>3, <3>1 DEF AlertInv, AlertType
        <3> QED
            BY <2>3, <3>1, <3>2 DEF Right
    <2> QED
        BY <2>1, <2>2, <2>3
<1> QED
    BY <1>1, <1>6, <1>7, <1>8, NothingAnnounced DEF AlertInv

\* A row is left, or goes on to the history, without a word about it.
LEMMA UpsertFailsKeeps ==
    ASSUME AlertInv, UNCHANGED reader, Aggregator!UpsertFails("import")
    PROVE  AlertInv'
<1>1. /\ pc["import"] = "upsert" /\ pc' = [pc EXCEPT !["import"] = "record"]
      /\ UNCHANGED <<item, published, offers>>
      /\ unannounced' = unannounced \cup {Row.key}
    BY DEF Aggregator!UpsertFails, Aggregator!Advance, Aggregator!AfterUpsertError,
           Aggregator!Goto, Aggregator!tables, Row
<1>2. \A k : Price(k)' = Price(k)
    BY <1>1 DEF Price, Aggregator!OldPrice
<1>3. AlertType'
    BY <1>1, <1>2 DEF AlertInv, AlertType, AtWork, Row, InLoop, reader
<1>4. RowInv'
    BY <1>1 DEF RowInv, Row
<1>5. \A k, q : Right(k, q) => Right(k, q)'
    BY <1>1, <1>2 DEF Right, MidChange
<1> QED
    BY <1>1, <1>3, <1>4, <1>5, NothingAnnounced DEF AlertInv

LEMMA RecordKeeps ==
    ASSUME AlertInv, UNCHANGED reader, Aggregator!InsertPriceHistory("import")
    PROVE  AlertInv'
<1>1. /\ pc["import"] = "record"
      /\ UNCHANGED <<offers, published, unannounced>>
      /\ \/ Row.price # Row.old /\ pc' = [pc EXCEPT !["import"] = "publish"]
                               /\ UNCHANGED item
         \/ /\ Row.price = Row.old /\ pc' = [pc EXCEPT !["import"] = "rows"]
            /\ item' = [item EXCEPT !["import"] = Aggregator!NoItem]
    BY DEF Aggregator!InsertPriceHistory, Aggregator!Advance, Aggregator!AfterRecord,
           Aggregator!Changed, Aggregator!Goto, Row
<1>2. \A k : Price(k)' = Price(k)
    BY <1>1 DEF Price, Aggregator!OldPrice
<1>3. AlertType'
    BY <1>1, <1>2 DEF AlertInv, AlertType, AtWork, Row, InLoop, reader
<1>4. RowInv'
    BY <1>1, <1>2 DEF AlertInv, AlertType, RowInv, AtWork, Row
<1>5. \A k, q : Right(k, q) => Right(k, q)'
    BY <1>1, <1>2 DEF AlertInv, AlertType, Right, MidChange, Row
<1> QED
    BY <1>1, <1>3, <1>4, <1>5, NothingAnnounced DEF AlertInv

\* The offers at work when the process dies are excepted from then on.
LEMMA DeathKeeps ==
    ASSUME AlertInv, UNCHANGED reader, Aggregator!ProcessDies
    PROVE  AlertInv'
<1>1. /\ pc' = [a \in {"import", "update"} |-> "idle"]
      /\ item' = [a \in {"import", "update"} |-> Aggregator!NoItem]
      /\ UNCHANGED <<offers, published>>
    BY DEF Aggregator!ProcessDies, Aggregator!tables, Aggregator!Actors,
           Aggregator!Importers
<1>2. /\ unannounced \subseteq unannounced'
      /\ pc["import"] \in {"record", "publish"} => Row.key \in unannounced'
    BY DEF Aggregator!ProcessDies, Aggregator!Cut, Aggregator!Actors,
           Aggregator!Importers, Row
<1>3. \A k : Price(k)' = Price(k)
    BY <1>1 DEF Price, Aggregator!OldPrice
<1>4. AlertType'
    BY <1>1, <1>3 DEF AlertInv, AlertType, AtWork, InLoop, reader
<1>5. RowInv'
    BY <1>1 DEF RowInv, AtWork
<1>6. \A k \in Keys \ unannounced', q \in Nat : Right(k, q) => Right(k, q)'
    BY <1>1, <1>2, <1>3 DEF Right, MidChange
<1> QED
    BY <1>1, <1>2, <1>4, <1>5, <1>6, NothingAnnounced DEF AlertInv

\* The new event is the last one of its offer, and comes to everybody later.
LEMMA PublishKeeps ==
    ASSUME AlertInv, UNCHANGED reader, Aggregator!PublishPriceChanged("import")
    PROVE  AlertInv'
<1> PICK k, e : k = Row.key /\ e = Len(published) + 1
    OBVIOUS
<1>1. /\ pc["import"] = "publish" /\ pc' = [pc EXCEPT !["import"] = "rows"]
      /\ item' = [item EXCEPT !["import"] = Aggregator!NoItem]
      /\ UNCHANGED offers
      /\ \/ published' = Append(published, Row) /\ UNCHANGED unannounced
         \/ UNCHANGED published /\ unannounced' = unannounced \cup {k}
    BY DEF Aggregator!PublishPriceChanged, Aggregator!Advance, Aggregator!Goto,
           Aggregator!tables, Row
<1>2. Row \in Item /\ k \in Keys /\ Row.price \in Nat
    BY <1>1 DEF AlertInv, AlertType, AtWork, Item, Aggregator!Item, Keys
<1>3. \A j : Price(j)' = Price(j)
    BY <1>1 DEF Price, Aggregator!OldPrice
<1>4. pc'["import"] = "rows"
    BY <1>1 DEF AlertInv, AlertType
<1>5. RowInv'
    BY <1>4 DEF RowInv, AtWork
<1>6. \A j, q : j # k /\ Right(j, q) => Right(j, q)'
    BY <1>3 DEF Right, MidChange
<1>7. CASE UNCHANGED published /\ unannounced' = unannounced \cup {k}
    <2>1. AlertType'
        BY <1>1, <1>3, <1>4, <1>7 DEF AlertInv, AlertType, AtWork, InLoop, reader
    <2> QED
        BY <1>5, <1>6, <1>7, <2>1, NothingAnnounced DEF AlertInv
<1>8. CASE published' = Append(published, Row) /\ UNCHANGED unannounced
    <2>1. /\ published \in Seq(Item) /\ Len(published) \in Nat
          /\ DOMAIN published = 1 .. Len(published)
          /\ published' \in Seq(Item) /\ Len(published') = e
          /\ DOMAIN published' = 1 .. e /\ published'[e] = Row
          /\ \A n \in DOMAIN published : published'[n] = published[n]
        BY <1>2, <1>8 DEF AlertInv, AlertType
    <2>2. AlertType'
        <3>1. /\ delivered' \in 0 .. Len(published') /\ taken' \in 0 .. delivered'
              /\ InLoop' => current' \in 1 .. Len(published')
            <4>1. /\ delivered \in 0 .. Len(published) /\ taken \in 0 .. delivered
                  /\ InLoop => current \in 1 .. Len(published)
                BY DEF AlertInv, AlertType
            <4>2. /\ delivered' = delivered /\ taken' = taken /\ current' = current
                  /\ InLoop' <=> InLoop
                BY DEF InLoop, reader
            <4>3. Len(published') = Len(published) + 1 /\ Len(published) \in Nat
                BY <2>1
            <4> QED
                BY <4>1, <4>2, <4>3
        <3>2. published' \in Seq(Item)
            BY <2>1
        <3>3. /\ pc' = [a \in {"import", "update"} |-> pc'[a]]
              /\ item' = [a \in {"import", "update"} |-> item'[a]]
              /\ ~AtWork'
            BY <1>1, <1>4 DEF AlertInv, AlertType, AtWork
        <3>4. /\ offers' = offers /\ seen' = seen /\ notifs' = notifs
            BY <1>1 DEF reader
        <3> QED
            BY <1>3, <3>1, <3>2, <3>3, <3>4 DEF AlertInv, AlertType
    <2>3. Last(k, e)' /\ \A n \in DOMAIN published' : Last(k, n)' => n = e
        BY <2>1 DEF Last
    <2>4. \A j : j # k => \A n \in DOMAIN published' :
              Last(j, n)' <=> n \in DOMAIN published /\ Last(j, n)
        BY <2>1 DEF Last
    <2>5. HasLast'
        <3> SUFFICES ASSUME NEW n \in DOMAIN published', NEW j, j = published'[n].key
                     PROVE  \E m \in DOMAIN published' : m >= n /\ Last(j, m)'
            BY DEF HasLast
        <3>1. CASE j = k
            BY <2>1, <2>3, <3>1
        <3>2. CASE j # k
            <4>1. n \in DOMAIN published /\ published'[n] = published[n]
                BY <2>1, <3>2
            <4> QED
                BY <2>1, <2>4, <3>2, <4>1 DEF AlertInv, EventInv, HasLast
        <3> QED
            BY <3>1, <3>2
    <2>6. LastRight'
        <3> SUFFICES ASSUME NEW j \in Keys \ unannounced, NEW m \in DOMAIN published',
                            Last(j, m)'
                     PROVE  Right(j, published[m].price)'
            BY <1>8 DEF LastRight
        <3>1. CASE j = k
            <4>1. m = e /\ published'[m].price = Row.price
                BY <2>1, <2>3, <3>1
            <4>2. Stored(Row.price) = Price(k)
                BY <1>1, <3>1 DEF AlertInv, RowInv, AtWork
            <4> QED
                BY <1>3, <3>1, <4>1, <4>2 DEF Right
        <3>2. CASE j # k
            <4>1. m \in DOMAIN published /\ Last(j, m)
                BY <2>4, <3>2
            <4>2. Right(j, published[m].price)
                BY <4>1 DEF AlertInv, EventInv, LastRight
            <4>3. published'[m] = published[m]
                BY <2>1, <4>1
            <4> QED
                BY <1>3, <3>2, <4>2, <4>3 DEF Right, MidChange
        <3> QED
            BY <3>1, <3>2
    <2>7. OneAtATime'
        BY DEF AlertInv, OneAtATime, InLoop, reader
    <2>8. Knows'
        <3> SUFFICES ASSUME NEW u \in Users \ missed, NEW j \in Keys \ unannounced,
                            <<u, j>> \notin passed
                     PROVE  \/ Right(j, seen[u][j])'
                            \/ \E m \in DOMAIN published' : Last(j, m)' /\ Waiting(u, m)'
            BY <1>8 DEF Knows, reader
        <3>1. CASE j = k
            <4>1. Waiting(u, e)'
                BY <2>1 DEF Waiting, AlertInv, AlertType, reader
            <4> QED
                BY <2>1, <2>3, <3>1, <4>1
        <3>2. CASE j # k /\ Right(j, seen[u][j])
            BY <1>3, <3>2 DEF Right, MidChange, reader
        <3>3. CASE j # k /\ \E m \in DOMAIN published : Last(j, m) /\ Waiting(u, m)
            <4>1. PICK m \in DOMAIN published : Last(j, m) /\ Waiting(u, m)
                BY <3>3
            <4>2. Waiting(u, m)'
                BY <4>1 DEF Waiting, reader
            <4> QED
                BY <2>1, <2>4, <3>3, <4>1, <4>2
        <3> QED
            BY <3>1, <3>2, <3>3 DEF AlertInv, Knows
    <2> QED
        BY <1>5, <2>2, <2>5, <2>6, <2>7, <2>8 DEF AlertInv, EventInv
<1> QED
    BY <1>1, <1>7, <1>8
-----------------------------------------------------------------------------
(* The steps of notifications-service.                                     *)

writer == <<pc, item, offers, published, unannounced>>

LEMMA WriterKept == aggregator' = aggregator => UNCHANGED writer
    BY DEF aggregator, writer

LEMMA RoutedEvents ==
    ASSUME AlertType
    PROVE  /\ Len(Routed) = Len(published)
           /\ \A e \in DOMAIN published : Routed[e] = published[e].key[1]
<1>1. DOMAIN published = 1 .. Len(published) /\ Len(published) \in Nat
    BY DEF AlertType
<1> DEFINE S == {published[e].key[1] : e \in DOMAIN published}
<1>2. Routed \in [1 .. Len(published) -> S]
    BY <1>1 DEF Routed
<1>3. Routed \in Seq(S)
    BY <1>1, <1>2, SeqDef
<1>4. Len(Routed) \in Nat /\ DOMAIN Routed = 1 .. Len(Routed)
    BY <1>3, LenProperties
<1>5. 1 .. Len(Routed) = 1 .. Len(published)
    BY <1>2, <1>4
<1> QED
    BY <1>1, <1>4, <1>5 DEF Routed

\* What such a step leaves alone.
LEMMA OffersKept ==
    ASSUME AlertInv, UNCHANGED writer
    PROVE  /\ RowInv' /\ EventInv'
           /\ \A k, q : Right(k, q)' <=> Right(k, q)
           /\ \A k, m : Last(k, m)' <=> Last(k, m)
<1>1. /\ \A k, q : Right(k, q)' <=> Right(k, q)
      /\ \A k, m : Last(k, m)' <=> Last(k, m)
    BY DEF writer, Right, MidChange, Price, Aggregator!OldPrice, Last, Row
<1>2. RowInv'
    BY DEF AlertInv, RowInv, AtWork, Row, Price, Aggregator!OldPrice, writer
<1>3. HasLast'
    BY <1>1 DEF AlertInv, EventInv, HasLast, writer
<1>4. LastRight'
    BY <1>1 DEF AlertInv, EventInv, LastRight, writer, Right, MidChange, Row,
                Price, Aggregator!OldPrice
<1> QED
    BY <1>1, <1>2, <1>3, <1>4 DEF EventInv

LEMMA TypeKept ==
    ASSUME AlertType, UNCHANGED writer,
           seen' \in [Users -> [Keys -> Nat]], notifs' \in Seq(Notifier!Notification),
           delivered' \in 0 .. Len(published), taken' \in 0 .. delivered',
           InLoop' => current' \in 1 .. Len(published)
    PROVE  AlertType'
    BY DEF AlertType, AtWork, Row, Price, Aggregator!OldPrice, writer

\* Nobody hears of anything, and whatever was on its way still is, except to
\* users whom the step is known to have cost it.
LEMMA StillKnows ==
    ASSUME AlertInv, UNCHANGED writer, UNCHANGED <<seen, passed>>,
           missed \subseteq missed',
           \A u \in Users \ missed', m \in DOMAIN published :
               Waiting(u, m) => Waiting(u, m)'
    PROVE  Knows'
<1> SUFFICES ASSUME NEW u \in Users \ missed', NEW k \in Keys \ unannounced,
                    <<u, k>> \notin passed
             PROVE  \/ Right(k, seen[u][k])'
                    \/ \E m \in DOMAIN published : Last(k, m)' /\ Waiting(u, m)'
    BY DEF Knows, writer
<1>1. CASE Right(k, seen[u][k])
    <2> PICK q : q = seen[u][k]
        OBVIOUS
    <2>1. Right(k, q)'
        BY <1>1, OffersKept
    <2> QED
        BY <2>1 DEF Right
<1>2. CASE \E m \in DOMAIN published : Last(k, m) /\ Waiting(u, m)
    BY <1>2, OffersKept DEF Last
<1> QED
    BY <1>1, <1>2 DEF AlertInv, Knows

\* Subscribers wait on; the others have the price, or are known not to.
LEMMA PassByKeeps ==
    ASSUME AlertInv, UNCHANGED writer, UNCHANGED <<subs, delivered, taken, current>>,
           missed \subseteq missed', current \in DOMAIN published,
           step = "lookup", step' = "notify",
           todo' = {u \in Users : <<u, Routed[current]>> \in subs},
           PassBy
    PROVE  Knows'
<1> PICK k, q : k = published[current].key /\ q = published[current].price
    OBVIOUS
<1> DEFINE others == {u \in Users : <<u, k[1]>> \notin subs}
<1>1. Routed[current] = k[1]
    BY RoutedEvents DEF AlertInv
<1>2. /\ passed' = {p \in passed : p[1] \notin others \/ p[2] # k}
                      \cup {<<u, k>> : u \in {v \in others : Stored(seen[v][k]) # Stored(q)}}
      /\ UNCHANGED seen
    BY DEF PassBy, NewsTo, Stored
<1>3. \A u \in Users : \A m :
          Waiting(u, m) /\ (u \in others => m # current) => Waiting(u, m)'
    BY <1>1 DEF Waiting
<1> SUFFICES ASSUME NEW u \in Users \ missed, NEW j \in Keys \ unannounced,
                    <<u, j>> \notin passed'
             PROVE  \/ Right(j, seen[u][j])'
                    \/ \E m \in DOMAIN published : Last(j, m)' /\ Waiting(u, m)'
    BY DEF Knows, writer
<1> PICK r : r = seen[u][j]
    OBVIOUS
<1>4. Right(j, r) => Right(j, seen[u][j])'
    <2> SUFFICES ASSUME Right(j, r)
                 PROVE  Right(j, seen[u][j])'
        OBVIOUS
    <2>1. Right(j, r)'
        BY OffersKept
    <2> QED
        BY <1>2, <2>1 DEF Right
<1>5. CASE u \in others /\ j = k
    <2>1. Stored(r) = Stored(q)
        BY <1>2, <1>5
    <2>2. Waiting(u, current)
        BY DEF Waiting
    <2>3. PICK m \in DOMAIN published : Last(k, m) /\ Waiting(u, m)
        BY <2>2, LaterWaits
    <2>4. CASE m = current
        <3>1. Right(k, q)
            BY <1>5, <2>3, <2>4 DEF AlertInv, EventInv, LastRight
        <3> QED
            BY <1>4, <1>5, <2>1, <3>1 DEF Right
    <2>5. CASE m # current
        BY <1>3, <1>5, <2>3, <2>5, OffersKept
    <2> QED
        BY <2>4, <2>5
<1>6. CASE ~(u \in others /\ j = k)
    <2>1. <<u, j>> \notin passed
        BY <1>2, <1>6
    <2>2. CASE Right(j, r)
        BY <1>4, <2>2
    <2>3. CASE \E m \in DOMAIN published : Last(j, m) /\ Waiting(u, m)
        <3>1. PICK m \in DOMAIN published : Last(j, m) /\ Waiting(u, m)
            BY <2>3
        <3>2. u \in others => m # current
            BY <1>6, <3>1 DEF Last
        <3> QED
            BY <1>3, <3>1, <3>2, OffersKept
    <2> QED
        BY <2>1, <2>2, <2>3 DEF AlertInv, Knows
<1> QED
    BY <1>5, <1>6

\* Steps that insert no notification.
LEMMA QuietStepKeeps ==
    ASSUME AlertInv, NotifierStep, ~\E u \in Users : Notifier!CreateNotification(u)
    PROVE  AlertInv'
<1>1. /\ UNCHANGED writer /\ UNCHANGED <<subs, notifs>> /\ missed \subseteq missed'
      /\ missed' = missed \cup dropped'
    BY WriterKept DEF NotifierStep, Notifier!Deliver, Notifier!ConsumerStep,
       Notifier!TakeMessage, Notifier!LeaveLoop, Notifier!LookUpSubscribers,
       Notifier!IncrementUnread, Notifier!FinishMessage
<1>2. UNCHANGED seen /\ (LookupDone \/ UNCHANGED passed)
    BY <1>1 DEF NotifierStep, Learn, PassBy, AlertInv, AlertType
<1>3. AlertType
    BY DEF AlertInv
<1>4. /\ Len(Routed) = Len(published) /\ Len(published) \in Nat
      /\ \A e \in DOMAIN published : Routed[e] = published[e].key[1]
      /\ delivered \in 0 .. Len(published) /\ taken \in 0 .. delivered
      /\ DOMAIN published = 1 .. Len(published)
    BY <1>3, RoutedEvents DEF AlertType
<1>5. CASE Notifier!Deliver
    <2>1. /\ delivered < Len(Routed) /\ delivered' = delivered + 1
          /\ UNCHANGED <<taken, step, current, todo>>
        BY <1>5 DEF Notifier!Deliver, Notifier!consumerVars
    <2>2. AlertType'
        BY <1>1, <1>2, <1>3, <1>4, <2>1, TypeKept DEF AlertType, InLoop
    <2>3. OneAtATime'
        BY <1>1, <2>1 DEF AlertInv, OneAtATime, InLoop
    <2>4. Knows'
        BY <1>1, <1>2, <2>1, StillKnows DEF Waiting, LookupDone
    <2> QED
        BY <1>1, <2>2, <2>3, <2>4, OffersKept DEF AlertInv
<1>6. CASE Notifier!TakeMessage
    <2>1. /\ taken < delivered /\ taken' = taken + 1 /\ current' = taken + 1
          /\ step = "idle" /\ step' = "lookup" /\ UNCHANGED delivered
        BY <1>6 DEF Notifier!TakeMessage
    <2>2. AlertType'
        BY <1>1, <1>2, <1>3, <1>4, <2>1, TypeKept DEF AlertType
    <2>3. OneAtATime'
        BY <2>1 DEF OneAtATime
    <2>4. Knows'
        <3>1. ASSUME NEW u \in Users, NEW m \in DOMAIN published, Waiting(u, m)
              PROVE  Waiting(u, m)'
            <4>1. m > taken /\ m \in Nat /\ taken \in Nat
                BY <1>4, <2>1, <3>1 DEF Waiting
            <4>2. m > taken + 1 \/ m = taken + 1
                BY <4>1
            <4> QED
                BY <2>1, <4>1, <4>2 DEF Waiting
        <3> QED
            BY <1>1, <1>2, <2>1, <3>1, StillKnows DEF LookupDone
    <2> QED
        BY <1>1, <2>2, <2>3, <2>4, OffersKept DEF AlertInv
<1>7. CASE Notifier!LookUpSubscribers
    <2>1. /\ step = "lookup" /\ UNCHANGED <<delivered, taken, current>>
          /\ \/ /\ todo' = {u \in Users : <<u, Routed[current]>> \in subs}
                /\ step' = "notify"
             \/ step' = "idle" /\ dropped' = Users
        BY <1>7 DEF Notifier!LookUpSubscribers, Notifier!GetSubscribers,
                    Notifier!LookupError, Notifier!brokerVars
    <2>2. AlertType'
        BY <1>1, <1>2, <1>3, <1>4, <2>1, TypeKept DEF AlertType, InLoop
    <2>3. OneAtATime'
        BY <1>1, <2>1 DEF AlertInv, OneAtATime, InLoop
    <2>4. CASE step' = "idle" /\ dropped' = Users
        BY <1>1, <2>2, <2>3, <2>4, OffersKept DEF AlertInv, Knows
    <2>5. CASE /\ todo' = {u \in Users : <<u, Routed[current]>> \in subs}
               /\ step' = "notify"
        <3>1. /\ Len(notifs') = Len(notifs) /\ Len(notifs) \in Nat
              /\ current \in DOMAIN published
            BY <1>1, <1>3, <1>4, <2>1 DEF AlertType, InLoop
        <3>2. PassBy
            BY <2>1, <2>5, <3>1 DEF NotifierStep, Learn, LookupDone
        <3>3. Knows'
            BY <1>1, <2>1, <2>5, <3>1, <3>2, PassByKeeps
        <3> QED
            BY <1>1, <2>2, <2>3, <3>3, OffersKept DEF AlertInv
    <2> QED
        BY <2>1, <2>4, <2>5
<1>8. CASE Notifier!LeaveLoop \/ Notifier!FinishMessage
    <2>1. /\ UNCHANGED <<delivered, taken, current, todo>>
          /\ ~InLoop' /\ (step = "notify" => todo = {})
          /\ step \in {"idle", "notify"}
        BY <1>8 DEF Notifier!LeaveLoop, Notifier!FinishMessage, Notifier!brokerVars,
                    InLoop
    <2>2. AlertType'
        BY <1>1, <1>2, <1>3, <1>4, <2>1, TypeKept DEF AlertType
    <2>3. OneAtATime'
        BY <2>1 DEF OneAtATime
    <2>4. Knows'
        BY <1>1, <1>2, <2>1, StillKnows DEF Waiting, LookupDone
    <2> QED
        BY <1>1, <2>2, <2>3, <2>4, OffersKept DEF AlertInv
<1>9. CASE \E u \in Users : Notifier!IncrementUnread(u)
    <2>1. /\ UNCHANGED <<delivered, taken, current, todo>>
          /\ step = "incr" /\ step' = "notify"
        BY <1>9 DEF Notifier!IncrementUnread, Notifier!IncrError, Notifier!brokerVars
    <2>2. AlertType'
        BY <1>1, <1>2, <1>3, <1>4, <2>1, TypeKept DEF AlertType, InLoop
    <2>3. OneAtATime'
        BY <1>1, <2>1 DEF AlertInv, OneAtATime, InLoop
    <2>4. Knows'
        BY <1>1, <1>2, <2>1, StillKnows DEF Waiting, LookupDone
    <2> QED
        BY <1>1, <2>2, <2>3, <2>4, OffersKept DEF AlertInv
<1> QED
    BY <1>5, <1>6, <1>7, <1>8, <1>9 DEF NotifierStep, Notifier!ConsumerStep

LEMMA CreateNotificationKeeps ==
    ASSUME AlertInv, NotifierStep, NEW v \in Users, Notifier!CreateNotification(v)
    PROVE  AlertInv'
<1>1. /\ UNCHANGED writer /\ UNCHANGED <<subs, delivered, taken, current>>
      /\ missed' = missed \cup dropped'
      /\ step = "notify" /\ step' \in {"notify", "incr"}
      /\ v \in todo /\ todo' = todo \ {v}
    BY WriterKept DEF NotifierStep, Notifier!CreateNotification, Notifier!brokerVars,
       Notifier!InsertError
<1>2. /\ AlertType /\ current \in DOMAIN published /\ Len(notifs) \in Nat
      /\ delivered \in 0 .. Len(published) /\ taken \in 0 .. delivered
      /\ current \in 1 .. Len(published)
    BY <1>1 DEF AlertInv, AlertType, InLoop
<1>3. OneAtATime'
    BY <1>1 DEF AlertInv, OneAtATime, InLoop
<1>4. \A u, m : Waiting(u, m) /\ ~(u = v /\ m = current) => Waiting(u, m)'
    BY <1>1 DEF Waiting
<1>5. CASE UNCHANGED notifs /\ v \in dropped'
    <2>1. UNCHANGED <<seen, passed>>
        BY <1>1, <1>2, <1>5 DEF NotifierStep, Learn, LookupDone
    <2>2. AlertType'
        BY <1>1, <1>2, <1>5, <2>1, TypeKept DEF AlertType
    <2>3. Knows'
        BY <1>1, <1>4, <1>5, <2>1, StillKnows
    <2> QED
        BY <1>1, <1>3, <2>2, <2>3, OffersKept DEF AlertInv
<1>6. CASE notifs' = Append(notifs, [user |-> v, event |-> current, isRead |-> FALSE])
    <2> PICK k, q : k = published[current].key /\ q = published[current].price
        OBVIOUS
    <2>1. k \in Keys /\ q \in Nat
        <3>1. published[current] \in Item
            BY <1>2 DEF AlertType
        <3> QED
            BY <3>1 DEF Item, Aggregator!Item, Keys
    <2>2. /\ Len(notifs') = Len(notifs) + 1 /\ notifs' \in Seq(Notifier!Notification)
          /\ notifs'[Len(notifs')] = [user |-> v, event |-> current, isRead |-> FALSE]
        BY <1>2, <1>6 DEF AlertType, Notifier!Notification
    <2>3. seen' = [seen EXCEPT ![v][k] = q] /\ passed' = passed \ {<<v, k>>}
        BY <1>2, <2>2 DEF NotifierStep, Learn, Tell, PriceTold
    <2>4. AlertType'
        BY <1>1, <1>2, <2>1, <2>2, <2>3, TypeKept DEF AlertType
    <2>5. Knows'
        <3> SUFFICES ASSUME NEW u \in Users \ missed, NEW j \in Keys \ unannounced,
                            <<u, j>> \notin passed'
                     PROVE  \/ Right(j, seen[u][j])'
                            \/ \E m \in DOMAIN published : Last(j, m)' /\ Waiting(u, m)'
            BY <1>1 DEF Knows, writer
        <3> PICK r : r = seen'[u][j]
            OBVIOUS
        <3>1. CASE u = v /\ j = k
            <4>1. r = q
                BY <1>2, <2>1, <2>3, <3>1 DEF AlertType
            <4>2. Waiting(u, current)
                BY <1>1, <3>1 DEF Waiting
            <4>3. PICK m \in DOMAIN published : Last(k, m) /\ Waiting(u, m)
                BY <1>2, <4>2, LaterWaits
            <4>4. CASE m = current
                <5>1. Right(k, q)
                    BY <3>1, <4>3, <4>4 DEF AlertInv, EventInv, LastRight
                <5>2. Right(j, r)'
                    BY <1>1, <3>1, <4>1, <5>1, OffersKept
                <5> QED
                    BY <5>2 DEF Right
            <4>5. CASE m # current
                BY <1>1, <1>4, <3>1, <4>3, <4>5, OffersKept
            <4> QED
                BY <4>4, <4>5
        <3>2. CASE ~(u = v /\ j = k)
            <4>1. seen'[u][j] = seen[u][j] /\ <<u, j>> \notin passed
                BY <1>2, <2>1, <2>3, <3>2 DEF AlertType
            <4>2. CASE Right(j, seen[u][j])
                <5>1. Right(j, r)'
                    BY <1>1, <4>1, <4>2, OffersKept
                <5> QED
                    BY <5>1 DEF Right
            <4>3. CASE \E m \in DOMAIN published : Last(j, m) /\ Waiting(u, m)
                BY <1>1, <1>4, <3>2, <4>3, OffersKept DEF Last
            <4> QED
                BY <4>1, <4>2, <4>3 DEF AlertInv, Knows
        <3> QED
            BY <3>1, <3>2
    <2> QED
        BY <1>1, <1>3, <2>4, <2>5, OffersKept DEF AlertInv
<1> QED
    BY <1>5, <1>6 DEF Notifier!CreateNotification, Notifier!NotificationRow,
                      Notifier!InsertError

\* The page has the price of the table.
LEMMA FetchOffersKeeps ==
    ASSUME AlertInv, NEW v \in Users, NEW c \in Components, FetchOffers(v, c)
    PROVE  AlertInv'
<1>1. /\ UNCHANGED writer /\ UNCHANGED <<notifs, missed, delivered, taken, current, step, todo>>
      /\ passed' = {p \in passed : p[1] # v \/ p[2][1] # c}
    BY WriterKept DEF FetchOffers, notifier
<1>2. seen' = [seen EXCEPT ![v] =
                  [k \in Keys |-> IF k[1] = c THEN Price(k) ELSE seen[v][k]]]
    BY DEF FetchOffers, Keys, Price
<1>3. AlertType'
    <2>1. /\ seen \in [Users -> [Keys -> Nat]] /\ \A k \in Keys : Price(k) \in Nat
          /\ AlertType
        BY DEF AlertInv, AlertType
    <2>2. seen' \in [Users -> [Keys -> Nat]]
        BY <1>2, <2>1
    <2> QED
        BY <1>1, <2>1, <2>2, TypeKept DEF AlertType, InLoop
<1>4. OneAtATime'
    BY <1>1 DEF AlertInv, OneAtATime, InLoop
<1>5. Knows'
    <2> SUFFICES ASSUME NEW u \in Users \ missed, NEW k \in Keys \ unannounced,
                        <<u, k>> \notin passed'
                 PROVE  \/ Right(k, seen[u][k])'
                        \/ \E m \in DOMAIN published : Last(k, m)' /\ Waiting(u, m)'
        BY <1>1 DEF Knows, writer
    <2> PICK r : r = seen'[u][k]
        OBVIOUS
    <2>1. CASE u = v /\ k[1] = c
        <3>1. r = Price(k) /\ Stored(Price(k)) = Price(k)
            BY <1>2, <2>1 DEF AlertInv, AlertType
        <3>2. Right(k, r)'
            BY <1>1, <3>1, OffersKept DEF Right
        <3> QED
            BY <3>2 DEF Right
    <2>2. CASE ~(u = v /\ k[1] = c)
        <3>1. <<u, k>> \notin passed /\ r = seen[u][k]
            BY <1>1, <1>2, <2>2 DEF AlertInv, AlertType
        <3>2. CASE Right(k, seen[u][k])
            <4>1. Right(k, r)'
                BY <1>1, <3>1, <3>2, OffersKept
            <4> QED
                BY <4>1 DEF Right
        <3>3. CASE \E m \in DOMAIN published : Last(k, m) /\ Waiting(u, m)
            BY <1>1, <3>3, OffersKept DEF Waiting
        <3> QED
            BY <3>1, <3>2, <3>3 DEF AlertInv, Knows
    <2> QED
        BY <2>1, <2>2
<1> QED
    BY <1>1, <1>3, <1>4, <1>5, OffersKept DEF AlertInv

\* Whoever subscribes or unsubscribes knows what they knew.
LEMMA SubscriptionKeeps ==
    ASSUME AlertInv, NEW v \in Users, NEW c \in Components,
           Subscribe(v, c) \/ Unsubscribe(v, c)
    PROVE  AlertInv'
<1>1. /\ UNCHANGED writer
      /\ UNCHANGED <<seen, passed, notifs, missed, delivered, taken, current, step, todo>>
    BY WriterKept DEF Subscribe, Unsubscribe, Notifier!Subscribe, Notifier!Unsubscribe,
       Notifier!brokerVars, Notifier!consumerVars, knowledge
<1>2. AlertType'
    BY <1>1, TypeKept DEF AlertInv, AlertType, InLoop
<1>3. OneAtATime'
    BY <1>1 DEF AlertInv, OneAtATime, InLoop
<1>4. Knows'
    BY <1>1, StillKnows DEF Waiting
<1> QED
    BY <1>1, <1>2, <1>3, <1>4, OffersKept DEF AlertInv

\* A failure may have cost anybody an event.
LEMMA NotifierFailsKeeps ==
    ASSUME AlertInv, NotifierFails
    PROVE  AlertInv'
<1>1. /\ UNCHANGED writer /\ UNCHANGED <<seen, notifs, current>>
      /\ missed' = Users /\ AlertType
    BY WriterKept DEF NotifierFails, Notifier!Crash, Notifier!ConnectionLost, AlertInv,
       Notifier!consumerVars
<1>2. Len(Routed) = Len(published) /\ Len(published) \in Nat
    BY <1>1, RoutedEvents DEF AlertType
<1>3. /\ delivered' \in 0 .. Len(published) /\ taken' \in 0 .. delivered'
      /\ InLoop' => InLoop
    BY <1>1, <1>2 DEF NotifierFails, Notifier!Crash, Notifier!ConnectionLost, AlertType,
       Notifier!GoneWithTheProcess, Notifier!consumerVars, InLoop
<1>4. AlertType'
    BY <1>1, <1>3, TypeKept DEF AlertType
<1>5. OneAtATime' /\ Knows'
    BY <1>1 DEF OneAtATime, Knows
<1> QED
    BY <1>1, <1>4, <1>5, OffersKept DEF AlertInv

LEMMA NotifierRestartKeeps ==
    ASSUME AlertInv, Notifier!Restart, UNCHANGED <<lists, aggregator, knowledge>>
    PROVE  AlertInv'
<1>1. /\ UNCHANGED writer
      /\ UNCHANGED <<seen, passed, missed, notifs, current, delivered, taken, todo>>
      /\ ~InLoop /\ ~InLoop' /\ step = "down"
    BY WriterKept DEF Notifier!Restart, knowledge, InLoop
<1>2. AlertType'
    BY <1>1, TypeKept DEF AlertInv, AlertType
<1>3. OneAtATime'
    BY <1>1 DEF OneAtATime
<1>4. Knows'
    BY <1>1, StillKnows DEF Waiting
<1> QED
    BY <1>1, <1>2, <1>3, <1>4, OffersKept DEF AlertInv
-----------------------------------------------------------------------------
LEMMA RowStepKeeps ==
    ASSUME AlertInv, RowStep
    PROVE  AlertInv'
<1>1. UNCHANGED reader
    BY DEF RowStep, notifier, knowledge, reader, Notifier!PublishPriceChanged,
           Notifier!consumerVars
<1> QED
    BY <1>1, UpsertKeeps, UpsertFailsKeeps, RecordKeeps, PublishKeeps
    DEF RowStep, Aggregator!RowStep

\* Steps that touch neither a row nor a reader.
LEMMA AsideKeeps ==
    ASSUME AlertInv, UNCHANGED <<notifier, knowledge>>,
           \/ aggregator' = aggregator
           \/ Aggregator!StartImport("import") \/ Aggregator!FinishImport("import")
           \/ Aggregator!ConnectionLost \/ Aggregator!Restart
    PROVE  AlertInv'
<1>1. UNCHANGED reader
    BY ReaderKept
<1>2. UNCHANGED <<offers, published, unannounced, item>>
    BY DEF aggregator, Aggregator!StartImport, Aggregator!FinishImport,
           Aggregator!ConnectionLost, Aggregator!Restart, Aggregator!tables,
           Aggregator!history, Aggregator!work
<1>3. \/ UNCHANGED pc
      \/ /\ pc["import"] \in {"idle", "rows"}
         /\ \E to \in {"idle", "rows"} : pc' = [pc EXCEPT !["import"] = to]
    BY DEF aggregator, Aggregator!StartImport, Aggregator!FinishImport,
           Aggregator!ConnectionLost, Aggregator!Restart, Aggregator!work,
           Aggregator!Goto
<1>4. /\ pc' = [a \in {"import", "update"} |-> pc'[a]]
      /\ item' = [a \in {"import", "update"} |-> item'[a]]
      /\ (~AtWork /\ ~AtWork') \/ UNCHANGED <<pc, item>>
    BY <1>2, <1>3 DEF AlertInv, AlertType, AtWork
<1> QED
    BY <1>1, <1>2, <1>4, BetweenRows

LEMMA AlertInvInductive == AlertInv /\ [Next]_vars => AlertInv'
<1> SUFFICES ASSUME AlertInv, [Next]_vars
             PROVE  AlertInv'
    OBVIOUS
<1>1. CASE Work
    <2>1. CASE \/ ListStep /\ UNCHANGED <<aggregator, notifier, knowledge>>
              \/ Deliver \/ ImportList \/ EndList
        BY <2>1, AsideKeeps DEF Deliver, ImportList, EndList
    <2>2. CASE ImportRow
        BY <2>2, ReadRowKeeps
    <2>3. CASE RowStep
        BY <2>3, RowStepKeeps
    <2>4. CASE NotifierStep
        BY <2>4, QuietStepKeeps, CreateNotificationKeeps
    <2>5. CASE \E u \in Users, c \in Components :
                  FetchOffers(u, c) \/ Subscribe(u, c) \/ Unsubscribe(u, c)
        BY <2>5, FetchOffersKeeps, SubscriptionKeeps
    <2>6. CASE UNCHANGED <<lists, aggregator, knowledge>> /\ Notifier!Restart
        BY <2>6, NotifierRestartKeeps
    <2>7. CASE Aggregator!Restart /\ UNCHANGED <<notifier, knowledge>>
        BY <2>7, AsideKeeps
    <2> QED
        BY <1>1, <2>1, <2>2, <2>3, <2>4, <2>5, <2>6, <2>7
        DEF Work
<1>2. CASE ImporterDies \/ AggregatorCutOff
    BY <1>2, AsideKeeps DEF ImporterDies, AggregatorCutOff
<1>3. CASE AggregatorDies
    BY <1>3, ReaderKept, DeathKeeps DEF AggregatorDies, Aggregator!Crash
<1>4. CASE NotifierFails
    BY <1>4, NotifierFailsKeeps
<1>5. CASE UNCHANGED vars
    BY <1>5, AsideKeeps DEF vars
<1> QED
    BY <1>1, <1>2, <1>3, <1>4, <1>5 DEF Next

(***************************************************************************)
(* Once everything stored is announced and every event is handled, what    *)
(* each user was given last of an offer is its price in the table: read    *)
(* for the page, or told by a notification (ImportPriceList,               *)
(* HandlePriceChange), whatever lists, visits and subscriptions came.      *)
(* Only failures are excepted, and users past whom a change went because   *)
(* they subscribed after its lookup, or not at all.                        *)
(***************************************************************************)
THEOREM SubscriberKnowsPriceAlways == Spec => []SubscriberKnowsPrice
<1>1. Init => AlertInv
    BY AlertInit
<1>2. AlertInv /\ [Next]_vars => AlertInv'
    BY AlertInvInductive
<1>3. AlertInv => SubscriberKnowsPrice
    BY AlertOpens
<1> QED
    BY <1>1, <1>2, <1>3, PTL DEF Spec

-----------------------------------------------------------------------------
(* The services as parts of the system.                                    *)

Offering == INSTANCE OffersProofs
    WITH Known <- Components, Uploads <- {}, Jobs <- {},
         Faults <- AggregatorFaults

Notifying == INSTANCE NotificationsProofs
    WITH Faults <- NotificationsFaults, MaxEvents <- MaxRows, MaxRequests <- 0,
         published <- Routed, connected <- consuming, pc <- step

LEMMA ServiceAssumptions ==
    Offering!OffersAssumption /\ Notifying!NotificationsAssumption
    BY PriceAlertsAssumption
    DEF Offering!OffersAssumption, Offering!AllFaults,
        Notifying!NotificationsAssumption, Notifying!AllFaults

\* The instances of a specification and of the theorems about it say the same.
LEMMA SameOffers ==
    /\ Aggregator!TypeOK <=> Offering!TypeOK
    /\ Aggregator!Init <=> Offering!Init
    /\ Aggregator!vars = Offering!vars
    /\ Aggregator!vars' = Offering!vars'
    /\ Aggregator!Next <=> Offering!Next
<1>1. /\ Aggregator!Keys = Offering!Keys /\ Aggregator!Importers = Offering!Importers
      /\ Aggregator!Actors = Offering!Actors /\ Aggregator!PcState = Offering!PcState
      /\ Aggregator!Status = Offering!Status /\ Aggregator!Item = Offering!Item
      /\ Aggregator!NoItem = Offering!NoItem /\ Aggregator!NoOffer = Offering!NoOffer
    BY DEF Aggregator!Keys, Offering!Keys, Aggregator!Importers, Offering!Importers,
           Aggregator!Actors, Offering!Actors, Aggregator!PcState, Offering!PcState,
           Aggregator!Status, Offering!Status, Aggregator!Item, Offering!Item,
           Aggregator!NoItem, Offering!NoItem, Aggregator!NoOffer, Offering!NoOffer
<1>2. Aggregator!TypeOK <=> Offering!TypeOK
    BY <1>1 DEF Aggregator!TypeOK, Offering!TypeOK
<1>3. Aggregator!Init <=> Offering!Init
    BY <1>1 DEF Aggregator!Init, Offering!Init
<1>4. Aggregator!vars = Offering!vars /\ Aggregator!vars' = Offering!vars'
    BY DEF Aggregator!vars, Offering!vars, Aggregator!work, Offering!work,
           Aggregator!tables, Offering!tables, Aggregator!history, Offering!history
<1>5. Aggregator!Next <=> Offering!Next
    BY <1>1 DEF Aggregator!Next, Offering!Next, Aggregator!ImportStep,
           Offering!ImportStep, Aggregator!UpdateStep, Offering!UpdateStep,
           Aggregator!RowStep, Offering!RowStep, Aggregator!StartImport,
           Offering!StartImport, Aggregator!FinishImport,
           Offering!FinishImport, Aggregator!ReadRow, Offering!ReadRow,
           Aggregator!ShortRow, Offering!ShortRow, Aggregator!StartUpdate,
           Offering!StartUpdate, Aggregator!ListFails, Offering!ListFails,
           Aggregator!ListShopComponents, Offering!ListShopComponents,
           Aggregator!VisitPage, Offering!VisitPage, Aggregator!FinishUpdate,
           Offering!FinishUpdate, Aggregator!PagesAfter, Offering!PagesAfter,
           Aggregator!EndJob, Offering!EndJob, Aggregator!GetOfferPrice,
           Offering!GetOfferPrice, Aggregator!OldPrice, Offering!OldPrice,
           Aggregator!Overlap, Offering!Overlap, Aggregator!Busy,
           Offering!Busy, Aggregator!SpoiltIf, Offering!SpoiltIf,
           Aggregator!Goto, Offering!Goto, Aggregator!Advance,
           Offering!Advance, Aggregator!Upsert, Offering!Upsert,
           Aggregator!Stored, Offering!Stored, Aggregator!Refused,
           Offering!Refused, Aggregator!UpsertFails, Offering!UpsertFails,
           Aggregator!AfterUpsertError, Offering!AfterUpsertError,
           Aggregator!InsertPriceHistory, Offering!InsertPriceHistory,
           Aggregator!AfterRecord, Offering!AfterRecord, Aggregator!Changed,
           Offering!Changed, Aggregator!HistoryRow, Offering!HistoryRow,
           Aggregator!PublishPriceChanged, Offering!PublishPriceChanged,
           Aggregator!ConnectionLost, Offering!ConnectionLost,
           Aggregator!Crash, Offering!Crash, Aggregator!ProcessDies,
           Offering!ProcessDies, Aggregator!Cut, Offering!Cut,
           Aggregator!Restart, Offering!Restart, Aggregator!NoOffer,
           Offering!NoOffer, Aggregator!tables, Offering!tables,
           Aggregator!work, Offering!work, Aggregator!history, Offering!history
<1> QED
    BY <1>2, <1>3, <1>4, <1>5

LEMMA SameNotifications ==
    /\ Notifier!TypeOK <=> Notifying!TypeOK
    /\ Notifier!Init <=> Notifying!Init
    /\ Notifier!vars = Notifying!vars
    /\ Notifier!vars' = Notifying!vars'
    /\ Notifier!Next <=> Notifying!Next
<1>1. Notifier!TypeOK <=> Notifying!TypeOK
    BY DEF Notifier!TypeOK, Notifying!TypeOK, Notifier!Notification,
           Notifying!Notification, Notifier!Events, Notifying!Events,
           Notifier!PcState, Notifying!PcState
<1>2. Notifier!Init <=> Notifying!Init
    BY DEF Notifier!Init, Notifying!Init, Notifier!Events, Notifying!Events
<1>3. Notifier!vars = Notifying!vars /\ Notifier!vars' = Notifying!vars'
    BY DEF Notifier!vars, Notifying!vars, Notifier!brokerVars,
           Notifying!brokerVars, Notifier!consumerVars, Notifying!consumerVars,
           Notifier!history, Notifying!history
<1>4. Notifier!Next <=> Notifying!Next
    BY DEF Notifier!Next, Notifying!Next, Notifier!ConsumerStep,
           Notifying!ConsumerStep, Notifier!Request, Notifying!Request,
           Notifier!PublishPriceChanged, Notifying!PublishPriceChanged,
           Notifier!Deliver, Notifying!Deliver, Notifier!ConnectionLost,
           Notifying!ConnectionLost, Notifier!TakeMessage,
           Notifying!TakeMessage, Notifier!LeaveLoop, Notifying!LeaveLoop,
           Notifier!LookUpSubscribers, Notifying!LookUpSubscribers,
           Notifier!LookupError, Notifying!LookupError,
           Notifier!GetSubscribers, Notifying!GetSubscribers,
           Notifier!CreateNotification, Notifying!CreateNotification,
           Notifier!InsertError, Notifying!InsertError,
           Notifier!NotificationRow, Notifying!NotificationRow,
           Notifier!IncrementUnread, Notifying!IncrementUnread,
           Notifier!IncrError, Notifying!IncrError, Notifier!FinishMessage,
           Notifying!FinishMessage, Notifier!Subscribe, Notifying!Subscribe,
           Notifier!Unsubscribe, Notifying!Unsubscribe, Notifier!MarkAsRead,
           Notifying!MarkAsRead, Notifier!RowsMarkedRead,
           Notifying!RowsMarkedRead, Notifier!ResetUnread,
           Notifying!ResetUnread, Notifier!CounterAfterReset,
           Notifying!CounterAfterReset, Notifier!DeleteUser,
           Notifying!DeleteUser, Notifier!Crash, Notifying!Crash,
           Notifier!GoneWithTheProcess, Notifying!GoneWithTheProcess,
           Notifier!Restart, Notifying!Restart, Notifier!Serving,
           Notifying!Serving, Notifier!LookedUp, Notifying!LookedUp,
           Notifier!Events, Notifying!Events, Notifier!brokerVars,
           Notifying!brokerVars, Notifier!consumerVars, Notifying!consumerVars,
           Notifier!history, Notifying!history
<1> QED
    BY <1>1, <1>2, <1>3, <1>4

\* Every step of the system is one of the offers, or leaves them alone.
LEMMA OffersOwnSteps == [Next]_vars => [Offering!Next]_(Offering!vars)
<1> SUFFICES ASSUME [Next]_vars
             PROVE  Aggregator!Next \/ UNCHANGED Aggregator!vars
    BY SameOffers
<1>1. UNCHANGED aggregator => UNCHANGED Aggregator!vars
    BY DEF aggregator, Aggregator!vars, Aggregator!work, Aggregator!tables,
           Aggregator!history
<1>2. ASSUME Aggregator!ImportStep("import")
      PROVE  Aggregator!Next
    BY <1>2 DEF Aggregator!Next, Aggregator!Importers
<1>3. CASE ImportRow
    BY <1>2, <1>3 DEF ImportRow, Aggregator!ImportStep
<1>4. CASE Deliver \/ ImportList \/ EndList \/ RowStep
    BY <1>1, <1>2, <1>4
    DEF Deliver, ImportList, EndList, RowStep, Aggregator!ImportStep
<1>5. CASE \/ ListStep /\ UNCHANGED aggregator
           \/ NotifierStep
           \/ \E u \in Users, c \in Components :
                 FetchOffers(u, c) \/ Subscribe(u, c) \/ Unsubscribe(u, c)
           \/ UNCHANGED aggregator /\ Notifier!Restart
           \/ ImporterDies \/ NotifierFails \/ UNCHANGED vars
    BY <1>1, <1>5
    DEF NotifierStep, FetchOffers, Subscribe, Unsubscribe, ImporterDies, NotifierFails,
        vars
<1>6. CASE Aggregator!Restart \/ AggregatorCutOff \/ AggregatorDies
    BY <1>6 DEF AggregatorCutOff, AggregatorDies, Aggregator!Next
<1> QED
    BY <1>3, <1>4, <1>5, <1>6 DEF Next, Work

\* Likewise for notifications-service, whose queue gets what is published.
LEMMA NotificationsOwnSteps ==
    AlertInv /\ [Next]_vars => [Notifying!Next]_(Notifying!vars)
<1> SUFFICES ASSUME AlertInv, [Next]_vars
             PROVE  Notifier!Next \/ UNCHANGED Notifier!vars
    BY SameNotifications
<1>1. UNCHANGED notifier /\ UNCHANGED published => UNCHANGED Notifier!vars
    BY DEF notifier, Notifier!vars, Notifier!brokerVars, Notifier!consumerVars,
           Notifier!history, Routed
<1>2. UNCHANGED aggregator => UNCHANGED published
    BY DEF aggregator
<1>3. CASE RowStep
    <2>1. Len(published') > Len(published) \/ UNCHANGED published
        <3>1. \/ UNCHANGED published
              \/ pc["import"] = "publish" /\ published' = Append(published, Row)
            BY <1>3 DEF RowStep, Aggregator!RowStep, Aggregator!Upsert,
                        Aggregator!UpsertFails, Aggregator!InsertPriceHistory,
                        Aggregator!PublishPriceChanged, Aggregator!tables, Row
        <3>2. AtWork => Row \in Item
            BY DEF AlertInv, AlertType
        <3> QED
            BY <3>1, <3>2 DEF AtWork, AlertInv, AlertType
    <2>2. CASE Len(published') > Len(published)
        BY <1>3, <2>2 DEF RowStep, Notifier!Next
    <2>3. CASE ~(Len(published') > Len(published))
        BY <1>1, <1>3, <2>1, <2>3 DEF RowStep
    <2> QED
        BY <2>2, <2>3
<1>4. CASE \/ Deliver \/ ImportList \/ EndList \/ ImportRow \/ ImporterDies
           \/ AggregatorCutOff \/ AggregatorDies \/ UNCHANGED vars
           \/ ListStep /\ UNCHANGED <<aggregator, notifier>>
           \/ Aggregator!Restart /\ UNCHANGED notifier
           \/ \E u \in Users, c \in Components : FetchOffers(u, c)
    <2>1. UNCHANGED notifier
        BY <1>4 DEF Deliver, ImportList, EndList, ImportRow, ImporterDies,
                    AggregatorCutOff, AggregatorDies, FetchOffers, vars
    <2>2. UNCHANGED published
        BY <1>2, <1>4
        DEF Deliver, ImportList, EndList, ImportRow, ImporterDies, AggregatorCutOff,
            AggregatorDies, FetchOffers, vars, Aggregator!StartImport, Aggregator!FinishImport,
            Aggregator!ReadRow, Aggregator!GetOfferPrice, Aggregator!ConnectionLost,
            Aggregator!Crash, Aggregator!ProcessDies, Aggregator!Restart
    <2> QED
        BY <1>1, <2>1, <2>2
<1>5. CASE NotifierStep \/ NotifierFails \/ Notifier!Restart
    BY <1>5 DEF NotifierStep, NotifierFails, Notifier!Next
<1>6. ASSUME NEW u \in Users, NEW c \in Components, Subscribe(u, c) \/ Unsubscribe(u, c)
      PROVE  Notifier!Next
    BY <1>6 DEF Subscribe, Unsubscribe, Notifier!Next, Notifier!Request
<1> QED
    BY <1>3, <1>4, <1>5, <1>6 DEF Next, Work

(***************************************************************************)
(* Put together, the services still do what each was proved to do alone:   *)
(* nothing that passes between importer, offers and notifications makes    *)
(* one of them take a step its own specification does not have.            *)
(***************************************************************************)
THEOREM ServicesRun == Spec => Aggregator!Spec /\ Notifier!Spec
<1>1. Init => Aggregator!Init /\ Notifier!Init /\ AlertInv
    BY AlertInit DEF Init
<1>2. AlertInv /\ [Next]_vars => AlertInv'
    BY AlertInvInductive
<1>3. [Next]_vars => [Aggregator!Next]_(Aggregator!vars)
    BY OffersOwnSteps, SameOffers
<1>4. AlertInv /\ [Next]_vars => [Notifier!Next]_(Notifier!vars)
    BY NotificationsOwnSteps, SameNotifications
<1> QED
    BY <1>1, <1>2, <1>3, <1>4, PTL DEF Spec, Aggregator!Spec, Notifier!Spec

LEMMA SamePromises ==
    /\ Offering!AnnouncedPriceCurrent => Aggregator!AnnouncedPriceCurrent
    /\ Offering!EventsMakeChain => Aggregator!EventsMakeChain
    /\ Offering!HistoryFollowsOffers => Aggregator!HistoryFollowsOffers
    /\ Notifying!NotificationsInOrder => Notifier!NotificationsInOrder
    /\ Notifying!OnlySubscribersNotified => Notifier!OnlySubscribersNotified
    /\ Notifying!CounterCovered => Notifier!CounterCovered
<1>1. /\ Offering!AnnouncedPriceCurrent => Aggregator!AnnouncedPriceCurrent
      /\ Offering!EventsMakeChain => Aggregator!EventsMakeChain
      /\ Offering!HistoryFollowsOffers => Aggregator!HistoryFollowsOffers
    BY DEF Aggregator!AnnouncedPriceCurrent, Offering!AnnouncedPriceCurrent,
           Aggregator!EventsMakeChain, Offering!EventsMakeChain,
           Aggregator!HistoryFollowsOffers, Offering!HistoryFollowsOffers,
           Aggregator!LastPriceIs, Offering!LastPriceIs, Aggregator!EventsOf,
           Offering!EventsOf, Aggregator!RecordsOf, Offering!RecordsOf,
           Aggregator!At, Offering!At, Aggregator!Keys, Offering!Keys,
           Aggregator!Actors, Offering!Actors, Aggregator!Importers,
           Offering!Importers, Aggregator!Stored, Offering!Stored,
           Aggregator!OldPrice, Offering!OldPrice, Aggregator!NoOffer,
           Offering!NoOffer
<1>2. /\ Notifying!NotificationsInOrder => Notifier!NotificationsInOrder
      /\ Notifying!OnlySubscribersNotified => Notifier!OnlySubscribersNotified
    BY DEF Notifier!NotificationsInOrder, Notifying!NotificationsInOrder,
           Notifier!OnlySubscribersNotified, Notifying!OnlySubscribersNotified
<1>3. ASSUME NEW u
      PROVE  /\ Notifier!NotificationsOf(u) = Notifying!NotificationsOf(u)
             /\ Notifier!Pending(u) = Notifying!Pending(u)
    BY DEF Notifier!NotificationsOf, Notifying!NotificationsOf, Notifier!Pending,
           Notifying!Pending
<1>4. Notifying!CounterCovered => Notifier!CounterCovered
    <2>1. \A S : Notifier!Cardinality(S) = Notifying!Cardinality(S)
        BY DEF Notifier!Cardinality, Notifying!Cardinality
    <2> QED
        BY <1>3, <2>1 DEF Notifier!CounterCovered, Notifying!CounterCovered
<1> QED
    BY <1>1, <1>2, <1>4

\* Both instances of Mailboxes say the same, too.
LEMMA SameMailboxes == Notifying!ImplementsMailboxes => Notifier!ImplementsMailboxes
<1>1. \A rows : Notifying!Pairs(rows) = Notifier!Pairs(rows)
    BY DEF Notifying!Pairs, Notifier!Pairs
<1>2. Notifying!Boxes!Init => Notifier!Boxes!Init
    BY <1>1 DEF Notifying!Boxes!Init, Notifier!Boxes!Init
<1>3. [Notifying!Boxes!Next]_(Notifying!Boxes!vars)
          => [Notifier!Boxes!Next]_(Notifier!Boxes!vars)
    BY SMTT(60)
    DEF Notifying!Boxes!Next, Notifier!Boxes!Next, Notifying!Boxes!vars,
        Notifier!Boxes!vars, Notifying!Boxes!Publish,
        Notifier!Boxes!Publish, Notifying!Boxes!Subscribe,
        Notifier!Boxes!Subscribe, Notifying!Boxes!Unsubscribe,
        Notifier!Boxes!Unsubscribe, Notifying!Boxes!CloseAccount,
        Notifier!Boxes!CloseAccount, Notifying!Boxes!Send,
        Notifier!Boxes!Send, Notifying!Boxes!Open, Notifier!Boxes!Open,
        Notifying!Boxes!Take, Notifier!Boxes!Take, Notifying!Boxes!Lose,
        Notifier!Boxes!Lose, Notifying!Pairs, Notifier!Pairs
<1> QED
    BY <1>2, <1>3, PTL
    DEF Notifying!ImplementsMailboxes, Notifier!ImplementsMailboxes,
        Notifying!Boxes!Spec, Notifier!Boxes!Spec

(***************************************************************************)
(* So all that is proved of the services alone holds of the whole: an      *)
(* offer's last announced price is that of the table, its events make a    *)
(* chain and its history follows it (ImportPriceList); users get           *)
(* notifications in order, once, of what they subscribed to, and no more   *)
(* are counted than inserted (HandlePriceChange); and mailboxes get what   *)
(* they are due.                                                           *)
(***************************************************************************)
THEOREM PromisesKept ==
    Spec => /\ []Aggregator!AnnouncedPriceCurrent
            /\ []Aggregator!EventsMakeChain
            /\ []Aggregator!HistoryFollowsOffers
            /\ []Notifier!NotificationsInOrder
            /\ []Notifier!OnlySubscribersNotified
            /\ []Notifier!CounterCovered
            /\ Notifier!ImplementsMailboxes
<1>1. Offering!Spec => /\ []Offering!AnnouncedPriceCurrent
                       /\ []Offering!EventsMakeChain
                       /\ []Offering!HistoryFollowsOffers
    BY Offering!AnnouncementsUpToDate, Offering!EventsChained,
       Offering!HistoryUpToDate, ServiceAssumptions
<1>2. Notifying!Spec => /\ []Notifying!NotificationsInOrder
                        /\ []Notifying!OnlySubscribersNotified
                        /\ []Notifying!CounterCovered
                        /\ Notifying!ImplementsMailboxes
    BY Notifying!InOrder, Notifying!SubscribersOnly, Notifying!CounterNeverAhead,
       Notifying!MailboxesImplemented, ServiceAssumptions
<1>3. Init => Offering!Init /\ Notifying!Init /\ AlertInv
    BY AlertInit, SameOffers, SameNotifications DEF Init
<1>4. AlertInv /\ [Next]_vars => AlertInv'
    BY AlertInvInductive
<1>5. /\ [Next]_vars => [Offering!Next]_(Offering!vars)
      /\ AlertInv /\ [Next]_vars => [Notifying!Next]_(Notifying!vars)
    BY OffersOwnSteps, NotificationsOwnSteps
<1>6. Spec => Offering!Spec /\ Notifying!Spec
    BY <1>3, <1>4, <1>5, PTL DEF Spec, Offering!Spec, Notifying!Spec
<1>7. Spec => /\ []Offering!AnnouncedPriceCurrent
              /\ []Offering!EventsMakeChain
              /\ []Offering!HistoryFollowsOffers
    BY <1>1, <1>6
<1>8. Spec => /\ []Notifying!NotificationsInOrder
              /\ []Notifying!OnlySubscribersNotified
              /\ []Notifying!CounterCovered
    BY <1>2, <1>6
<1>9. Spec => Notifier!ImplementsMailboxes
    BY <1>2, <1>6, SameMailboxes
<1> QED
    BY <1>7, <1>8, <1>9, SamePromises, PTL

-----------------------------------------------------------------------------
(* Types. *)

\* A bounded set of numbers has a greatest one.
LEMMA Greatest ==
    ASSUME NEW n \in Nat, NEW S \in SUBSET (0 .. n), S # {}
    PROVE  List!Max(S) \in S
<1> DEFINE from(x) == S \cap x .. n
           T       == {from(x) : x \in S}
<1>1. T \subseteq FiniteSubsetsOf(Nat) /\ T # {}
    <2>1. ASSUME NEW x \in S
          PROVE  from(x) \in FiniteSubsetsOf(Nat)
        <3>1. IsFiniteSet(0 .. n) /\ from(x) \in SUBSET (0 .. n)
            BY FS_Interval
        <3>2. IsFiniteSet(from(x))
            BY <3>1, FS_Subset
        <3> QED
            BY <3>2 DEF FiniteSubsetsOf
    <2> QED
        BY <2>1
<1>2. PICK t \in T : \A r \in T : <<r, t>> \notin StrictSubsetOrdering(Nat)
    <2> HIDE DEF T
    <2> QED
        BY <1>1, WFMin, FS_StrictSubsetOrderingWellFounded
<1>3. PICK x \in S : t = from(x)
    OBVIOUS
<1>4. ASSUME NEW y \in S, ~(x >= y)
      PROVE  FALSE
    <2>1. from(y) \subseteq from(x) /\ x \in from(x) /\ x \notin from(y)
        BY <1>4
    <2>2. <<from(y), t>> \in StrictSubsetOrdering(Nat)
        BY <1>3, <2>1 DEF StrictSubsetOrdering
    <2> QED
        BY <1>2, <2>2
<1> QED
    BY <1>3, <1>4 DEF List!Max

\* What the consumer has at hand is a file, with fewer rows.
HandType == \A file \in atHand : "number" \in DOMAIN file

ListTypeInv == ListInv /\ List!TypeOK /\ HandType

LEMMA ListTypeInit == Init => ListTypeInv
    BY ListInit, PriceAlertsAssumption
    DEF Init, List!Init, ListTypeInv, List!TypeOK, HandType

LEMMA ListTypeStep == ListTypeInv /\ [Next]_vars => ListTypeInv'
<1> SUFFICES ASSUME ListTypeInv, ListNext \/ UNCHANGED lists, ListInv'
             PROVE  List!TypeOK' /\ HandType'
    BY ListsOwnSteps, ListInvInductive DEF ListTypeInv
<1> USE PriceAlertsAssumption DEF List!TypeOK, HandType, ListTypeInv
<1>1. /\ entries' \in [ImporterRuns -> SUBSET Names]
      /\ moved' \in [ImporterRuns -> SUBSET Names]
      /\ queue' \in Seq(Names) /\ buffer' \in Seq(Names)
    BY DEF ListInv, ListType
<1>2. ASSUME NEW n \in Names, List!PlaceList(n)
      PROVE  List!TypeOK' /\ HandType'
    <2>1. {0} \cup List!Range(newest) \in SUBSET (0 .. MaxLists)
        BY DEF List!Range
    <2>2. List!Placed \in 0 .. MaxLists
        BY <2>1, Greatest DEF List!Placed
    <2>3. PICK rows \in Lists :
              inbox' = [inbox EXCEPT ![n] =
                           [number |-> List!Placed + 1, name |-> n, rows |-> rows]]
        BY <1>2 DEF List!PlaceList
    <2>4. List!Placed + 1 \in 1 .. MaxLists
        BY <1>2, <2>2 DEF List!PlaceList
    <2>5. [number |-> List!Placed + 1, name |-> n, rows |-> rows] \in List!File
        BY <2>4 DEF List!File
    <2>6. inbox' \in [Names -> List!File \cup {List!NoFile}]
        BY <2>3, <2>5
    <2>7. newest' \in [Names -> 0 .. MaxLists] /\ lost' \subseteq Names
        BY <1>2, <2>4 DEF List!PlaceList
    <2>8. UNCHANGED <<processed, atHand, imported>>
        BY <1>2 DEF List!PlaceList
    <2> QED
        BY <1>1, <2>6, <2>7, <2>8
<1>3. ASSUME NEW i \in ImporterRuns, List!MoveFile(i)
      PROVE  List!TypeOK' /\ HandType'
    <2>1. List!Current(i) \in Names
        BY <1>3, CurrentEntry DEF List!MoveFile
    <2> HIDE DEF List!Current
    <2>2. UNCHANGED <<atHand, newest, imported, lost>>
        BY <1>3 DEF List!MoveFile, List!history
    <2>3. /\ inbox' \in [Names -> List!File \cup {List!NoFile}]
          /\ processed' \in [Names -> List!File \cup {List!NoFile}]
        BY <1>3, <2>1 DEF List!MoveFile, List!files
    <2> QED
        BY <1>1, <2>2, <2>3
<1>4. ASSUME NEW i \in ImporterRuns,
             \/ List!ReadDir(i) \/ List!PublishPath(i) \/ List!ImporterDies(i)
      PROVE  List!TypeOK' /\ HandType'
    <2>1. UNCHANGED <<inbox, processed, atHand, newest, imported>>
        BY <1>4 DEF List!ReadDir, List!PublishPath, List!ImporterDies, List!files,
                    List!history
    <2>2. lost' \subseteq lost \cup moved[i]
        BY <1>4 DEF List!ReadDir, List!PublishPath, List!ImporterDies, List!history
    <2> QED
        BY <1>1, <2>1, <2>2
<1>5. CASE List!OpenList
    <2>1. PICK n : n = Head(buffer)
        OBVIOUS
    <2>2. n \in Names
        BY <1>5, <2>1, HeadAndTail DEF List!OpenList
    <2>3. UNCHANGED <<inbox, processed, newest, lost>>
        BY <1>5 DEF List!OpenList, List!files
    <2>4. CASE processed[n] = List!NoFile
        BY <1>1, <1>5, <2>1, <2>3, <2>4 DEF List!OpenList, List!FileAt
    <2>5. CASE processed[n] # List!NoFile
        <3>1. processed[n] \in List!File
            BY <2>2, <2>5
        <3>2. /\ processed[n].number \in 1 .. MaxLists /\ processed[n].name \in Names
              /\ "number" \in DOMAIN processed[n]
            BY <3>1 DEF List!File
        <3>3. /\ atHand' = {processed[n]}
              /\ imported' = [imported EXCEPT ![processed[n].name] = processed[n].number]
            BY <1>5, <2>1, <2>5 DEF List!OpenList, List!FileAt
        <3>4. imported' \in [Names -> 0 .. MaxLists]
            BY <3>2, <3>3
        <3> QED
            BY <1>1, <2>3, <3>2, <3>3, <3>4
    <2> QED
        BY <2>4, <2>5
<1>6. ASSUME NEW row, List!NextRow(row)
      PROVE  List!TypeOK' /\ HandType'
    <2>1. PICK file \in atHand : atHand' = {[file EXCEPT !.rows = Tail(@)]}
        BY <1>6 DEF List!NextRow
    <2>2. \A f \in atHand' : "number" \in DOMAIN f /\ f.number \in 1 .. MaxLists
        BY <2>1
    <2>3. UNCHANGED <<inbox, processed, newest, imported, lost>>
        BY <1>6 DEF List!NextRow, List!files, List!history
    <2> QED
        BY <1>1, <2>2, <2>3
<1>7. CASE List!ConsumerCutOff \/ List!ConsumerDies
    <2>1. UNCHANGED <<inbox, processed, newest, imported>> /\ atHand' \subseteq atHand
        BY <1>7 DEF List!ConsumerCutOff, List!ConsumerDies, List!BufferLost, List!files
    <2>2. lost' = lost \cup List!Range(buffer)
        BY <1>7 DEF List!ConsumerCutOff, List!ConsumerDies, List!BufferLost
    <2>3. \A x \in DOMAIN buffer : buffer[x] \in Names
        OBVIOUS
    <2>4. List!Range(buffer) \subseteq Names
        BY <2>3 DEF List!Range
    <2>5. lost' \subseteq Names
        BY <2>2, <2>4
    <2> QED
        BY <1>1, <2>1, <2>5
<1>8. CASE List!Deliver \/ List!CloseList \/ UNCHANGED lists
    BY <1>1, <1>8 DEF List!Deliver, List!CloseList, List!files, List!history, lists
<1> QED
    BY <1>2, <1>3, <1>4, <1>5, <1>6, <1>7, <1>8 DEF ListNext

TypeInv == AlertInv /\ ListTypeInv /\ TypeOK

LEMMA TypeInvInit == Init => TypeInv
<1> SUFFICES ASSUME Init
             PROVE  TypeInv
    OBVIOUS
<1>1. Aggregator!TypeOK
    BY Offering!TypeInit, ServiceAssumptions, SameOffers DEF Init
<1>2. Notifier!TypeOK
    BY Notifying!TypeInit, ServiceAssumptions, SameNotifications DEF Init
<1>3. AlertInv /\ ListTypeInv
    BY AlertInit, ListTypeInit
<1>4. /\ passed \subseteq Users \X Aggregator!Keys
      /\ missed \subseteq Users /\ failures \in 0 .. MaxFailures
    BY PriceAlertsAssumption DEF Init
<1> QED
    BY <1>1, <1>2, <1>3, <1>4
    DEF TypeInv, TypeOK, AlertInv, AlertType, ListTypeInv, Keys

LEMMA TypeInvStep == TypeInv /\ [Next]_vars => TypeInv'
<1> SUFFICES ASSUME TypeInv, [Next]_vars
             PROVE  TypeInv'
    OBVIOUS
<1>1. Aggregator!TypeOK'
    <2>1. Offering!TypeOK /\ [Offering!Next]_(Offering!vars)
        BY OffersOwnSteps, SameOffers DEF TypeInv, TypeOK
    <2>2. Offering!TypeOK'
        BY <2>1, Offering!TypeStep, ServiceAssumptions
    <2> QED
        BY <2>2, SameOffers, PTL
<1>2. Notifier!TypeOK'
    <2>1. Notifying!TypeOK /\ [Notifying!Next]_(Notifying!vars)
        BY NotificationsOwnSteps, SameNotifications DEF TypeInv, TypeOK
    <2>2. Notifying!TypeOK'
        BY <2>1, Notifying!TypeStep, ServiceAssumptions
    <2> QED
        BY <2>2, SameNotifications, PTL
<1>3. AlertInv' /\ ListTypeInv'
    BY AlertInvInductive, ListTypeStep DEF TypeInv
<1>4. missed' \subseteq Users
    <2>1. missed \subseteq Users /\ dropped' \subseteq Users
        BY <1>2 DEF TypeInv, TypeOK, Notifier!TypeOK
    <2>2. \/ missed' \in {missed, Users} \/ missed' = missed \cup dropped'
        BY DEF Next, Work, Deliver, ImportList, ImportRow, EndList, RowStep,
               ImporterDies, AggregatorCutOff, AggregatorDies, NotifierStep,
               FetchOffers, Subscribe, Unsubscribe, NotifierFails, knowledge, vars
    <2> QED
        BY <2>1, <2>2
<1>5. failures' \in 0 .. MaxFailures
    BY PriceAlertsAssumption
    DEF TypeInv, TypeOK, Next, Fail, ImporterDies, AggregatorCutOff, AggregatorDies,
        NotifierFails, vars
<1>6. passed' \subseteq Users \X Keys
    <2>1. passed \subseteq Users \X Keys
        BY DEF TypeInv, TypeOK, Keys
    <2>2. passed' \subseteq passed \/ (LookupDone /\ PassBy /\ UNCHANGED published)
        BY DEF Next, Work, Deliver, ImportList, ImportRow, EndList, RowStep,
               ImporterDies, AggregatorCutOff, AggregatorDies, NotifierStep, Learn, Tell,
               FetchOffers, Subscribe, Unsubscribe, NotifierFails, knowledge, aggregator,
               vars
    <2>3. CASE LookupDone /\ PassBy
        <3>1. current \in DOMAIN published /\ published \in Seq(Item)
            BY <2>3 DEF TypeInv, AlertInv, AlertType, InLoop, LookupDone
        <3>2. published[current] \in Item
            BY <3>1
        <3>3. published[current].key \in Keys
            BY <3>2 DEF Item, Aggregator!Item, Keys
        <3>4. ASSUME NEW p \in passed', p \notin passed
              PROVE  \E u \in Users : p = <<u, published[current].key>>
            BY <2>3, <3>4 DEF PassBy
        <3> QED
            BY <2>1, <3>3, <3>4
    <2> QED
        BY <2>1, <2>2, <2>3
<1> QED
    BY <1>1, <1>2, <1>3, <1>4, <1>5, <1>6
    DEF TypeInv, TypeOK, AlertInv, AlertType, ListTypeInv, Keys

(***************************************************************************)
(* The types of the whole, those of the three services among them.         *)
(***************************************************************************)
THEOREM TypeCorrect == Spec => []TypeOK
<1>1. TypeInv => TypeOK
    BY DEF TypeInv
<1> QED
    BY <1>1, TypeInvInit, TypeInvStep, PTL DEF Spec
=============================================================================
