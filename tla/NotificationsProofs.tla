------------------------ MODULE NotificationsProofs ------------------------
(***************************************************************************)
(* Theorems about Notifications, for every set of users and components,    *)
(* every choice of faults and every bound.                                 *)
(***************************************************************************)
EXTENDS Notifications, TLAPS, FiniteSetTheorems, SequenceTheorems

(***************************************************************************)
(* What an UPDATE of one row leaves alone: the table keeps its length and  *)
(* every row its user and its event.                                       *)
(***************************************************************************)
LEMMA MarkedRowsKept ==
    ASSUME notifs \in Seq(Notification), NEW u, NEW n
    PROVE  /\ RowsMarkedRead(u, n) \in Seq(Notification)
           /\ DOMAIN RowsMarkedRead(u, n) = DOMAIN notifs
           /\ Len(RowsMarkedRead(u, n)) = Len(notifs)
           /\ \A i \in DOMAIN notifs :
                 /\ RowsMarkedRead(u, n)[i].user = notifs[i].user
                 /\ RowsMarkedRead(u, n)[i].event = notifs[i].event
<1> DEFINE R == RowsMarkedRead(u, n)
<1>1. Len(notifs) \in Nat /\ DOMAIN notifs = 1 .. Len(notifs)
    BY LenProperties
<1>2. \A i \in DOMAIN notifs :
        /\ R[i] \in Notification
        /\ R[i].user = notifs[i].user
        /\ R[i].event = notifs[i].event
    <2> TAKE i \in DOMAIN notifs
    <2>1. notifs[i] \in Notification
        BY <1>1, ElementOfSeq
    <2>2. R[i] = IF i = n /\ notifs[i].user = u
                 THEN [notifs[i] EXCEPT !.isRead = TRUE]
                 ELSE notifs[i]
        BY DEF RowsMarkedRead
    <2> QED
        BY <2>1, <2>2 DEF Notification
<1>3. R \in [1 .. Len(notifs) -> Notification]
    BY <1>1, <1>2 DEF RowsMarkedRead
<1>4. R \in Seq(Notification) /\ DOMAIN R = DOMAIN notifs
    BY <1>1, <1>3, SeqDef
<1>5. Len(R) = Len(notifs)
    BY <1>1, <1>4, LenProperties
<1> QED
    BY <1>2, <1>4, <1>5

(***************************************************************************)
(* A new row goes to the end of the table.                                 *)
(***************************************************************************)
LEMMA RowAppended ==
    ASSUME notifs \in Seq(Notification), NEW u \in Users, NEW e \in Nat
    PROVE  LET T == Append(notifs, NotificationRow(u, e))
           IN  /\ T \in Seq(Notification)
               /\ Len(notifs) \in Nat
               /\ DOMAIN notifs = 1 .. Len(notifs)
               /\ DOMAIN T = 1 .. (Len(notifs) + 1)
               /\ \A i \in DOMAIN notifs : T[i] = notifs[i]
               /\ T[Len(notifs) + 1].user = u
               /\ T[Len(notifs) + 1].event = e
<1>1. NotificationRow(u, e) \in Notification
    BY DEF NotificationRow, Notification
<1> QED
    BY <1>1 DEF NotificationRow

(***************************************************************************)
(* Every reachable state is well typed.                                    *)
(***************************************************************************)
LEMMA TypeInit == Init => TypeOK
    BY DEF Init, TypeOK, Events, PcState, Notification

LEMMA TypeStep == TypeOK /\ [Next]_vars => TypeOK'
<1> SUFFICES ASSUME TypeOK, [Next]_vars
             PROVE  TypeOK'
    OBVIOUS
<1> USE DEF TypeOK, brokerVars, consumerVars, history, Events, PcState
<1>1. CASE UNCHANGED vars
    BY <1>1 DEF vars
<1>2. ASSUME NEW c \in Components, PublishPriceChanged(c)
      PROVE  TypeOK'
    <2>1. Len(published') = Len(published) + 1
        BY <1>2 DEF PublishPriceChanged
    <2> QED
        BY <1>2, <2>1 DEF PublishPriceChanged
<1>3. CASE Deliver
    BY <1>3 DEF Deliver
<1>4. CASE ConnectionLost
    <2>1. PICK d \in {delivered, Len(published)} : delivered' = d /\ taken' = d
        BY <1>4 DEF ConnectionLost
    <2>2. Len(published) \in Nat
        BY LenProperties
    <2>3. /\ delivered' \in 0 .. Len(published)
          /\ taken' \in 0 .. delivered'
          /\ current \in 0 .. taken'
        BY <2>1, <2>2
    <2>4. /\ published' = published
          /\ UNCHANGED <<accounts, subs, pc, current, todo, uncounted, notifs,
                         unread, marking, eligible, dropped>>
          /\ connected' \in BOOLEAN
        BY <1>4 DEF ConnectionLost
    <2> QED
        BY <2>3, <2>4
<1>5. CASE TakeMessage
    BY <1>5 DEF TakeMessage
<1>6. CASE LeaveLoop
    BY <1>6 DEF LeaveLoop
<1>7. CASE LookUpSubscribers
    BY <1>7 DEF LookUpSubscribers, LookupError, GetSubscribers
<1>8. ASSUME NEW u \in Users, CreateNotification(u)
      PROVE  TypeOK'
    <2>1. Append(notifs, NotificationRow(u, current)) \in Seq(Notification)
        BY RowAppended
    <2> QED
        BY <1>8, <2>1 DEF CreateNotification, InsertError
<1>9. ASSUME NEW u \in Users, IncrementUnread(u)
      PROVE  TypeOK'
    <2>1. unread' \in [Users -> Nat]
        BY <1>9 DEF IncrementUnread, IncrError
    <2> QED
        BY <1>9, <2>1 DEF IncrementUnread, IncrError
<1>10. CASE FinishMessage
    BY <1>10 DEF FinishMessage
<1>11. ASSUME NEW u \in Users, NEW c \in Components, Subscribe(u, c)
       PROVE  TypeOK'
    BY <1>11 DEF Subscribe
<1>12. ASSUME NEW u \in Users, NEW c \in Components, Unsubscribe(u, c)
       PROVE  TypeOK'
    BY <1>12 DEF Unsubscribe
<1>13. ASSUME NEW u \in Users, NEW n \in DOMAIN notifs, MarkAsRead(u, n)
       PROVE  TypeOK'
    <2>1. RowsMarkedRead(u, n) \in Seq(Notification)
        BY MarkedRowsKept
    <2> QED
        BY <1>13, <2>1 DEF MarkAsRead
<1>14. ASSUME NEW u \in Users, ResetUnread(u)
       PROVE  TypeOK'
    <2>1. unread' \in [Users -> Nat]
        BY <1>14 DEF ResetUnread, CounterAfterReset
    <2>2. marking' \in [Users -> Nat]
        BY <1>14 DEF ResetUnread
    <2> QED
        BY <1>14, <2>1, <2>2 DEF ResetUnread
<1>15. ASSUME NEW u \in Users, DeleteUser(u)
       PROVE  TypeOK'
    <2>1. subs' \subseteq subs /\ accounts' \subseteq accounts
        BY <1>15 DEF DeleteUser
    <2>2. UNCHANGED <<published, delivered, taken, connected, pc, current,
                      todo, uncounted, notifs, unread, marking, eligible,
                      dropped>>
        BY <1>15 DEF DeleteUser
    <2>3. subs' \subseteq Users \X Components /\ accounts' \subseteq Users
        <3> HIDE DEF Events, PcState, brokerVars, consumerVars, history
        <3> QED
            BY <2>1, Zenon
    <2> QED
        BY <2>2, <2>3
<1>16. CASE Crash
    <2>1. marking' \in [Users -> Nat]
        BY <1>16 DEF Crash
    <2>2. taken' \in 0 .. delivered' /\ current' \in 0 .. taken'
        BY <1>16 DEF Crash, GoneWithTheProcess
    <2> QED
        BY <1>16, <2>1, <2>2 DEF Crash
<1>17. CASE Restart
    BY <1>17 DEF Restart
<1> QED
    BY <1>1, <1>2, <1>3, <1>4, <1>5, <1>6, <1>7, <1>8, <1>9, <1>10, <1>11,
       <1>12, <1>13, <1>14, <1>15, <1>16, <1>17
    DEF Next, ConsumerStep, Request

THEOREM TypeCorrect == Spec => []TypeOK
    BY TypeInit, TypeStep, PTL DEF Spec

-----------------------------------------------------------------------------
(***************************************************************************)
(* The order of notifications.  The table never runs ahead of the events   *)
(* taken; while an event is being handled none of its subscribers still to *)
(* come has a notification of it, and before its lookup nobody has.        *)
(***************************************************************************)
Handling == pc \in {"lookup", "notify", "incr"}

OrderInv ==
    /\ \A i \in DOMAIN notifs :
          /\ notifs[i].event <= taken
          /\ Handling => notifs[i].event <= current
          /\ pc = "lookup" => notifs[i].event < current
          /\ pc \in {"notify", "incr"} /\ notifs[i].event = current
                => notifs[i].user \notin todo
    /\ NotificationsInOrder

(***************************************************************************)
(* Who is subscribed while an event waits is on record as eligible for it, *)
(* and the snapshot the loop works from holds eligible users only.         *)
(***************************************************************************)
EligibleInv ==
    /\ \A e \in Events, u \in Users :
          ~LookedUp(e) /\ <<u, published[e]>> \in subs => u \in eligible[e]
    /\ pc \in {"notify", "incr"} => todo \subseteq eligible[current]
    /\ \A i \in DOMAIN notifs : notifs[i].event \in Events
    /\ OnlySubscribersNotified

(***************************************************************************)
(* Each increment has its row.                                             *)
(***************************************************************************)
CountInv ==
    /\ pc # "incr" => uncounted = {}
    /\ CounterCovered

(***************************************************************************)
(* A step either leaves the users and the events of the table's rows       *)
(* alone, or is the INSERT of the loop.                                    *)
(***************************************************************************)
RowsKept ==
    /\ DOMAIN notifs' = DOMAIN notifs
    /\ \A i \in DOMAIN notifs :
          /\ notifs'[i].user = notifs[i].user
          /\ notifs'[i].event = notifs[i].event

RowInserted(u) ==
    /\ pc = "notify"
    /\ u \in todo
    /\ notifs' = Append(notifs, NotificationRow(u, current))
    /\ uncounted' = {u}
    /\ pc' = "incr"
    /\ todo' = todo \ {u}
    /\ UNCHANGED <<accounts, subs, brokerVars, current, unread, marking,
                   history>>

LEMMA RowsKeptOrInserted ==
    ASSUME TypeOK, [Next]_vars
    PROVE  RowsKept \/ \E u \in Users : RowInserted(u)
<1>1. CASE notifs' = notifs
    BY <1>1 DEF RowsKept
<1>2. ASSUME NEW u \in Users, CreateNotification(u)
      PROVE  RowsKept \/ \E v \in Users : RowInserted(v)
    BY <1>2, <1>1 DEF CreateNotification, InsertError, RowInserted, history
<1>3. ASSUME NEW u \in Users, NEW n \in DOMAIN notifs, MarkAsRead(u, n)
      PROVE  RowsKept
    BY <1>3, MarkedRowsKept DEF MarkAsRead, RowsKept, TypeOK
<1>4. \/ notifs' = notifs
      \/ \E u \in Users : CreateNotification(u)
      \/ \E u \in Users, n \in DOMAIN notifs : MarkAsRead(u, n)
    <2>1. CASE ConsumerStep
        BY <2>1
        DEF ConsumerStep, TakeMessage, LeaveLoop, LookUpSubscribers,
            IncrementUnread, FinishMessage
    <2>2. CASE Request
        BY <2>2 DEF Request, Subscribe, Unsubscribe, ResetUnread, DeleteUser
    <2>3. CASE \/ UNCHANGED vars
               \/ \E c \in Components : PublishPriceChanged(c)
               \/ Deliver \/ ConnectionLost \/ Crash \/ Restart
        BY <2>3
        DEF vars, PublishPriceChanged, Deliver, ConnectionLost, Crash, Restart
    <2> QED
        BY <2>1, <2>2, <2>3 DEF Next
<1> QED
    BY <1>1, <1>2, <1>3, <1>4

LEMMA OrderInit == Init => OrderInv
    BY DEF Init, OrderInv, NotificationsInOrder, Handling

LEMMA OrderStep == TypeOK /\ OrderInv /\ [Next]_vars => OrderInv'
<1> SUFFICES ASSUME TypeOK, OrderInv, [Next]_vars
             PROVE  OrderInv'
    OBVIOUS
<1>0. /\ Len(published) \in Nat
      /\ \A i \in DOMAIN notifs : notifs[i].event \in Nat
      /\ delivered \in Nat /\ taken \in Nat /\ current \in Nat
      /\ taken <= delivered /\ current <= taken
    <2>1. Len(published) \in Nat
        BY LenProperties DEF TypeOK
    <2>2. \A i \in DOMAIN notifs : notifs[i] \in Notification
        BY LenProperties, ElementOfSeq DEF TypeOK
    <2> QED
        BY <2>1, <2>2 DEF TypeOK, Notification
<1>1. ASSUME NEW u \in Users, RowInserted(u)
      PROVE  OrderInv'
    <2>1. /\ DOMAIN notifs = 1 .. Len(notifs)
          /\ Len(notifs) \in Nat
          /\ DOMAIN notifs' = 1 .. (Len(notifs) + 1)
          /\ \A i \in DOMAIN notifs : notifs'[i] = notifs[i]
          /\ notifs'[Len(notifs) + 1].user = u
          /\ notifs'[Len(notifs) + 1].event = current
        BY <1>1, RowAppended DEF RowInserted, TypeOK
    <2>2. /\ pc = "notify" /\ pc' = "incr" /\ u \in todo
          /\ todo' = todo \ {u} /\ taken' = taken /\ current' = current
        BY <1>1 DEF RowInserted, brokerVars
    <2>3. \A i \in DOMAIN notifs :
            /\ notifs[i].event <= current
            /\ notifs[i].user = u => notifs[i].event < current
        BY <2>2, <1>0 DEF OrderInv, Handling
    <2>4. NotificationsInOrder'
        BY <2>1, <2>3 DEF OrderInv, NotificationsInOrder
    <2>5. \A i \in DOMAIN notifs' :
            /\ notifs'[i].event <= taken'
            /\ notifs'[i].event <= current'
            /\ notifs'[i].event = current' => notifs'[i].user \notin todo'
        BY <2>1, <2>2, <2>3, <1>0 DEF OrderInv
    <2> QED
        BY <2>2, <2>4, <2>5 DEF OrderInv, Handling
<1>2. CASE RowsKept
    <2>1. NotificationsInOrder'
        BY <1>2 DEF RowsKept, OrderInv, NotificationsInOrder
    <2>2. CASE /\ UNCHANGED <<pc, current, todo>>
               /\ taken <= taken' /\ taken' \in Nat
        BY <1>0, <1>2, <2>1, <2>2 DEF RowsKept, OrderInv, Handling
    <2>3. CASE TakeMessage
        BY <1>0, <1>2, <2>1, <2>3 DEF TakeMessage, RowsKept, OrderInv, Handling
    <2>4. CASE LookUpSubscribers
        BY <1>0, <1>2, <2>1, <2>4
        DEF LookUpSubscribers, LookupError, RowsKept, OrderInv, Handling,
            brokerVars
    <2>5. ASSUME NEW u \in Users, CreateNotification(u)
          PROVE  OrderInv'
        <3>1. /\ pc = "notify" /\ pc' \in {"notify", "incr"}
              /\ todo' \subseteq todo /\ UNCHANGED <<current, taken>>
            BY <2>5 DEF CreateNotification, InsertError, brokerVars
        <3> QED
            BY <1>0, <1>2, <2>1, <3>1 DEF RowsKept, OrderInv, Handling
    <2>6. ASSUME NEW u \in Users, IncrementUnread(u)
          PROVE  OrderInv'
        <3>1. /\ pc = "incr" /\ pc' = "notify"
              /\ UNCHANGED <<todo, current, taken>>
            BY <2>6 DEF IncrementUnread, IncrError, brokerVars
        <3> QED
            BY <1>0, <1>2, <2>1, <3>1 DEF RowsKept, OrderInv, Handling
    <2>7. CASE pc' \notin {"lookup", "notify", "incr"}
               /\ taken <= taken' /\ taken' \in Nat
        BY <1>0, <1>2, <2>1, <2>7 DEF RowsKept, OrderInv, Handling
    <2>8. CASE ConnectionLost
        <3>1. UNCHANGED <<pc, current, todo>> /\ taken <= taken' /\ taken' \in Nat
            BY <1>0, <2>8 DEF ConnectionLost, consumerVars, TypeOK
        <3> QED
            BY <2>2, <3>1
    <2>9. CASE LeaveLoop \/ FinishMessage \/ Crash \/ Restart
        <3>1. pc' \notin {"lookup", "notify", "incr"}
              /\ taken <= taken' /\ taken' \in Nat
            BY <1>0, <2>9
            DEF LeaveLoop, FinishMessage, Crash, GoneWithTheProcess, Restart,
                brokerVars
        <3> QED
            BY <2>7, <3>1
    <2>10. CASE \/ UNCHANGED vars
                \/ \E c \in Components : PublishPriceChanged(c)
                \/ Deliver
                \/ Request
        <3>1. UNCHANGED <<pc, current, todo>> /\ taken <= taken' /\ taken' \in Nat
            BY <1>0, <2>10
            DEF vars, PublishPriceChanged, Deliver, Request, Subscribe,
                Unsubscribe, MarkAsRead, ResetUnread, DeleteUser, brokerVars,
                consumerVars
        <3> QED
            BY <2>2, <3>1
    <2> QED
        BY <2>3, <2>4, <2>5, <2>6, <2>8, <2>9, <2>10 DEF Next, ConsumerStep
<1> QED
    BY <1>1, <1>2, RowsKeptOrInserted

(***************************************************************************)
(* A user's notifications come in the order of the price changes and never *)
(* twice for one change (the consumer loop and HandlePriceChange), under   *)
(* any failures and restarts.                                              *)
(***************************************************************************)
THEOREM InOrder == Spec => []NotificationsInOrder
<1>1. Init => TypeOK /\ OrderInv
    BY TypeInit, OrderInit
<1>2. TypeOK /\ OrderInv /\ [Next]_vars => (TypeOK /\ OrderInv)'
    BY TypeStep, OrderStep
<1>3. OrderInv => NotificationsInOrder
    BY DEF OrderInv
<1> QED
    BY <1>1, <1>2, <1>3, PTL DEF Spec

-----------------------------------------------------------------------------
LEMMA EligibleInit == Init => EligibleInv
    BY DEF Init, EligibleInv, OnlySubscribersNotified, Events

(***************************************************************************)
(* The steps that neither publish nor take an event, subscribe or insert:  *)
(* subscriptions only go and events only become looked up.                 *)
(***************************************************************************)
LEMMA EligibleKept ==
    ASSUME TypeOK, EligibleInv, RowsKept,
           UNCHANGED <<published, eligible, current>>,
           subs' \subseteq subs,
           \A e \in Events : LookedUp(e) => LookedUp(e)',
           pc' \in {"notify", "incr"}
               => pc \in {"notify", "incr"} /\ todo' \subseteq todo
    PROVE  EligibleInv'
<1>1. Events' = Events
    BY DEF Events
<1>2. \A e \in Events', u \in Users :
        (~LookedUp(e))' /\ <<u, published'[e]>> \in subs' => u \in eligible'[e]
    BY <1>1 DEF EligibleInv
<1>3. pc' \in {"notify", "incr"} => todo' \subseteq eligible'[current']
    BY DEF EligibleInv
<1>4. \A i \in DOMAIN notifs' :
        /\ notifs'[i].event \in Events'
        /\ notifs'[i].event = current' => notifs'[i].user \in eligible'[current']
    BY <1>1 DEF EligibleInv, OnlySubscribersNotified, RowsKept
<1> QED
    BY <1>2, <1>3, <1>4 DEF EligibleInv, OnlySubscribersNotified

LEMMA EligibleStep == TypeOK /\ OrderInv /\ EligibleInv /\ [Next]_vars => EligibleInv'
<1> SUFFICES ASSUME TypeOK, OrderInv, EligibleInv, [Next]_vars
             PROVE  EligibleInv'
    OBVIOUS
<1>0. /\ Len(published) \in Nat
      /\ delivered \in Nat /\ taken \in Nat /\ current \in Nat
      /\ delivered <= Len(published) /\ taken <= delivered /\ current <= taken
      /\ Handling => current \in Events
    <2>1. Len(published) \in Nat
        BY LenProperties DEF TypeOK
    <2> QED
        BY <2>1 DEF TypeOK, Handling, Events
<1>1. ASSUME NEW c \in Components, PublishPriceChanged(c)
      PROVE  EligibleInv'
    <2>1. /\ Len(published') = Len(published) + 1
          /\ \A e \in Events : published'[e] = published[e]
          /\ published'[Len(published) + 1] = c
        BY <1>1, <1>0 DEF PublishPriceChanged, TypeOK, Events
    <2>2. Events' = Events \cup {Len(published) + 1}
        BY <2>1, <1>0 DEF Events
    <2>3. /\ \A e \in Events : eligible'[e] = eligible[e]
          /\ eligible'[Len(published) + 1] = {u \in Users : <<u, c>> \in subs}
        BY <1>1, <2>2, <1>0 DEF PublishPriceChanged, Events
    <2>4. UNCHANGED <<subs, taken, pc, current, todo, notifs>>
        BY <1>1 DEF PublishPriceChanged, consumerVars
    <2>5. \A e : LookedUp(e)' <=> LookedUp(e)
        BY <2>4 DEF LookedUp
    <2>6. \A e \in Events', u \in Users :
            (~LookedUp(e))' /\ <<u, published'[e]>> \in subs'
                => u \in eligible'[e]
        BY <2>1, <2>2, <2>3, <2>4, <2>5 DEF EligibleInv
    <2>7. pc' \in {"notify", "incr"} => todo' \subseteq eligible'[current']
        BY <2>3, <2>4, <1>0 DEF EligibleInv, Handling
    <2>8. \A i \in DOMAIN notifs' :
            /\ notifs'[i].event \in Events'
            /\ notifs'[i].event = current'
                  => notifs'[i].user \in eligible'[current']
        BY <2>2, <2>3, <2>4 DEF EligibleInv, OnlySubscribersNotified
    <2> QED
        BY <2>6, <2>7, <2>8 DEF EligibleInv, OnlySubscribersNotified
<1>2. CASE TakeMessage
    <2>1. /\ taken' = taken + 1 /\ current' = taken + 1 /\ pc' = "lookup"
          /\ eligible' = [e \in Events |-> IF e > taken THEN eligible[e] ELSE {}]
          /\ UNCHANGED <<published, subs, notifs>>
        BY <1>2 DEF TakeMessage
    <2>2. Events' = Events /\ Events \subseteq Nat
        BY <2>1 DEF Events
    <2>3. \A e \in Events : (~LookedUp(e))' => e > taken /\ ~LookedUp(e)
        BY <2>1, <2>2, <1>0 DEF LookedUp
    <2>4. \A e \in Events', u \in Users :
            (~LookedUp(e))' /\ <<u, published'[e]>> \in subs'
                => u \in eligible'[e]
        BY <2>1, <2>2, <2>3 DEF EligibleInv
    <2>5. \A i \in DOMAIN notifs' :
            notifs'[i].event \in Events' /\ notifs'[i].event # current'
        BY <2>1, <2>2, <1>0 DEF EligibleInv, OrderInv
    <2> QED
        BY <2>1, <2>4, <2>5 DEF EligibleInv, OnlySubscribersNotified
<1>3. CASE LookUpSubscribers
    <2>1. /\ pc = "lookup" /\ pc' \in {"notify", "idle"}
          /\ pc' = "notify" => todo' = GetSubscribers(published[current])
          /\ UNCHANGED <<published, taken, subs, current, notifs, eligible>>
        BY <1>3 DEF LookUpSubscribers, LookupError, brokerVars
    <2>2. current \in Events /\ ~LookedUp(current)
        BY <2>1, <1>0 DEF Handling, LookedUp
    <2>3. GetSubscribers(published[current]) \subseteq eligible[current]
        BY <2>2 DEF GetSubscribers, EligibleInv
    <2>4. Events' = Events
        BY <2>1 DEF Events
    <2>5. \A e \in Events : (~LookedUp(e))' => ~LookedUp(e)
        BY <2>1 DEF LookedUp
    <2> QED
        BY <2>1, <2>3, <2>4, <2>5 DEF EligibleInv, OnlySubscribersNotified
<1>4. ASSUME NEW u \in Users, RowInserted(u)
      PROVE  EligibleInv'
    <2>1. /\ DOMAIN notifs = 1 .. Len(notifs)
          /\ Len(notifs) \in Nat
          /\ DOMAIN notifs' = 1 .. (Len(notifs) + 1)
          /\ \A i \in DOMAIN notifs : notifs'[i] = notifs[i]
          /\ notifs'[Len(notifs) + 1].user = u
          /\ notifs'[Len(notifs) + 1].event = current
        BY <1>4, <1>0, RowAppended DEF RowInserted, TypeOK
    <2>2. /\ pc = "notify" /\ pc' = "incr" /\ u \in todo /\ todo' \subseteq todo
          /\ UNCHANGED <<published, taken, subs, current, eligible>>
        BY <1>4 DEF RowInserted, brokerVars, history
    <2>3. Events' = Events /\ current \in Events /\ u \in eligible[current]
        BY <2>2, <1>0 DEF Events, Handling, EligibleInv
    <2>4. \A e \in Events : (~LookedUp(e))' => ~LookedUp(e)
        BY <2>2 DEF LookedUp
    <2>5. \A i \in DOMAIN notifs' :
            /\ notifs'[i].event \in Events'
            /\ notifs'[i].event = current'
                  => notifs'[i].user \in eligible'[current']
        BY <2>1, <2>2, <2>3 DEF EligibleInv, OnlySubscribersNotified
    <2>6. \A e \in Events', v \in Users :
            (~LookedUp(e))' /\ <<v, published'[e]>> \in subs'
                => v \in eligible'[e]
        BY <2>2, <2>3, <2>4 DEF EligibleInv
    <2> QED
        BY <2>2, <2>5, <2>6 DEF EligibleInv, OnlySubscribersNotified
<1>5. ASSUME NEW u \in Users, NEW c \in Components, Subscribe(u, c)
      PROVE  EligibleInv'
    <2>1. /\ subs' = subs \cup {<<u, c>>}
          /\ eligible' = [e \in Events |-> IF published[e] = c /\ ~LookedUp(e)
                                           THEN eligible[e] \cup {u}
                                           ELSE eligible[e]]
          /\ UNCHANGED <<published, taken, pc, current, todo, notifs>>
        BY <1>5 DEF Subscribe, brokerVars, consumerVars
    <2>2. Events' = Events
        BY <2>1 DEF Events
    <2>3. \A e : LookedUp(e)' <=> LookedUp(e)
        BY <2>1 DEF LookedUp
    <2>4. \A e \in Events : eligible[e] \subseteq eligible'[e]
        BY <2>1
    <2>5. \A e \in Events', v \in Users :
            (~LookedUp(e))' /\ <<v, published'[e]>> \in subs'
                => v \in eligible'[e]
        <3> SUFFICES ASSUME NEW e \in Events, NEW v \in Users,
                            ~LookedUp(e), <<v, published[e]>> \in subs'
                     PROVE  v \in eligible'[e]
            BY <2>1, <2>2, <2>3
        <3>1. CASE <<v, published[e]>> \in subs
            BY <3>1, <2>4 DEF EligibleInv
        <3>2. CASE v = u /\ published[e] = c
            BY <3>2, <2>1
        <3> QED
            BY <3>1, <3>2, <2>1
    <2>6. pc' \in {"notify", "incr"} => todo' \subseteq eligible'[current']
        BY <2>1, <2>4, <1>0 DEF EligibleInv, Handling
    <2>7. \A i \in DOMAIN notifs' :
            /\ notifs'[i].event \in Events'
            /\ notifs'[i].event = current'
                  => notifs'[i].user \in eligible'[current']
        BY <2>1, <2>2, <2>4 DEF EligibleInv, OnlySubscribersNotified
    <2> QED
        BY <2>5, <2>6, <2>7 DEF EligibleInv, OnlySubscribersNotified
<1>6. CASE \/ UNCHANGED vars \/ Deliver \/ ConnectionLost \/ Crash \/ Restart
           \/ LeaveLoop \/ FinishMessage
           \/ \E u \in Users : IncrementUnread(u)
           \/ RowsKept /\ \E u \in Users : CreateNotification(u)
           \/ \E u \in Users, c \in Components : Unsubscribe(u, c)
           \/ \E u \in Users, n \in DOMAIN notifs : MarkAsRead(u, n)
           \/ \E u \in Users : ResetUnread(u)
           \/ \E u \in Users : DeleteUser(u)
    <2>1. /\ UNCHANGED <<published, eligible, current>>
          /\ subs' \subseteq subs
          /\ pc' \in {"notify", "incr"}
                => pc \in {"notify", "incr"} /\ todo' \subseteq todo
          /\ taken' \in Nat /\ taken <= taken'
          /\ pc' = "lookup" => pc = "lookup"
        BY <1>0, <1>6
        DEF vars, Deliver, ConnectionLost, Crash, GoneWithTheProcess, Restart,
            LeaveLoop, FinishMessage, IncrementUnread, IncrError,
            CreateNotification, InsertError, Unsubscribe, MarkAsRead,
            ResetUnread, DeleteUser, brokerVars, consumerVars, history
    <2>2. \A e \in Events : LookedUp(e) => LookedUp(e)'
        BY <2>1, <1>0 DEF LookedUp, Events
    <2>3. RowsKept
        BY <1>6, MarkedRowsKept
        DEF vars, Deliver, ConnectionLost, Crash, Restart, LeaveLoop,
            FinishMessage, IncrementUnread, Unsubscribe, MarkAsRead,
            ResetUnread, DeleteUser, RowsKept, TypeOK
    <2> QED
        BY <2>1, <2>2, <2>3, EligibleKept
<1> QED
    BY <1>1, <1>2, <1>3, <1>4, <1>5, <1>6, RowsKeptOrInserted
    DEF Next, ConsumerStep, Request

(***************************************************************************)
(* Nobody is notified of a price change they were not subscribed to        *)
(* between its publication and the lookup of its subscribers               *)
(* (HandlePriceChange against Subscribe and Unsubscribe).                  *)
(***************************************************************************)
THEOREM SubscribersOnly == Spec => []OnlySubscribersNotified
<1>1. Init => TypeOK /\ OrderInv /\ EligibleInv
    BY TypeInit, OrderInit, EligibleInit
<1>2. TypeOK /\ OrderInv /\ EligibleInv /\ [Next]_vars
        => (TypeOK /\ OrderInv /\ EligibleInv)'
    BY TypeStep, OrderStep, EligibleStep
<1>3. EligibleInv => OnlySubscribersNotified
    BY DEF EligibleInv
<1> QED
    BY <1>1, <1>2, <1>3, PTL DEF Spec

-----------------------------------------------------------------------------
LEMMA CountInit == Init => CountInv
<1> SUFFICES ASSUME Init
             PROVE  CountInv
    OBVIOUS
<1>1. \A u \in Users : NotificationsOf(u) = {}
    BY DEF Init, NotificationsOf
<1>2. \A u \in Users : Cardinality(NotificationsOf(u)) = 0
    BY <1>1, FS_EmptySet
<1> QED
    BY <1>2 DEF Init, CountInv, CounterCovered, Pending

LEMMA RowsOfUserFinite ==
    ASSUME TypeOK, NEW u
    PROVE  /\ IsFiniteSet(NotificationsOf(u))
           /\ Cardinality(NotificationsOf(u)) \in Nat
<1>1. Len(notifs) \in Nat /\ DOMAIN notifs = 1 .. Len(notifs)
    BY LenProperties DEF TypeOK
<1>2. IsFiniteSet(1 .. Len(notifs))
    BY <1>1, FS_Interval
<1>3. NotificationsOf(u) \in SUBSET (1 .. Len(notifs))
    BY <1>1 DEF NotificationsOf
<1> QED
    BY <1>2, <1>3, FS_Subset, FS_CardinalityType

LEMMA CountStep == TypeOK /\ CountInv /\ [Next]_vars => CountInv'
<1> SUFFICES ASSUME TypeOK, CountInv, [Next]_vars
             PROVE  CountInv'
    OBVIOUS
<1>1. ASSUME NEW u \in Users, RowInserted(u)
      PROVE  CountInv'
    <2>1. /\ DOMAIN notifs = 1 .. Len(notifs)
          /\ Len(notifs) \in Nat
          /\ DOMAIN notifs' = 1 .. (Len(notifs) + 1)
          /\ \A i \in DOMAIN notifs : notifs'[i] = notifs[i]
          /\ notifs'[Len(notifs) + 1].user = u
        BY <1>1, RowAppended DEF RowInserted, TypeOK
    <2>2. /\ pc' = "incr" /\ uncounted = {} /\ uncounted' = {u}
          /\ unread' = unread
        BY <1>1 DEF RowInserted, CountInv
    <2>3. ASSUME NEW v \in Users, v # u
          PROVE  NotificationsOf(v)' = NotificationsOf(v)
        BY <2>1, <2>3 DEF NotificationsOf
    <2>4. NotificationsOf(u)' = NotificationsOf(u) \cup {Len(notifs) + 1}
        BY <2>1 DEF NotificationsOf
    <2>5. Len(notifs) + 1 \notin NotificationsOf(u)
        BY <2>1 DEF NotificationsOf
    <2>6. Cardinality(NotificationsOf(u)') = Cardinality(NotificationsOf(u)) + 1
        BY <2>4, <2>5, RowsOfUserFinite, FS_AddElement
    <2>7. \A v \in Users : unread[v] \in Nat /\ Cardinality(NotificationsOf(v)) \in Nat
        BY RowsOfUserFinite DEF TypeOK
    <2>8. \A v \in Users :
            unread'[v] + Pending(v)' <= Cardinality(NotificationsOf(v)')
        <3> SUFFICES ASSUME NEW v \in Users
                     PROVE  unread'[v] + Pending(v)'
                                <= Cardinality(NotificationsOf(v)')
            OBVIOUS
        <3>1. unread[v] <= Cardinality(NotificationsOf(v))
            BY <2>2, <2>7 DEF CountInv, CounterCovered, Pending
        <3> QED
            BY <2>2, <2>3, <2>6, <2>7, <3>1 DEF Pending
    <2> QED
        BY <2>2, <2>8 DEF CountInv, CounterCovered
<1>2. ASSUME pc' # "incr" => uncounted' = {},
             \A u \in Users : unread'[u] + Pending(u)' <= unread[u] + Pending(u),
             RowsKept, TypeOK'
      PROVE  CountInv'
    <2>1. \A u \in Users : NotificationsOf(u)' = NotificationsOf(u)
        BY <1>2 DEF RowsKept, NotificationsOf
    <2>2. \A u \in Users :
            /\ unread[u] \in Nat /\ unread'[u] \in Nat
            /\ Cardinality(NotificationsOf(u)) \in Nat
        BY <1>2, RowsOfUserFinite DEF TypeOK
    <2>3. \A u \in Users :
            unread'[u] + Pending(u)' <= Cardinality(NotificationsOf(u)')
        <3> SUFFICES ASSUME NEW u \in Users
                     PROVE  unread'[u] + Pending(u)'
                                <= Cardinality(NotificationsOf(u)')
            OBVIOUS
        <3>1. unread[u] + Pending(u) <= Cardinality(NotificationsOf(u))
            BY DEF CountInv, CounterCovered
        <3> QED
            BY <1>2, <2>1, <2>2, <3>1 DEF Pending
    <2> QED
        BY <1>2, <2>3 DEF CountInv, CounterCovered
<1>3. TypeOK'
    BY TypeStep
<1>4. CASE RowsKept
    <2>1. ASSUME NEW u \in Users, IncrementUnread(u)
          PROVE  CountInv'
        <3>1. /\ uncounted' = {} /\ u \in uncounted
              /\ unread' = [unread EXCEPT ![u] = @ + 1] \/ unread' = unread
            BY <2>1 DEF IncrementUnread, IncrError
        <3>2. \A v \in Users :
                unread'[v] + Pending(v)' <= unread[v] + Pending(v)
            <4> SUFFICES ASSUME NEW v \in Users
                         PROVE  unread'[v] + Pending(v)'
                                    <= unread[v] + Pending(v)
                OBVIOUS
            <4>1. /\ unread[v] \in Nat
                  /\ Pending(v)' = 0
                  /\ Pending(v) \in {0, 1}
                  /\ v = u => Pending(v) = 1
                BY <3>1 DEF TypeOK, Pending
            <4>2. unread'[v] = unread[v] \/ (v = u /\ unread'[v] = unread[v] + 1)
                BY <3>1 DEF TypeOK
            <4> QED
                BY <4>1, <4>2
        <3> QED
            BY <1>2, <1>3, <1>4, <3>1, <3>2
    <2>2. ASSUME NEW u \in Users, ResetUnread(u)
          PROVE  CountInv'
        <3>1. /\ UNCHANGED <<uncounted, pc>>
              /\ unread' = [unread EXCEPT ![u] = 0] \/ unread' = unread
            BY <2>2 DEF ResetUnread, CounterAfterReset, consumerVars
        <3>2. \A v \in Users :
                unread'[v] + Pending(v)' <= unread[v] + Pending(v)
            BY <3>1 DEF TypeOK, Pending
        <3> QED
            BY <1>2, <1>3, <1>4, <3>1, <3>2 DEF CountInv
    <2>3. CASE /\ uncounted' \subseteq uncounted
               /\ unread' = unread
               /\ pc' # "incr" => uncounted' = {}
        <3>1. \A v \in Users :
                unread'[v] + Pending(v)' <= unread[v] + Pending(v)
            BY <2>3 DEF TypeOK, Pending
        <3> QED
            BY <1>2, <1>3, <1>4, <2>3, <3>1
    <2>4. CASE ConsumerStep
        <3>1. CASE \/ TakeMessage \/ LeaveLoop \/ LookUpSubscribers
                   \/ FinishMessage
            BY <2>3, <3>1
            DEF TakeMessage, LeaveLoop, LookUpSubscribers, LookupError,
                FinishMessage, CountInv
        <3>2. ASSUME NEW u \in Users, CreateNotification(u)
              PROVE  CountInv'
            <4>1. notifs' # notifs => \E v \in Users : RowInserted(v)
                BY <3>2
                DEF CreateNotification, InsertError, RowInserted, history
            <4>2. CASE notifs' = notifs /\ UNCHANGED <<uncounted, pc>>
                BY <2>3, <3>2, <4>2 DEF CreateNotification, CountInv
            <4> QED
                BY <1>1, <3>2, <4>2
                DEF CreateNotification, InsertError, RowInserted, history
        <3> QED
            BY <2>1, <2>4, <3>1, <3>2 DEF ConsumerStep
    <2>5. CASE Request
        <3>1. CASE \E u \in Users : ResetUnread(u)
            BY <2>2, <3>1
        <3>2. CASE \/ \E u \in Users, c \in Components :
                         Subscribe(u, c) \/ Unsubscribe(u, c)
                   \/ \E u \in Users, n \in DOMAIN notifs : MarkAsRead(u, n)
                   \/ \E u \in Users : DeleteUser(u)
            BY <2>3, <3>2
            DEF Subscribe, Unsubscribe, MarkAsRead, DeleteUser, consumerVars,
                CountInv
        <3> QED
            BY <2>5, <3>1, <3>2 DEF Request
    <2>6. CASE \/ UNCHANGED vars
               \/ \E c \in Components : PublishPriceChanged(c)
               \/ Deliver \/ ConnectionLost \/ Crash \/ Restart
        <3>1. CASE Restart
            BY <2>3, <3>1 DEF Restart, CountInv
        <3>2. CASE Crash
            BY <2>3, <3>2 DEF Crash
        <3>3. CASE \/ UNCHANGED vars
                   \/ \E c \in Components : PublishPriceChanged(c)
                   \/ Deliver \/ ConnectionLost
            BY <2>3, <3>3
            DEF vars, PublishPriceChanged, Deliver, ConnectionLost,
                consumerVars, CountInv
        <3> QED
            BY <2>6, <3>1, <3>2, <3>3
    <2> QED
        BY <2>4, <2>5, <2>6 DEF Next
<1> QED
    BY <1>1, <1>4, RowsKeptOrInserted

(***************************************************************************)
(* The counter of unread notifications never runs ahead of the table       *)
(* (CreateNotification, IncrementUnread and ResetUnread, with Redis and    *)
(* database errors and crashes between any two of them).                   *)
(***************************************************************************)
THEOREM CounterNeverAhead == Spec => []CounterCovered
<1>1. Init => TypeOK /\ CountInv
    BY TypeInit, CountInit
<1>2. TypeOK /\ CountInv /\ [Next]_vars => (TypeOK /\ CountInv)'
    BY TypeStep, CountStep
<1>3. CountInv => CounterCovered
    BY DEF CountInv
<1> QED
    BY <1>1, <1>2, <1>3, PTL DEF Spec

-----------------------------------------------------------------------------
(***************************************************************************)
(* Users do not touch what others have not read: MarkAsRead changes only   *)
(* rows of the user who asks, and only the DEL that ends such a request    *)
(* lowers a counter.                                                       *)
(***************************************************************************)
LEMMA OwnRequestsStep ==
    ASSUME TypeOK, [Next]_vars, NEW u \in Users
    PROVE  /\ (\E i \in NotificationsOf(u) :
                  ~notifs[i].isRead /\ notifs'[i].isRead)
                 => marking'[u] = marking[u] + 1
           /\ unread'[u] < unread[u] => marking'[u] = marking[u] - 1
<1> DEFINE Read == \E i \in NotificationsOf(u) :
                       ~notifs[i].isRead /\ notifs'[i].isRead
           Goal == /\ Read => marking'[u] = marking[u] + 1
                   /\ unread'[u] < unread[u] => marking'[u] = marking[u] - 1
<1>1. unread[u] \in Nat /\ notifs \in Seq(Notification)
    BY DEF TypeOK
<1>2. CASE notifs' = notifs /\ unread'[u] >= unread[u] /\ unread'[u] \in Nat
    BY <1>1, <1>2
<1>3. ASSUME NEW v \in Users, CreateNotification(v)
      PROVE  Goal
    <2>1. unread' = unread /\ \A i \in DOMAIN notifs : notifs'[i] = notifs[i]
        <3>1. current \in Nat
            BY LenProperties DEF TypeOK
        <3> QED
            BY <1>1, <1>3, <3>1, RowAppended DEF CreateNotification, InsertError
    <2> QED
        BY <1>1, <2>1 DEF NotificationsOf
<1>4. ASSUME NEW v \in Users, NEW n \in DOMAIN notifs, MarkAsRead(v, n)
      PROVE  Goal
    <2>1. unread' = unread /\ notifs' = RowsMarkedRead(v, n)
        BY <1>4 DEF MarkAsRead
    <2>2. CASE u = v
        BY <1>1, <1>4, <2>1, <2>2 DEF MarkAsRead, TypeOK
    <2>3. CASE u # v
        <3>1. \A i \in NotificationsOf(u) : notifs'[i] = notifs[i]
            BY <2>1, <2>3 DEF NotificationsOf, RowsMarkedRead
        <3> QED
            BY <1>1, <2>1, <3>1
    <2> QED
        BY <2>2, <2>3
<1>5. ASSUME NEW v \in Users, ResetUnread(v)
      PROVE  Goal
    <2>1. notifs' = notifs
        BY <1>5 DEF ResetUnread
    <2>2. CASE u = v
        BY <1>5, <2>1, <2>2 DEF ResetUnread, TypeOK
    <2>3. CASE u # v
        BY <1>1, <1>5, <2>1, <2>3 DEF ResetUnread, TypeOK
    <2> QED
        BY <2>2, <2>3
<1>6. ASSUME NEW v \in Users, IncrementUnread(v)
      PROVE  Goal
    <2>1. notifs' = notifs /\ unread'[u] \in {unread[u], unread[u] + 1}
        BY <1>6 DEF IncrementUnread, IncrError, TypeOK
    <2> QED
        BY <1>1, <1>2, <2>1
<1>7. CASE ConsumerStep
    <2>1. CASE TakeMessage \/ LeaveLoop \/ LookUpSubscribers \/ FinishMessage
        BY <1>1, <1>2, <2>1
        DEF TakeMessage, LeaveLoop, LookUpSubscribers, FinishMessage
    <2> QED
        BY <1>3, <1>6, <1>7, <2>1 DEF ConsumerStep
<1>8. CASE Request
    <2>1. ASSUME NEW v \in Users,
                 \/ \E c \in Components : Subscribe(v, c) \/ Unsubscribe(v, c)
                 \/ DeleteUser(v)
          PROVE  Goal
        BY <1>1, <1>2, <2>1 DEF Subscribe, Unsubscribe, DeleteUser
    <2> QED
        BY <1>4, <1>5, <1>8, <2>1 DEF Request
<1>9. CASE \/ UNCHANGED vars
           \/ \E c \in Components : PublishPriceChanged(c)
           \/ Deliver \/ ConnectionLost \/ Crash \/ Restart
    BY <1>1, <1>2, <1>9
    DEF vars, PublishPriceChanged, Deliver, ConnectionLost, Crash, Restart
<1> QED
    BY <1>7, <1>8, <1>9 DEF Next

\* A notification becomes read, and a counter goes down, only by a request of
\* the user they belong to (MarkAsRead and ResetUnread).
THEOREM OnlyByOwnRequests == Spec => OwnRequestsOnly
<1> DEFINE Step == \A u \in Users :
          /\ (\E i \in NotificationsOf(u) :
                 ~notifs[i].isRead /\ notifs'[i].isRead)
                => marking'[u] = marking[u] + 1
          /\ unread'[u] < unread[u] => marking'[u] = marking[u] - 1
<1>1. TypeOK /\ [Next]_vars => [Step]_vars
    BY OwnRequestsStep
<1> HIDE DEF Step
<1> QED
    BY <1>1, TypeInit, TypeStep, PTL DEF Spec, OwnRequestsOnly, Step

-----------------------------------------------------------------------------
(***************************************************************************)
(* The mailboxes.  Between two events nobody is left to be sent one, and   *)
(* as long as nothing that loses events may fail, the event at hand is the *)
(* last one that left the client's buffer.                                 *)
(***************************************************************************)
MayLose == Faults \cap {"db", "connection", "crash"} # {}

SendInv ==
    /\ pc \notin {"notify", "incr"} => todo = {}
    /\ MayLose \/ (taken = current /\ connected /\ pc # "down")

LEMMA SendInit == Init => SendInv
    BY DEF Init, SendInv

LEMMA SendStep == TypeOK /\ SendInv /\ [Next]_vars => SendInv'
<1> SUFFICES ASSUME TypeOK, SendInv, [Next]_vars
             PROVE  SendInv'
    OBVIOUS
<1> USE DEF SendInv, MayLose
<1>1. CASE TakeMessage
    BY <1>1 DEF TakeMessage
<1>2. CASE LookUpSubscribers
    BY <1>2 DEF LookUpSubscribers, LookupError, brokerVars
<1>3. ASSUME NEW u \in Users, CreateNotification(u) \/ IncrementUnread(u)
      PROVE  SendInv'
    BY <1>3
    DEF CreateNotification, InsertError, IncrementUnread, IncrError, brokerVars
<1>4. CASE LeaveLoop \/ FinishMessage
    BY <1>4 DEF LeaveLoop, FinishMessage, brokerVars
<1>5. CASE ConnectionLost
    BY <1>5 DEF ConnectionLost, consumerVars
<1>6. CASE Crash
    BY <1>6 DEF Crash
<1>7. CASE Restart
    BY <1>7 DEF Restart
<1>8. CASE \/ UNCHANGED vars
           \/ \E c \in Components : PublishPriceChanged(c)
           \/ Deliver
           \/ Request
    BY <1>8
    DEF vars, PublishPriceChanged, Deliver, Request, Subscribe, Unsubscribe,
        MarkAsRead, ResetUnread, DeleteUser, brokerVars, consumerVars
<1> QED
    BY <1>1, <1>2, <1>3, <1>4, <1>5, <1>6, <1>7, <1>8 DEF Next, ConsumerStep

(***************************************************************************)
(* What a mailbox sees of the table.                                       *)
(***************************************************************************)
At     == IF pc = "lookup" THEN current - 1 ELSE current
Box    == Pairs(DOMAIN notifs)
Opened == Pairs({i \in DOMAIN notifs : notifs[i].isRead})

LEMMA BoxAppended ==
    ASSUME TypeOK, OrderInv, NEW u \in Users, RowInserted(u)
    PROVE  /\ Box' = Box \cup {<<u, current>>}
           /\ <<u, current>> \notin Box
           /\ Opened' = Opened
<1>1. /\ DOMAIN notifs = 1 .. Len(notifs)
      /\ Len(notifs) \in Nat
      /\ DOMAIN notifs' = 1 .. (Len(notifs) + 1)
      /\ \A i \in DOMAIN notifs : notifs'[i] = notifs[i]
      /\ notifs'[Len(notifs) + 1] = NotificationRow(u, current)
    BY RowAppended DEF RowInserted, TypeOK
<1> DEFINE n == Len(notifs) + 1
<1>2. /\ notifs'[n].user = u /\ notifs'[n].event = current
      /\ ~notifs'[n].isRead
    BY <1>1 DEF NotificationRow
<1>3. DOMAIN notifs' = DOMAIN notifs \cup {n}
    BY <1>1
<1>4. Box' = Box \cup {<<u, current>>}
    BY <1>1, <1>2, <1>3 DEF Box, Pairs
<1>5. {i \in DOMAIN notifs' : notifs'[i].isRead} = {i \in DOMAIN notifs : notifs[i].isRead}
    BY <1>1, <1>2, <1>3
<1>6. Opened' = Opened
    BY <1>1, <1>5 DEF Opened, Pairs
<1>7. <<u, current>> \notin Box
    BY DEF Box, Pairs, OrderInv, RowInserted
<1> QED
    BY <1>4, <1>6, <1>7

LEMMA BoxOpened ==
    ASSUME TypeOK, NEW u \in Users, NEW n \in DOMAIN notifs, MarkAsRead(u, n)
    PROVE  /\ Box' = Box
           /\ \/ Opened' = Opened
              \/ <<u, notifs[n].event>> \in Box /\ Opened' = Opened \cup {<<u, notifs[n].event>>}
<1>1. /\ DOMAIN notifs' = DOMAIN notifs
      /\ \A i \in DOMAIN notifs :
            notifs'[i].user = notifs[i].user /\ notifs'[i].event = notifs[i].event
    BY MarkedRowsKept DEF MarkAsRead, TypeOK
<1>2. Box' = Box
    BY <1>1 DEF Box, Pairs
<1>3. \A i \in DOMAIN notifs :
        notifs'[i].isRead <=> notifs[i].isRead \/ (i = n /\ notifs[n].user = u)
    <2> TAKE i \in DOMAIN notifs
    <2>1. notifs[i] \in Notification
        BY LenProperties, ElementOfSeq DEF TypeOK
    <2>2. notifs'[i] = IF i = n /\ notifs[i].user = u
                       THEN [notifs[i] EXCEPT !.isRead = TRUE] ELSE notifs[i]
        BY DEF MarkAsRead, RowsMarkedRead
    <2> QED
        BY <2>1, <2>2 DEF Notification
<1>4. CASE notifs[n].user = u
    <2>1. {i \in DOMAIN notifs' : notifs'[i].isRead}
              = {i \in DOMAIN notifs : notifs[i].isRead} \cup {n}
        BY <1>1, <1>3, <1>4
    <2>2. Opened' = Opened \cup {<<u, notifs[n].event>>}
        BY <1>1, <1>4, <2>1 DEF Opened, Pairs
    <2> QED
        BY <1>2, <1>4, <2>2 DEF Box, Pairs
<1>5. CASE notifs[n].user # u
    <2>1. {i \in DOMAIN notifs' : notifs'[i].isRead}
              = {i \in DOMAIN notifs : notifs[i].isRead}
        BY <1>1, <1>3, <1>5
    <2>2. Opened' = Opened
        BY <1>1, <2>1 DEF Opened, Pairs
    <2> QED
        BY <1>2, <2>2
<1> QED
    BY <1>4, <1>5

(***************************************************************************)
(* Every step is one of the mailboxes, or changes nothing they see.        *)
(***************************************************************************)
LEMMA StepDelivers ==
    ASSUME TypeOK, OrderInv, SendInv, [Next]_vars
    PROVE  [Boxes!Next]_(Boxes!vars)
<1> DEFINE BoxVars == <<accounts, subs, published, At, todo, Box, Opened>>
<1>0. /\ current \in Nat /\ taken \in Nat /\ delivered \in Nat
      /\ Len(published) \in Nat
      /\ current <= taken /\ taken <= delivered /\ delivered <= Len(published)
      /\ pc = "lookup" => current > 0
    BY LenProperties DEF TypeOK
<1>1. SUFFICES \/ UNCHANGED BoxVars
               \/ Boxes!Next
    BY DEF Boxes!vars, At, Box, Opened
<1>2. notifs' = notifs => Box' = Box /\ Opened' = Opened
    BY DEF Box, Opened, Pairs
<1>3. ASSUME MayLose, notifs' = notifs,
             UNCHANGED <<accounts, subs, published>>,
             At' \in At .. Len(published), todo' \subseteq todo,
             At' # At => todo' = {}
      PROVE  Boxes!Next
    <2>1. Box' = Box /\ Opened' = Opened
        BY <1>2, <1>3
    <2>2. Boxes!Lose
        BY <1>3, <2>1 DEF Boxes!Lose, MayLose, At, Box, Opened
    <2> QED
        BY <2>2 DEF Boxes!Next
<1>4. CASE TakeMessage
    <2>1. /\ pc = "idle" /\ pc' = "lookup" /\ current' = taken + 1
          /\ taken + 1 <= Len(published) /\ notifs' = notifs /\ todo' = todo
          /\ UNCHANGED <<accounts, subs, published>>
        BY <1>0, <1>4 DEF TakeMessage
    <2>2. At = current /\ At' = taken /\ todo = {}
        BY <1>0, <2>1 DEF At, SendInv
    <2>3. CASE MayLose
        BY <1>0, <1>3, <2>1, <2>2, <2>3
    <2>4. CASE ~MayLose
        BY <1>2, <2>1, <2>2, <2>4 DEF SendInv
    <2> QED
        BY <2>3, <2>4
<1>5. CASE LookUpSubscribers
    <2>1. /\ pc = "lookup" /\ notifs' = notifs /\ current' = current
          /\ UNCHANGED <<accounts, subs, published>>
        BY <1>5 DEF LookUpSubscribers, brokerVars
    <2>2. todo = {} /\ At = current - 1
        BY <2>1 DEF SendInv, At
    <2>3. CASE pc' = "notify" /\ todo' = GetSubscribers(published[current])
        <3>1. At' = current /\ At + 1 = current /\ At < Len(published)
            BY <1>0, <2>1, <2>2, <2>3 DEF At
        <3>2. todo' = {u \in Users : <<u, published[At + 1]>> \in subs}
            BY <2>3, <3>1 DEF GetSubscribers
        <3>3. Boxes!Take
            BY <1>2, <2>1, <2>2, <3>1, <3>2 DEF Boxes!Take, At, Box, Opened
        <3> QED
            BY <3>3 DEF Boxes!Next
    <2>4. CASE "db" \in Faults /\ LookupError
        <3>1. At' = current /\ todo' = {} /\ MayLose
            BY <2>1, <2>4 DEF LookupError, At, MayLose
        <3> QED
            BY <1>0, <1>3, <2>1, <2>2, <3>1
    <2> QED
        BY <1>5, <2>3, <2>4 DEF LookUpSubscribers
<1>6. ASSUME NEW u \in Users, CreateNotification(u)
      PROVE  Boxes!Next
    <2>1. /\ pc = "notify" /\ pc' \in {"notify", "incr"} /\ current' = current
          /\ u \in todo /\ todo' = todo \ {u}
          /\ UNCHANGED <<accounts, subs, published>>
        BY <1>6 DEF CreateNotification, InsertError, brokerVars
    <2>2. At = current /\ At' = current
        BY <2>1 DEF At
    <2>3. CASE RowInserted(u)
        <3>1. /\ Box' = Box \cup {<<u, At>>} /\ <<u, At>> \notin Box
              /\ Opened' = Opened
            BY <2>2, <2>3, BoxAppended
        <3>2. Boxes!Send(u)
            BY <2>1, <2>2, <3>1 DEF Boxes!Send, At, Box, Opened
        <3> QED
            BY <3>2 DEF Boxes!Next
    <2>4. CASE "db" \in Faults /\ InsertError(u)
        <3>1. MayLose /\ notifs' = notifs
            BY <2>4 DEF InsertError, MayLose
        <3> QED
            BY <1>0, <1>3, <2>1, <2>2, <3>1
    <2> QED
        BY <1>6, <2>3, <2>4 DEF CreateNotification, RowInserted, history
<1>7. ASSUME NEW u \in Users, IncrementUnread(u)
      PROVE  UNCHANGED BoxVars
    BY <1>2, <1>7 DEF IncrementUnread, IncrError, brokerVars, At
<1>8. CASE LeaveLoop \/ FinishMessage \/ Restart
    BY <1>2, <1>8 DEF LeaveLoop, FinishMessage, Restart, brokerVars, At
<1>9. CASE Deliver \/ ConnectionLost
    BY <1>2, <1>9 DEF Deliver, ConnectionLost, consumerVars, At
<1>10. CASE Crash
    <2>1. /\ MayLose /\ pc' = "down" /\ todo' = {} /\ notifs' = notifs
          /\ UNCHANGED <<accounts, subs, published, current>>
        BY <1>10 DEF Crash, MayLose
    <2>2. At' = current /\ At' \in At .. Len(published)
        BY <1>0, <2>1 DEF At
    <2> QED
        BY <1>3, <2>1, <2>2
<1>11. ASSUME NEW c \in Components, PublishPriceChanged(c)
       PROVE  Boxes!Next
    <2>1. Boxes!Publish
        BY <1>2, <1>11
        DEF PublishPriceChanged, consumerVars, Boxes!Publish, At, Box, Opened
    <2> QED
        BY <2>1 DEF Boxes!Next
<1>12. ASSUME NEW u \in Users, NEW c \in Components, Subscribe(u, c)
       PROVE  Boxes!Next
    <2>1. Boxes!Subscribe(u)
        BY <1>2, <1>12
        DEF Subscribe, brokerVars, consumerVars, Boxes!Subscribe, At, Box, Opened
    <2> QED
        BY <2>1 DEF Boxes!Next
<1>13. ASSUME NEW u \in Users, NEW c \in Components, Unsubscribe(u, c)
       PROVE  Boxes!Next
    <2>1. Boxes!Unsubscribe(u)
        BY <1>2, <1>13
        DEF Unsubscribe, brokerVars, consumerVars, Boxes!Unsubscribe, At, Box, Opened
    <2> QED
        BY <2>1 DEF Boxes!Next
<1>14. ASSUME NEW u \in Users, NEW n \in DOMAIN notifs, MarkAsRead(u, n)
       PROVE  UNCHANGED BoxVars \/ Boxes!Next
    <2>1. UNCHANGED <<accounts, subs, published, pc, current, todo>>
        BY <1>14 DEF MarkAsRead, brokerVars, consumerVars
    <2>2. At' = At
        BY <2>1 DEF At
    <2>3. Box' = Box
        BY <1>14, BoxOpened
    <2>4. CASE Opened' = Opened
        BY <2>1, <2>2, <2>3, <2>4
    <2>5. CASE /\ <<u, notifs[n].event>> \in Box
               /\ Opened' = Opened \cup {<<u, notifs[n].event>>}
        <3>1. \E mail \in Box : mail[1] = u /\ Opened' = Opened \cup {mail}
            BY <2>5
        <3>2. Boxes!Open(u)
            BY <2>1, <2>2, <2>3, <3>1 DEF Boxes!Open, At, Box, Opened
        <3> QED
            BY <3>2 DEF Boxes!Next
    <2> QED
        BY <1>14, <2>4, <2>5, BoxOpened
<1>15. ASSUME NEW u \in Users, ResetUnread(u)
       PROVE  UNCHANGED BoxVars
    BY <1>2, <1>15 DEF ResetUnread, brokerVars, consumerVars, At
<1>16. ASSUME NEW u \in Users, DeleteUser(u)
       PROVE  Boxes!Next
    <2>1. Boxes!CloseAccount(u)
        BY <1>2, <1>16
        DEF DeleteUser, brokerVars, consumerVars, Boxes!CloseAccount, At, Box, Opened
    <2> QED
        BY <2>1 DEF Boxes!Next
<1>17. CASE UNCHANGED vars
    BY <1>2, <1>17 DEF vars, brokerVars, consumerVars, At
<1> QED
    BY <1>4, <1>5, <1>6, <1>7, <1>8, <1>9, <1>10, <1>11, <1>12, <1>13, <1>14,
       <1>15, <1>16, <1>17
    DEF Next, ConsumerStep, Request

(***************************************************************************)
(* The consumer, the handlers and their tables implement Mailboxes: price  *)
(* changes are sent in order, once, to those subscribed at one moment, and *)
(* lost only to errors of the database, lost connections and crashes.      *)
(***************************************************************************)
THEOREM MailboxesImplemented == Spec => ImplementsMailboxes
<1>1. Init => Boxes!Init
    BY DEF Init, Boxes!Init, Pairs
<1>2. TypeOK /\ OrderInv /\ SendInv /\ [Next]_vars => [Boxes!Next]_(Boxes!vars)
    BY StepDelivers
<1>3. Init => TypeOK /\ OrderInv /\ SendInv
    BY TypeInit, OrderInit, SendInit
<1>4. TypeOK /\ OrderInv /\ SendInv /\ [Next]_vars => (TypeOK /\ OrderInv /\ SendInv)'
    BY TypeStep, OrderStep, SendStep
<1> QED
    BY <1>1, <1>2, <1>3, <1>4, PTL DEF Spec, ImplementsMailboxes, Boxes!Spec
=============================================================================
