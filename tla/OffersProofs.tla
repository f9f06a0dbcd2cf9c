---------------------------- MODULE OffersProofs ----------------------------
(***************************************************************************)
(* Theorems about Offers, for every set of components, shops, prices,      *)
(* uploads and jobs, every choice of faults and every bound.               *)
(***************************************************************************)
EXTENDS Offers, TLAPS, SequenceTheorems

-----------------------------------------------------------------------------
(* Types. *)

LEMMA StoredTwice ==
    ASSUME NEW p \in Nat
    PROVE  /\ Stored(p) \in Nat
           /\ Stored(Stored(p)) = Stored(p)
           /\ Stored(0) = 0
<1> DEFINE q == (p + 5) \div 10
<1>1. q \in Nat /\ Stored(p) = 10 * q
    BY DEF Stored
<1>2. (10 * q + 5) \div 10 = q
    <2> HIDE DEF q
    <2> QED
        BY <1>1
<1>3. Stored(Stored(p)) = 10 * q
    BY <1>1, <1>2 DEF Stored
<1>4. Stored(0) = 0
    BY DEF Stored
<1> QED
    BY <1>1, <1>3, <1>4

LEMMA NoItemType == NoItem \in Item
<1>1. \E k : k \in Keys
    <2>1. PICK c \in Components, s \in Shops : TRUE
        BY OffersAssumption
    <2>2. <<c, s>> \in Keys
        BY <2>1 DEF Keys
    <2> QED
        BY <2>2
<1>2. (CHOOSE k \in Keys : TRUE) \in Keys
    BY <1>1
<1> QED
    BY <1>2 DEF NoItem, Item

LEMMA ActorsKnown ==
    /\ "update" \in Actors
    /\ \A a \in Importers : a \in Actors /\ a # "update"
BY OffersAssumption DEF Actors, Importers

LEMMA OldPriceType ==
    ASSUME TypeOK, NEW k \in Keys
    PROVE  OldPrice(k) \in Nat
<1>1. offers[k] \in Nat \cup {NoOffer}
    BY DEF TypeOK
<1>2. offers[k] # NoOffer => offers[k] \in Nat
    BY <1>1
<1>3. 0 \in Nat
    OBVIOUS
<1> QED
    BY <1>2, <1>3 DEF OldPrice

LEMMA TypeInit == Init => TypeOK
<1> SUFFICES ASSUME Init
             PROVE  TypeOK
    OBVIOUS
<1>1. prices \in Seq([key : Keys, price : Nat]) /\ published \in Seq(Item)
    BY EmptySeq DEF Init
<1> QED
    BY <1>1, NoItemType DEF Init, TypeOK, PcState, Status, NoOffer

(***************************************************************************)
(* What a step that moves goroutine a on, or out of its row, does.         *)
(***************************************************************************)
LEMMA AdvanceType ==
    ASSUME TypeOK, NEW a \in Actors, NEW step \in PcState, Advance(a, step)
    PROVE  /\ pc' \in [Actors -> PcState]
           /\ item' \in [Actors -> Item]
           /\ pc'[a] = step
           /\ step # "rows" => item' = item
           /\ \A b \in Actors \ {a} : pc'[b] = pc[b] /\ item'[b] = item[b]
BY NoItemType DEF TypeOK, Advance, Goto

LEMMA GotoType ==
    ASSUME TypeOK, NEW a \in Actors, NEW step \in PcState, Goto(a, step)
    PROVE  /\ pc' \in [Actors -> PcState]
           /\ pc'[a] = step
           /\ \A b \in Actors \ {a} : pc'[b] = pc[b]
BY DEF TypeOK, Goto

LEMMA EndJobType ==
    ASSUME TypeOK, NEW status \in Status, EndJob(status)
    PROVE  /\ pc' \in [Actors -> PcState]
           /\ jobs' \in [Jobs -> Status]
           /\ orphaned' \subseteq Jobs
           /\ task' = {}
BY GotoType, ActorsKnown DEF TypeOK, EndJob, PcState

LEMMA ReadType ==
    ASSUME TypeOK, NEW a \in Actors, NEW k \in Keys, NEW p \in Prices,
           GetOfferPrice(a, k, p), pages' \subseteq Keys
    PROVE  TypeOK'
<1>1. pc' \in [Actors -> PcState]
    BY GotoType DEF GetOfferPrice, PcState
<1>2. item' \in [Actors -> Item]
    <2>1. PICK old \in {OldPrice(k)} \cup (IF "db" \in Faults THEN {0} ELSE {}) :
            item' = [item EXCEPT ![a] = [key |-> k, price |-> p, old |-> old]]
        BY DEF GetOfferPrice
    <2>2. old \in Nat /\ p \in Nat
        BY <2>1, OldPriceType, OffersAssumption
    <2>3. [key |-> k, price |-> p, old |-> old] \in Item
        BY <2>2 DEF Item
    <2> QED
        BY <2>1, <2>3 DEF TypeOK
<1>3. /\ readRows' \in Nat
      /\ unannounced' \subseteq Keys
      /\ unrecorded' \subseteq Keys
    BY DEF GetOfferPrice, TypeOK, SpoiltIf
<1> QED
    BY <1>1, <1>2, <1>3 DEF GetOfferPrice, TypeOK, tables

LEMMA RowStepType ==
    ASSUME TypeOK, NEW a \in Actors, RowStep(a)
    PROVE  TypeOK'
<1>1. item[a] \in Item /\ item[a].key \in Keys /\ item[a].price \in Nat
    BY DEF TypeOK, Item
<1>2. Stored(item[a].price) \in Nat
    BY <1>1, StoredTwice
<1>3. CASE Upsert(a)
    <2>1. pc' \in [Actors -> PcState]
        BY <1>3, GotoType DEF Upsert, PcState
    <2>2. offers' \in [Keys -> Nat \cup {NoOffer}]
        BY <1>1, <1>2, <1>3 DEF Upsert, TypeOK
    <2>3. changes' \in [Keys -> Nat]
        BY <1>1, <1>3 DEF Upsert, TypeOK
    <2> QED
        BY <1>3, <2>1, <2>2, <2>3 DEF Upsert, TypeOK
<1>4. CASE UpsertFails(a)
    <2>1. AfterUpsertError(a) \in PcState
        BY DEF AfterUpsertError, PcState
    <2>2. pc' \in [Actors -> PcState] /\ item' \in [Actors -> Item]
        BY <1>4, <2>1, AdvanceType DEF UpsertFails
    <2>3. unannounced' \subseteq Keys /\ unrecorded' \subseteq Keys
        BY <1>1, <1>4 DEF UpsertFails, TypeOK
    <2> QED
        BY <1>4, <2>2, <2>3 DEF UpsertFails, TypeOK, tables
<1>5. CASE InsertPriceHistory(a)
    <2>1. AfterRecord(a) \in PcState
        BY DEF AfterRecord, PcState
    <2>2. pc' \in [Actors -> PcState] /\ item' \in [Actors -> Item]
        BY <1>5, <2>1, AdvanceType DEF InsertPriceHistory
    <2>3. HistoryRow(item[a]) \in [key : Keys, price : Nat]
        BY <1>1, <1>2 DEF HistoryRow
    <2>4. prices' \in Seq([key : Keys, price : Nat])
        <3>1. prices \in Seq([key : Keys, price : Nat])
            BY DEF TypeOK
        <3>2. Append(prices, HistoryRow(item[a])) \in Seq([key : Keys, price : Nat])
            BY <2>3, <3>1, AppendProperties
        <3>3. prices' = Append(prices, HistoryRow(item[a])) \/ prices' = prices
            BY <1>5 DEF InsertPriceHistory
        <3> QED
            BY <3>1, <3>2, <3>3
    <2>5. unrecorded' \subseteq Keys
        BY <1>1, <1>5 DEF InsertPriceHistory, TypeOK
    <2> QED
        BY <1>5, <2>2, <2>4, <2>5 DEF InsertPriceHistory, TypeOK
<1>6. CASE PublishPriceChanged(a)
    <2>1. pc' \in [Actors -> PcState] /\ item' \in [Actors -> Item]
        BY <1>6, AdvanceType DEF PublishPriceChanged, PcState
    <2>2. published' \in Seq(Item)
        <3>1. published \in Seq(Item)
            BY DEF TypeOK
        <3>2. Append(published, item[a]) \in Seq(Item)
            BY <1>1, <3>1, AppendProperties
        <3>3. published' = Append(published, item[a]) \/ published' = published
            BY <1>6 DEF PublishPriceChanged
        <3> QED
            BY <3>1, <3>2, <3>3
    <2>3. unannounced' \subseteq Keys
        BY <1>1, <1>6 DEF PublishPriceChanged, TypeOK
    <2> QED
        BY <1>6, <2>1, <2>2, <2>3 DEF PublishPriceChanged, TypeOK, tables
<1> QED
    BY <1>3, <1>4, <1>5, <1>6 DEF RowStep

LEMMA DeathType ==
    ASSUME TypeOK, ProcessDies
    PROVE  TypeOK'
<1>1. Cut({"record", "publish"}) \subseteq Keys /\ Cut({"record"}) \subseteq Keys
    BY DEF Cut, TypeOK, Item
<1>2. pc' \in [Actors -> PcState] /\ item' \in [Actors -> Item]
    BY NoItemType DEF ProcessDies, PcState
<1> QED
    BY <1>1, <1>2 DEF ProcessDies, TypeOK, tables

LEMMA TypeStep == TypeOK /\ [Next]_vars => TypeOK'
<1> SUFFICES ASSUME TypeOK, [Next]_vars
             PROVE  TypeOK'
    OBVIOUS
<1>1. CASE UNCHANGED vars
    BY <1>1 DEF vars, work, tables, history, TypeOK
<1>2. ASSUME NEW a \in Importers, ImportStep(a)
      PROVE  TypeOK'
    <2>1. a \in Actors /\ "rows" \in PcState /\ "idle" \in PcState
        BY ActorsKnown DEF PcState
    <2>2. CASE StartImport(a) \/ FinishImport(a)
        <3>1. pc' \in [Actors -> PcState]
            BY <2>1, <2>2, GotoType DEF StartImport, FinishImport
        <3> QED
            BY <2>2, <3>1 DEF StartImport, FinishImport, TypeOK, tables, history
    <2>3. ASSUME NEW k \in Keys, NEW p \in Prices, ReadRow(a, k, p)
          PROVE  TypeOK'
        BY <2>1, <2>3, ReadType DEF ReadRow, TypeOK
    <2>4. CASE ShortRow(a)
        <3>1. CASE ProcessDies
            BY <3>1, DeathType
        <3>2. CASE Goto(a, "idle") /\ UNCHANGED <<up, connected, item, pages,
                    task, tables, published, history>>
            BY <2>1, <3>2, GotoType DEF TypeOK, tables, history
        <3> QED
            BY <2>4, <3>1, <3>2 DEF ShortRow
    <2>5. CASE RowStep(a)
        BY <2>1, <2>5, RowStepType
    <2> QED
        BY <1>2, <2>2, <2>3, <2>4, <2>5 DEF ImportStep
<1>3. ASSUME NEW j \in Jobs, StartUpdate(j)
      PROVE  TypeOK'
    <2>1. pc' \in [Actors -> PcState]
        BY <1>3, GotoType, ActorsKnown DEF StartUpdate, PcState
    <2>2. jobs' \in [Jobs -> Status]
        BY <1>3 DEF StartUpdate, TypeOK, Status
    <2> QED
        BY <1>3, <2>1, <2>2 DEF StartUpdate, TypeOK
<1>4. CASE UpdateStep
    <2>1. CASE ListFails \/ FinishUpdate
        <3>1. EndJob("failed") \/ EndJob("done")
            BY <2>1 DEF ListFails, FinishUpdate
        <3>2. /\ pc' \in [Actors -> PcState]
              /\ jobs' \in [Jobs -> Status]
              /\ orphaned' \subseteq Jobs
              /\ task' = {}
            BY <3>1, EndJobType DEF Status
        <3> QED
            BY <2>1, <3>2 DEF ListFails, FinishUpdate, TypeOK
    <2>2. CASE ListShopComponents
        <3>1. pc' \in [Actors -> PcState]
            BY <2>2, GotoType, ActorsKnown DEF ListShopComponents, PcState
        <3>2. pages' \subseteq Keys
            BY <2>2 DEF ListShopComponents, Keys
        <3> QED
            BY <2>2, <3>1, <3>2 DEF ListShopComponents, TypeOK, tables, history
    <2>3. ASSUME NEW k \in Keys, VisitPage(k)
          PROVE  TypeOK'
        <3>1. pages' \subseteq Keys
            BY <2>3 DEF VisitPage, PagesAfter, TypeOK
        <3>2. CASE \E p \in Prices \ {0} : GetOfferPrice("update", k, p)
            BY <3>1, <3>2, ReadType, ActorsKnown
        <3>3. CASE UNCHANGED <<up, connected, pc, item, task, tables,
                               published, history>>
            BY <3>1, <3>3 DEF TypeOK, tables, history
        <3> QED
            BY <2>3, <3>2, <3>3 DEF VisitPage
    <2>4. CASE RowStep("update")
        BY <2>4, RowStepType, ActorsKnown
    <2> QED
        BY <1>4, <2>1, <2>2, <2>3, <2>4 DEF UpdateStep
<1>5. CASE ConnectionLost \/ Restart
    BY <1>5 DEF ConnectionLost, Restart, TypeOK, work, tables, history
<1>6. CASE Crash
    BY <1>6, DeathType DEF Crash
<1> QED
    BY <1>1, <1>2, <1>3, <1>4, <1>5, <1>6 DEF Next

(***************************************************************************)
(* Every reachable state is well typed: no step of the three kinds of      *)
(* goroutines stores a price, an offer or a status the tables cannot hold. *)
(***************************************************************************)
THEOREM TypeCorrect == Spec => []TypeOK
<1> QED
    BY TypeInit, TypeStep, PTL DEF Spec

-----------------------------------------------------------------------------
(* Jobs. *)

JobInv ==
    /\ RunningJobHasWorker
    /\ pc["update"] = "idle" => task = {}

LEMMA JobInit == Init => JobInv
BY DEF Init, JobInv, RunningJobHasWorker

LEMMA JobStep == TypeOK /\ JobInv /\ [Next]_vars => JobInv'
<1> SUFFICES ASSUME TypeOK, JobInv, [Next]_vars
             PROVE  JobInv'
    OBVIOUS
<1>1. CASE /\ UNCHANGED <<jobs, task, orphaned>>
           /\ pc'["update"] = "idle" => pc["update"] = "idle"
    BY <1>1 DEF JobInv, RunningJobHasWorker
<1>2. CASE ProcessDies
    BY <1>2 DEF JobInv, RunningJobHasWorker, ProcessDies, tables
<1>3. ASSUME NEW j \in Jobs, StartUpdate(j)
      PROVE  JobInv'
    <2>1. pc'["update"] = "list"
        BY <1>3, ActorsKnown DEF StartUpdate, Goto, TypeOK
    <2>2. task = {}
        BY <1>3 DEF StartUpdate, JobInv
    <2>3. ASSUME NEW i \in Jobs, jobs'[i] = "running"
          PROVE  i \in task' \cup orphaned'
        <3>1. CASE i = j
            BY <1>3, <3>1 DEF StartUpdate
        <3>2. CASE i # j
            <4>1. jobs[i] = "running"
                BY <1>3, <2>3, <3>2 DEF StartUpdate, TypeOK
            <4> QED
                BY <1>3, <2>2, <3>2, <4>1
                DEF StartUpdate, JobInv, RunningJobHasWorker
        <3> QED
            BY <3>1, <3>2
    <2> QED
        BY <2>1, <2>3 DEF JobInv, RunningJobHasWorker
<1>4. ASSUME NEW status \in {"failed", "done"}, EndJob(status)
      PROVE  JobInv'
    <2>1. task' = {}
        BY <1>4 DEF EndJob
    <2>2. ASSUME NEW i \in Jobs, jobs'[i] = "running"
          PROVE  i \in orphaned'
        BY <1>4, <2>2 DEF EndJob, JobInv, RunningJobHasWorker, TypeOK
    <2> QED
        BY <2>1, <2>2 DEF JobInv, RunningJobHasWorker
<1>5. ASSUME NEW a \in Actors, RowStep(a)
      PROVE  JobInv'
    <2>1. UNCHANGED <<jobs, task, orphaned>>
        BY <1>5
        DEF RowStep, Upsert, UpsertFails, InsertPriceHistory,
            PublishPriceChanged, tables
    <2>2. pc'[a] # "idle" /\ \A b \in Actors \ {a} : pc'[b] = pc[b]
        BY <1>5
        DEF RowStep, Upsert, UpsertFails, InsertPriceHistory, TypeOK, Goto,
            PublishPriceChanged, Advance, AfterUpsertError, AfterRecord
    <2> QED
        BY <1>1, <2>1, <2>2, ActorsKnown
<1>6. ASSUME NEW a \in Actors, NEW k \in Keys, NEW p \in Prices,
             GetOfferPrice(a, k, p)
      PROVE  JobInv'
    BY <1>1, <1>6, ActorsKnown DEF GetOfferPrice, Goto, TypeOK, tables
<1>7. ASSUME NEW a \in Importers, ImportStep(a)
      PROVE  JobInv'
    <2>1. a \in Actors /\ a # "update"
        BY ActorsKnown
    <2>2. CASE StartImport(a) \/ FinishImport(a)
        BY <1>1, <2>1, <2>2, ActorsKnown
        DEF StartImport, FinishImport, Goto, TypeOK, tables, history
    <2>3. CASE ShortRow(a)
        BY <1>1, <1>2, <2>1, <2>3, ActorsKnown
        DEF ShortRow, Goto, TypeOK, tables, history
    <2> QED
        BY <1>5, <1>6, <1>7, <2>1, <2>2, <2>3 DEF ImportStep, ReadRow
<1>8. CASE UpdateStep
    <2>1. CASE ListShopComponents
        BY <1>1, <2>1, ActorsKnown
        DEF ListShopComponents, Goto, TypeOK, tables, history
    <2>2. ASSUME NEW k \in Keys, VisitPage(k)
          PROVE  JobInv'
        BY <1>1, <1>6, <2>2, ActorsKnown DEF VisitPage, tables, history
    <2> QED
        BY <1>4, <1>5, <1>8, <2>1, <2>2, ActorsKnown
        DEF UpdateStep, ListFails, FinishUpdate
<1>9. CASE ConnectionLost \/ Restart \/ UNCHANGED vars
    BY <1>1, <1>9 DEF ConnectionLost, Restart, vars, work, tables, history
<1> QED
    BY <1>2, <1>3, <1>7, <1>8, <1>9 DEF Next, Crash

(***************************************************************************)
(* A job marked as running is the one the consumer is at, or its end could *)
(* not be recorded (ProcessShopUpdate and UpdateJobStatus, with panics of  *)
(* other goroutines and crashes).                                          *)
(***************************************************************************)
THEOREM NoForgottenJob == Spec => []RunningJobHasWorker
<1>1. JobInv => RunningJobHasWorker
    BY DEF JobInv
<1> QED
    BY <1>1, TypeInit, TypeStep, JobInit, JobStep, PTL DEF Spec

-----------------------------------------------------------------------------
(* The last price of an offer in a table, or in the announcements.         *)

LEMMA LastIsStored ==
    ASSUME NEW P, NEW rows, NEW p, LastPriceIs(P, rows, p),
           \A n \in P : rows[n].price \in Nat
    PROVE  Stored(p) = p
<1>1. CASE p = 0
    BY <1>1, StoredTwice
<1>2. ASSUME NEW n \in P, p = Stored(rows[n].price)
      PROVE  Stored(p) = p
    BY <1>2, StoredTwice
<1> QED
    BY <1>1, <1>2 DEF LastPriceIs

LEMMA LastKept ==
    ASSUME NEW P, NEW rows, NEW rows2, NEW p, LastPriceIs(P, rows, p),
           \A n \in P : rows2[n] = rows[n]
    PROVE  LastPriceIs(P, rows2, p)
BY DEF LastPriceIs

LEMMA LastAdded ==
    ASSUME NEW L \in Nat, NEW P \in SUBSET (1 .. L), NEW rows
    PROVE  LastPriceIs(P \cup {L + 1}, rows, Stored(rows[L + 1].price))
<1>1. \A m \in P \cup {L + 1} : m <= L + 1
    OBVIOUS
<1> QED
    BY <1>1 DEF LastPriceIs

(***************************************************************************)
(* What a new event, or a new row of the history, does to the positions of *)
(* an offer.                                                               *)
(***************************************************************************)
LEMMA Appended ==
    ASSUME NEW S, NEW s \in Seq(S), NEW x \in S
    PROVE  /\ Len(s) \in Nat
           /\ DOMAIN s = 1 .. Len(s)
           /\ DOMAIN Append(s, x) = 1 .. (Len(s) + 1)
           /\ \A n \in 1 .. Len(s) : s[n] \in S /\ Append(s, x)[n] = s[n]
           /\ Append(s, x)[Len(s) + 1] = x
<1>1. /\ Len(s) \in Nat
      /\ DOMAIN s = 1 .. Len(s)
      /\ \A n \in 1 .. Len(s) : s[n] \in S
    BY LenProperties, ElementOfSeq
<1>2. /\ Append(s, x) \in Seq(S)
      /\ Len(Append(s, x)) = Len(s) + 1
      /\ \A n \in 1 .. Len(s) : Append(s, x)[n] = s[n]
      /\ Append(s, x)[Len(s) + 1] = x
    BY AppendProperties
<1>3. DOMAIN Append(s, x) = 1 .. Len(Append(s, x))
    BY <1>2, LenProperties
<1> QED
    BY <1>1, <1>2, <1>3

LEMMA EventsTyped ==
    ASSUME TypeOK, NEW k
    PROVE  /\ Len(published) \in Nat
           /\ EventsOf(k) \in SUBSET (1 .. Len(published))
           /\ \A n \in EventsOf(k) :
                 published[n].price \in Nat /\ published[n].old \in Nat
<1>1. published \in Seq(Item)
    BY DEF TypeOK
<1>2. /\ Len(published) \in Nat
      /\ DOMAIN published = 1 .. Len(published)
      /\ \A n \in 1 .. Len(published) : published[n] \in Item
    BY <1>1, LenProperties, ElementOfSeq
<1> QED
    BY <1>2 DEF EventsOf, Item

LEMMA RecordsTyped ==
    ASSUME TypeOK, NEW k
    PROVE  /\ Len(prices) \in Nat
           /\ RecordsOf(k) \in SUBSET (1 .. Len(prices))
           /\ \A n \in RecordsOf(k) : prices[n].price \in Nat
<1>1. prices \in Seq([key : Keys, price : Nat])
    BY DEF TypeOK
<1>2. /\ Len(prices) \in Nat
      /\ DOMAIN prices = 1 .. Len(prices)
      /\ \A n \in 1 .. Len(prices) : prices[n] \in [key : Keys, price : Nat]
    BY <1>1, LenProperties, ElementOfSeq
<1> QED
    BY <1>2 DEF RecordsOf

LEMMA EventAppended ==
    ASSUME TypeOK, NEW i \in Item, published' = Append(published, i), NEW k
    PROVE  /\ EventsOf(k)' = EventsOf(k) \cup
                 (IF i.key = k THEN {Len(published) + 1} ELSE {})
           /\ \A n \in EventsOf(k) : published'[n] = published[n]
           /\ published'[Len(published) + 1] = i
<1>1. published \in Seq(Item)
    BY DEF TypeOK
<1>2. /\ Len(published) \in Nat
      /\ DOMAIN published = 1 .. Len(published)
      /\ DOMAIN published' = 1 .. (Len(published) + 1)
      /\ \A n \in 1 .. Len(published) : published'[n] = published[n]
      /\ published'[Len(published) + 1] = i
    BY <1>1, Appended
<1> QED
    BY <1>2 DEF EventsOf

LEMMA RecordAppended ==
    ASSUME TypeOK, NEW r \in [key : Keys, price : Nat],
           prices' = Append(prices, r), NEW k
    PROVE  /\ RecordsOf(k)' = RecordsOf(k) \cup
                 (IF r.key = k THEN {Len(prices) + 1} ELSE {})
           /\ \A n \in RecordsOf(k) : prices'[n] = prices[n]
           /\ prices'[Len(prices) + 1] = r
<1>1. prices \in Seq([key : Keys, price : Nat])
    BY DEF TypeOK
<1>2. /\ Len(prices) \in Nat
      /\ DOMAIN prices = 1 .. Len(prices)
      /\ DOMAIN prices' = 1 .. (Len(prices) + 1)
      /\ \A n \in 1 .. Len(prices) : prices'[n] = prices[n]
      /\ prices'[Len(prices) + 1] = r
    BY <1>1, Appended
<1> QED
    BY <1>2 DEF RecordsOf

-----------------------------------------------------------------------------
(* Who is at work on an offer.                                             *)

Works(a, k) == Busy(a) /\ item[a].key = k

\* At most one goroutine.
Serial(k) == \A a, b \in Actors : Works(a, k) /\ Works(b, k) => a = b

\* A step leaves alone what is going on at the offer.
SameWork(k) ==
    /\ offers'[k] = offers[k]
    /\ \A a \in Actors :
          /\ Works(a, k)' <=> Works(a, k)
          /\ Works(a, k) => pc'[a] = pc[a] /\ item'[a] = item[a]

\* Steps between the rows.
Quiet ==
    /\ UNCHANGED <<item, offers, prices, published, unannounced, unrecorded>>
    /\ \A a \in Actors : Busy(a)' = Busy(a) /\ (Busy(a) => pc'[a] = pc[a])

Reading(a) ==
    pc[a] = "rows" /\ \E k \in Keys, p \in Prices : GetOfferPrice(a, k, p)

(***************************************************************************)
(* Every step is one of five: between the rows, the read that begins the   *)
(* work on an offer, a later statement of it, or the end of the process.   *)
(***************************************************************************)
LEMMA StepKinds ==
    ASSUME TypeOK, [Next]_vars
    PROVE  \/ Quiet
           \/ ProcessDies
           \/ \E a \in Actors : Reading(a) \/ RowStep(a)
<1>1. ASSUME NEW a \in Actors, Goto(a, "idle") \/ Goto(a, "rows") \/ Goto(a, "list"),
             pc[a] \in {"idle", "list", "rows"},
             UNCHANGED <<item, offers, prices, published, unannounced,
                         unrecorded>>
      PROVE  Quiet
    <2>1. /\ pc'[a] \in {"idle", "list", "rows"}
          /\ \A b \in Actors \ {a} : pc'[b] = pc[b]
        BY <1>1 DEF Goto, TypeOK
    <2> QED
        BY <1>1, <2>1 DEF Quiet, Busy
<1>2. ASSUME NEW a \in Importers, ImportStep(a)
      PROVE  Quiet \/ ProcessDies \/ Reading(a) \/ RowStep(a)
    <2>1. CASE StartImport(a) \/ FinishImport(a) \/ ShortRow(a)
        BY <1>1, <2>1, ActorsKnown
        DEF StartImport, FinishImport, ShortRow, tables, history
    <2> QED
        BY <1>2, <2>1 DEF ImportStep, ReadRow, Reading
<1>3. ASSUME NEW j \in Jobs, StartUpdate(j)
      PROVE  Quiet
    BY <1>1, <1>3, ActorsKnown DEF StartUpdate
<1>4. CASE UpdateStep
    <2>1. CASE ListFails \/ ListShopComponents \/ FinishUpdate
        BY <1>1, <2>1, ActorsKnown
        DEF ListFails, ListShopComponents, FinishUpdate, EndJob, tables, history
    <2>2. ASSUME NEW k \in Keys, VisitPage(k)
          PROVE  Quiet \/ Reading("update")
        BY <2>2 DEF VisitPage, Reading, Quiet, Busy, tables, history
    <2> QED
        BY <1>4, <2>1, <2>2, ActorsKnown DEF UpdateStep
<1>5. CASE ConnectionLost \/ Restart \/ UNCHANGED vars
    BY <1>5
    DEF ConnectionLost, Restart, vars, work, tables, history, Quiet, Busy
<1> QED
    BY <1>2, <1>3, <1>4, <1>5, ActorsKnown DEF Next, Crash

(***************************************************************************)
(* What the first statement of a row does.                                 *)
(***************************************************************************)
LEMMA ReadEffect ==
    ASSUME TypeOK, NEW a \in Actors, pc[a] = "rows",
           NEW k \in Keys, NEW p \in Prices, GetOfferPrice(a, k, p)
    PROVE  /\ UNCHANGED <<offers, prices, published>>
           /\ pc'[a] = "upsert" /\ item'[a].key = k
           /\ \A b \in Actors \ {a} : pc'[b] = pc[b] /\ item'[b] = item[b]
           /\ unannounced \subseteq unannounced'
           /\ unrecorded \subseteq unrecorded'
           /\ k \notin unannounced' => item'[a].old = OldPrice(k)
           /\ k \notin unannounced' \/ k \notin unrecorded'
                => \A b \in Actors : ~Works(b, k)
           /\ \A j \in Keys \ {k} : SameWork(j)
<1>1. PICK old \in {OldPrice(k)} \cup (IF "db" \in Faults THEN {0} ELSE {}) :
        /\ item' = [item EXCEPT ![a] = [key |-> k, price |-> p, old |-> old]]
        /\ unannounced' = unannounced
              \cup SpoiltIf(Overlap(a, k) \/ old # OldPrice(k), k)
    BY DEF GetOfferPrice
<1>2. /\ UNCHANGED <<offers, prices, published>>
      /\ pc'[a] = "upsert"
      /\ item'[a] = [key |-> k, price |-> p, old |-> old]
      /\ \A b \in Actors \ {a} : pc'[b] = pc[b] /\ item'[b] = item[b]
    BY <1>1 DEF GetOfferPrice, Goto, TypeOK, tables
<1>3. /\ unannounced \subseteq unannounced'
      /\ unrecorded \subseteq unrecorded'
      /\ k \notin unannounced' => old = OldPrice(k)
      /\ k \notin unannounced' \/ k \notin unrecorded' => ~Overlap(a, k)
    BY <1>1 DEF GetOfferPrice, SpoiltIf
<1>4. ~Busy(a)
    BY DEF Busy
<1>5. ~Overlap(a, k) => \A b \in Actors : ~Works(b, k)
    BY <1>4 DEF Overlap, Works
<1>6. \A j \in Keys \ {k} : SameWork(j)
    BY <1>2, <1>4 DEF SameWork, Works, Busy
<1> QED
    BY <1>2, <1>3, <1>5, <1>6

(***************************************************************************)
(* What the later statements of a row do to the goroutine and to other     *)
(* offers.                                                                 *)
(***************************************************************************)
LEMMA RowEffect ==
    ASSUME TypeOK, NEW a \in Actors, RowStep(a)
    PROVE  /\ Busy(a) /\ item[a] \in Item
           /\ item[a].key \in Keys /\ item[a].price \in Nat /\ item[a].old \in Nat
           /\ \A b \in Actors \ {a} : pc'[b] = pc[b] /\ item'[b] = item[b]
           /\ pc'[a] = "rows" \/ (item'[a] = item[a] /\ Busy(a)')
           /\ unannounced \subseteq unannounced'
           /\ unrecorded \subseteq unrecorded'
           /\ \A j \in Keys \ {item[a].key} : SameWork(j)
<1>1. /\ Busy(a) /\ item[a] \in Item
      /\ item[a].key \in Keys /\ item[a].price \in Nat /\ item[a].old \in Nat
    BY DEF TypeOK, Item, Busy, RowStep, Upsert, UpsertFails,
           InsertPriceHistory, PublishPriceChanged
<1>2. /\ \A b \in Actors \ {a} : pc'[b] = pc[b] /\ item'[b] = item[b]
      /\ pc'[a] = "rows" \/ (item'[a] = item[a] /\ Busy(a)')
    <2>1. CASE Upsert(a)
        BY <2>1 DEF Upsert, Goto, TypeOK, Busy
    <2>2. CASE UpsertFails(a)
        BY <2>2 DEF UpsertFails, Advance, AfterUpsertError, Goto, TypeOK, Busy
    <2>3. CASE InsertPriceHistory(a)
        BY <2>3 DEF InsertPriceHistory, Advance, AfterRecord, Goto, TypeOK, Busy
    <2>4. CASE PublishPriceChanged(a)
        BY <2>4 DEF PublishPriceChanged, Advance, Goto, TypeOK
    <2> QED
        BY <2>1, <2>2, <2>3, <2>4 DEF RowStep
<1>3. unannounced \subseteq unannounced' /\ unrecorded \subseteq unrecorded'
    BY DEF RowStep, Upsert, UpsertFails, InsertPriceHistory, PublishPriceChanged
<1>4. ASSUME NEW j \in Keys, j # item[a].key
      PROVE  SameWork(j)
    <2>1. offers'[j] = offers[j]
        BY <1>4
        DEF RowStep, Upsert, UpsertFails, InsertPriceHistory,
            PublishPriceChanged, TypeOK, tables
    <2>2. ~Works(a, j) /\ ~Works(a, j)'
        BY <1>2, <1>4 DEF Works, Busy
    <2>3. \A b \in Actors \ {a} : Works(b, j)' <=> Works(b, j)
        BY <1>2 DEF Works, Busy
    <2> QED
        BY <1>2, <2>1, <2>2, <2>3 DEF SameWork
<1> QED
    BY <1>1, <1>2, <1>3, <1>4

LEMMA DeathEffect ==
    ASSUME TypeOK, ProcessDies
    PROVE  /\ UNCHANGED <<offers, prices, published>>
           /\ \A k : \A a \in Actors : ~Works(a, k)'
           /\ unannounced \subseteq unannounced'
           /\ unrecorded \subseteq unrecorded'
           /\ \A k : k \notin unannounced' => ~At({"record", "publish"}, k)
           /\ \A k : k \notin unrecorded' => ~At({"record"}, k)
BY DEF ProcessDies, TypeOK, Works, Busy, Cut, At, tables

-----------------------------------------------------------------------------
(* Announcements. *)

Chain(k) ==
    \A n \in EventsOf(k) :
        LastPriceIs({m \in EventsOf(k) : m < n}, published, published[n].old)

Announcing(k) ==
    /\ Serial(k)
    /\ \A a \in Actors : Works(a, k) =>
          /\ LastPriceIs(EventsOf(k), published, item[a].old)
          /\ pc[a] = "upsert" => item[a].old = OldPrice(k)
          /\ pc[a] # "upsert" => OldPrice(k) = Stored(item[a].price)
    /\ ~At({"record", "publish"}, k)
          => LastPriceIs(EventsOf(k), published, OldPrice(k))
    /\ Chain(k)

AnnouncedInv == \A k \in Keys \ unannounced : Announcing(k)

LEMMA AnnouncedInit == Init => AnnouncedInv
<1> SUFFICES ASSUME Init, NEW k \in Keys
             PROVE  Announcing(k)
    BY DEF AnnouncedInv
<1>1. EventsOf(k) = {}
    BY DEF Init, EventsOf
<1>2. \A a \in Actors : ~Works(a, k)
    BY DEF Init, Works, Busy
<1>3. OldPrice(k) = 0
    BY DEF Init, OldPrice
<1> QED
    BY <1>1, <1>2, <1>3 DEF Announcing, Serial, Chain, LastPriceIs

(***************************************************************************)
(* A step that does not concern the offer, though it may publish an event  *)
(* of another one.                                                         *)
(***************************************************************************)
LEMMA OtherAnnouncing ==
    ASSUME NEW k \in Keys, Announcing(k), SameWork(k),
           EventsOf(k)' = EventsOf(k),
           \A n \in EventsOf(k) : published'[n] = published[n]
    PROVE  Announcing(k)'
<1>1. \A p, P : P \subseteq EventsOf(k) /\ LastPriceIs(P, published, p)
                    => LastPriceIs(P, published', p)
    BY LastKept
<1>2. OldPrice(k)' = OldPrice(k)
    BY DEF OldPrice, SameWork
<1>3. Serial(k)'
    BY DEF Announcing, Serial, SameWork
<1>4. At({"record", "publish"}, k)' <=> At({"record", "publish"}, k)
    BY DEF At, SameWork, Works, Busy
<1>5. ASSUME NEW a \in Actors, Works(a, k)'
      PROVE  /\ LastPriceIs(EventsOf(k)', published', item'[a].old)
             /\ pc'[a] = "upsert" => item'[a].old = OldPrice(k)'
             /\ pc'[a] # "upsert" => OldPrice(k)' = Stored(item'[a].price)
    <2>1. Works(a, k) /\ pc'[a] = pc[a] /\ item'[a] = item[a]
        BY <1>5 DEF SameWork
    <2> QED
        BY <1>1, <1>2, <2>1 DEF Announcing
<1>6. ~At({"record", "publish"}, k)'
        => LastPriceIs(EventsOf(k)', published', OldPrice(k)')
    BY <1>1, <1>2, <1>4 DEF Announcing
<1>7. Chain(k)'
    <2> SUFFICES ASSUME NEW n \in EventsOf(k)
                 PROVE  LastPriceIs({m \in EventsOf(k) : m < n}, published',
                                    published'[n].old)
        BY DEF Chain
    <2>1. LastPriceIs({m \in EventsOf(k) : m < n}, published, published[n].old)
        BY DEF Announcing, Chain
    <2> QED
        BY <1>1, <2>1
<1> QED
    BY <1>3, <1>5, <1>6, <1>7 DEF Announcing

(***************************************************************************)
(* The goroutine at work on the offer goes from one statement to the next. *)
(***************************************************************************)
LEMMA OwnAnnouncing ==
    ASSUME TypeOK, NEW a \in Actors, RowStep(a), NEW k, k = item[a].key,
           k \in Keys, Announcing(k), k \notin unannounced'
    PROVE  Announcing(k)'
<1> DEFINE i == item[a]
<1>1. /\ i \in Item /\ i.price \in Nat /\ i.old \in Nat
      /\ \A b \in Actors \ {a} : pc'[b] = pc[b] /\ item'[b] = item[b]
      /\ pc'[a] = "rows" \/ (item'[a] = item[a] /\ Busy(a)')
      /\ Works(a, k)
    BY RowEffect DEF Works
<1>2. /\ \A b \in Actors \ {a} : ~Works(b, k) /\ ~Works(b, k)'
      /\ Serial(k)'
    BY <1>1 DEF Announcing, Serial, Works, Busy
<1>3. /\ LastPriceIs(EventsOf(k), published, i.old)
      /\ pc[a] = "upsert" => i.old = OldPrice(k)
      /\ pc[a] # "upsert" => OldPrice(k) = Stored(i.price)
      /\ Chain(k)
    BY <1>1 DEF Announcing
<1>4. At({"record", "publish"}, k)' <=>
        /\ pc'[a] \in {"record", "publish"}
        /\ item'[a].key = k
    BY <1>2 DEF At, Works, Busy
<1>5. Stored(i.old) = i.old
    BY <1>3, LastIsStored, EventsTyped
<1>6. ASSUME published' = published, pc'[a] # "upsert",
             pc'[a] # "rows" => OldPrice(k)' = Stored(i.price),
             pc'[a] = "rows" => OldPrice(k)' = i.old
      PROVE  Announcing(k)'
    <2>1. EventsOf(k)' = EventsOf(k) /\ Chain(k)'
        BY <1>3, <1>6 DEF EventsOf, Chain
    <2>2. ASSUME NEW b \in Actors, Works(b, k)'
          PROVE  /\ b = a /\ item'[b] = i
                 /\ pc'[b] # "rows"
        BY <1>1, <1>2, <2>2 DEF Works, Busy
    <2>3. pc'[a] # "rows" => At({"record", "publish"}, k)'
        BY <1>1, <1>4, <1>6 DEF Works, Busy
    <2> QED
        BY <1>2, <1>3, <1>6, <2>1, <2>2, <2>3 DEF Announcing
<1>7. CASE Upsert(a)
    <2>1. /\ pc'[a] = "record" /\ published' = published
          /\ offers'[k] = Stored(i.price)
        BY <1>7 DEF Upsert, Goto, TypeOK
    <2>2. Stored(i.price) \in Nat
        BY <1>1, StoredTwice
    <2>3. OldPrice(k)' = Stored(i.price)
        BY <2>1, <2>2 DEF OldPrice, NoOffer
    <2> QED
        BY <1>6, <2>1, <2>3
<1>8. CASE UpsertFails(a)
    <2>1. a = "update"
        BY <1>8 DEF UpsertFails
    <2>2. pc'[a] = "rows" /\ published' = published /\ offers' = offers
        BY <1>8, <2>1
        DEF UpsertFails, AfterUpsertError, Advance, Goto, TypeOK, tables
    <2>3. OldPrice(k)' = i.old
        BY <1>3, <1>8, <2>2 DEF UpsertFails, OldPrice
    <2> QED
        BY <1>6, <2>2, <2>3
<1>9. CASE InsertPriceHistory(a)
    <2>1. /\ pc[a] = "record" /\ pc'[a] = AfterRecord(a)
          /\ published' = published /\ offers' = offers
        BY <1>9 DEF InsertPriceHistory, Advance, Goto, TypeOK
    <2>2. OldPrice(k)' = Stored(i.price)
        BY <1>3, <2>1 DEF OldPrice
    <2>3. pc'[a] = "rows" => i.price = i.old
        BY <2>1 DEF AfterRecord, Changed
    <2>4. pc'[a] # "upsert"
        BY <2>1 DEF AfterRecord
    <2> QED
        BY <1>5, <1>6, <2>1, <2>2, <2>3, <2>4
<1>10. CASE PublishPriceChanged(a)
    <2>1. /\ pc[a] = "publish" /\ pc'[a] = "rows" /\ offers' = offers
          /\ published' = Append(published, i)
        BY <1>10 DEF PublishPriceChanged, Advance, Goto, TypeOK, tables
    <2>2. OldPrice(k)' = Stored(i.price)
        BY <1>3, <2>1 DEF OldPrice
    <2> DEFINE L == Len(published)
               E == EventsOf(k)
    <2>3. /\ EventsOf(k)' = E \cup {L + 1}
          /\ \A n \in E : published'[n] = published[n]
          /\ published'[L + 1] = i
        BY <1>1, <2>1, EventAppended
    <2>4. L \in Nat /\ E \in SUBSET (1 .. L)
        BY EventsTyped
    <2>5. LastPriceIs(EventsOf(k)', published', OldPrice(k)')
        BY <2>2, <2>3, <2>4, LastAdded
    <2>6. Chain(k)'
        <3> SUFFICES ASSUME NEW n \in E \cup {L + 1}
                     PROVE  LastPriceIs({m \in E \cup {L + 1} : m < n},
                                        published', published'[n].old)
            BY <2>3 DEF Chain
        <3>1. CASE n = L + 1
            <4>1. {m \in E \cup {L + 1} : m < n} = E
                BY <2>4, <3>1
            <4>2. LastPriceIs(E, published', i.old)
                BY <1>3, <2>3, LastKept
            <4> QED
                BY <2>3, <3>1, <4>1, <4>2
        <3>2. CASE n \in E
            <4>1. {m \in E \cup {L + 1} : m < n} = {m \in E : m < n}
                BY <2>4, <3>2
            <4>2. LastPriceIs({m \in E : m < n}, published, published[n].old)
                BY <1>3, <3>2 DEF Chain
            <4>3. LastPriceIs({m \in E : m < n}, published', published[n].old)
                BY <2>3, <4>2, LastKept
            <4> QED
                BY <2>3, <3>2, <4>1, <4>3
        <3> QED
            BY <3>1, <3>2
    <2>7. \A b \in Actors : ~Works(b, k)'
        BY <1>2, <2>1 DEF Works, Busy
    <2> QED
        BY <1>2, <2>5, <2>6, <2>7 DEF Announcing
<1> QED
    BY <1>7, <1>8, <1>9, <1>10 DEF RowStep

LEMMA AnnouncedStep == TypeOK /\ AnnouncedInv /\ [Next]_vars => AnnouncedInv'
<1> SUFFICES ASSUME TypeOK, AnnouncedInv, [Next]_vars,
                    NEW k \in Keys, k \notin unannounced'
             PROVE  Announcing(k)'
    BY DEF AnnouncedInv
<1>1. CASE Quiet
    <2>1. Announcing(k) /\ SameWork(k)
        BY <1>1 DEF AnnouncedInv, Quiet, SameWork, Works
    <2>2. EventsOf(k)' = EventsOf(k) /\ published' = published
        BY <1>1 DEF Quiet, EventsOf
    <2> QED
        BY <2>1, <2>2, OtherAnnouncing
<1>2. CASE ProcessDies
    <2>1. /\ UNCHANGED <<offers, published>>
          /\ \A a \in Actors : ~Works(a, k)'
          /\ k \notin unannounced /\ ~At({"record", "publish"}, k)
        BY <1>2, DeathEffect
    <2>2. LastPriceIs(EventsOf(k), published, OldPrice(k)) /\ Chain(k)
        BY <2>1 DEF AnnouncedInv, Announcing
    <2>3. LastPriceIs(EventsOf(k)', published', OldPrice(k)') /\ Chain(k)'
        BY <2>1, <2>2 DEF EventsOf, OldPrice, Chain
    <2> QED
        BY <2>1, <2>3 DEF Announcing, Serial
<1>3. ASSUME NEW a \in Actors, pc[a] = "rows",
             NEW j \in Keys, NEW p \in Prices, GetOfferPrice(a, j, p)
      PROVE  Announcing(k)'
    <2>1. /\ UNCHANGED <<offers, published>>
          /\ pc'[a] = "upsert" /\ item'[a].key = j
          /\ \A b \in Actors \ {a} : pc'[b] = pc[b] /\ item'[b] = item[b]
          /\ k \notin unannounced
          /\ j \notin unannounced' => item'[a].old = OldPrice(j)
          /\ j \notin unannounced' => \A b \in Actors : ~Works(b, j)
          /\ k # j => SameWork(k)
        BY <1>3, ReadEffect
    <2>2. Announcing(k) /\ EventsOf(k)' = EventsOf(k)
        BY <2>1 DEF AnnouncedInv, EventsOf
    <2>3. CASE k # j
        BY <2>1, <2>2, <2>3, OtherAnnouncing
    <2>4. CASE k = j
        <3>1. /\ item'[a].old = OldPrice(k)
              /\ \A b \in Actors : ~Works(b, k)
              /\ \A b \in Actors \ {a} : ~Works(b, k)'
            BY <2>1, <2>4 DEF Works, Busy
        <3>2. ~At({"record", "publish"}, k)
            BY <3>1 DEF At, Works, Busy
        <3>3. /\ LastPriceIs(EventsOf(k)', published', OldPrice(k)')
              /\ OldPrice(k)' = OldPrice(k)
              /\ Chain(k)'
            BY <2>1, <2>2, <3>2 DEF Announcing, OldPrice, EventsOf, Chain
        <3> QED
            BY <2>1, <3>1, <3>3 DEF Announcing, Serial
    <2> QED
        BY <2>3, <2>4
<1>4. ASSUME NEW a \in Actors, RowStep(a)
      PROVE  Announcing(k)'
    <2>1. /\ k \notin unannounced
          /\ item[a] \in Item /\ item[a].key \in Keys
          /\ k # item[a].key => SameWork(k)
        BY <1>4, RowEffect
    <2>2. Announcing(k)
        BY <2>1 DEF AnnouncedInv
    <2>3. CASE k # item[a].key
        <3>1. published' = published \/ published' = Append(published, item[a])
            BY <1>4
            DEF RowStep, Upsert, UpsertFails, InsertPriceHistory,
                PublishPriceChanged
        <3>2. /\ EventsOf(k)' = EventsOf(k)
              /\ \A n \in EventsOf(k) : published'[n] = published[n]
            BY <2>1, <2>3, <3>1, EventAppended DEF EventsOf
        <3> QED
            BY <2>1, <2>2, <2>3, <3>2, OtherAnnouncing
    <2> QED
        BY <1>4, <2>1, <2>2, <2>3, OwnAnnouncing
<1> QED
    BY <1>1, <1>2, <1>3, <1>4, StepKinds DEF Reading

(***************************************************************************)
(* On an offer at which goroutines came one after the other and nothing    *)
(* failed, the price announced last is the price in the table              *)
(* (ImportPriceList and ProcessShopUpdate: read, upsert, record, publish   *)
(* if changed; the price in the table is rounded).                         *)
(***************************************************************************)
THEOREM AnnouncementsUpToDate == Spec => []AnnouncedPriceCurrent
<1>1. AnnouncedInv => AnnouncedPriceCurrent
    BY DEF AnnouncedInv, Announcing, AnnouncedPriceCurrent
<1> QED
    BY <1>1, TypeInit, TypeStep, AnnouncedInit, AnnouncedStep, PTL DEF Spec

(***************************************************************************)
(* On such an offer each event's old price is the new price of the event   *)
(* before, whichever goroutines published the two.                         *)
(***************************************************************************)
THEOREM EventsChained == Spec => []EventsMakeChain
<1>1. AnnouncedInv => EventsMakeChain
    BY DEF AnnouncedInv, Announcing, Chain, EventsMakeChain
<1> QED
    BY <1>1, TypeInit, TypeStep, AnnouncedInit, AnnouncedStep, PTL DEF Spec

-----------------------------------------------------------------------------
(* The price history. *)

Recording(k) ==
    /\ Serial(k)
    /\ \A a \in Actors : Works(a, k) /\ pc[a] = "record"
          => OldPrice(k) = Stored(item[a].price)
    /\ ~At({"record"}, k) => LastPriceIs(RecordsOf(k), prices, OldPrice(k))

RecordedInv == \A k \in Keys \ unrecorded : Recording(k)

LEMMA RecordedInit == Init => RecordedInv
<1> SUFFICES ASSUME Init, NEW k \in Keys
             PROVE  Recording(k)
    BY DEF RecordedInv
<1>1. RecordsOf(k) = {}
    BY DEF Init, RecordsOf
<1>2. \A a \in Actors : ~Works(a, k)
    BY DEF Init, Works, Busy
<1>3. OldPrice(k) = 0
    BY DEF Init, OldPrice
<1> QED
    BY <1>1, <1>2, <1>3 DEF Recording, Serial, LastPriceIs

LEMMA OtherRecording ==
    ASSUME NEW k \in Keys, Recording(k), SameWork(k),
           RecordsOf(k)' = RecordsOf(k),
           \A n \in RecordsOf(k) : prices'[n] = prices[n]
    PROVE  Recording(k)'
<1>1. OldPrice(k)' = OldPrice(k)
    BY DEF OldPrice, SameWork
<1>2. Serial(k)'
    BY DEF Recording, Serial, SameWork
<1>3. At({"record"}, k)' <=> At({"record"}, k)
    BY DEF At, SameWork, Works, Busy
<1>4. LastPriceIs(RecordsOf(k), prices, OldPrice(k))
        => LastPriceIs(RecordsOf(k), prices', OldPrice(k))
    BY LastKept
<1>5. \A a \in Actors : Works(a, k)' /\ pc'[a] = "record"
        => OldPrice(k)' = Stored(item'[a].price)
    BY <1>1 DEF SameWork, Recording
<1> QED
    BY <1>1, <1>2, <1>3, <1>4, <1>5 DEF Recording

LEMMA OwnRecording ==
    ASSUME TypeOK, NEW a \in Actors, RowStep(a), NEW k, k = item[a].key,
           k \in Keys, Recording(k), k \notin unrecorded'
    PROVE  Recording(k)'
<1> DEFINE i == item[a]
<1>1. /\ i \in Item /\ i.price \in Nat
      /\ \A b \in Actors \ {a} : pc'[b] = pc[b] /\ item'[b] = item[b]
      /\ pc'[a] = "rows" \/ (item'[a] = item[a] /\ Busy(a)')
      /\ Works(a, k)
    BY RowEffect DEF Works
<1>2. /\ \A b \in Actors \ {a} : ~Works(b, k) /\ ~Works(b, k)'
      /\ Serial(k)'
    BY <1>1 DEF Recording, Serial, Works, Busy
<1>3. /\ pc[a] # "record" => LastPriceIs(RecordsOf(k), prices, OldPrice(k))
      /\ pc[a] = "record" => OldPrice(k) = Stored(i.price)
    BY <1>1, <1>2 DEF Recording, At, Works, Busy
<1>4. CASE Upsert(a)
    <2>1. /\ pc'[a] = "record" /\ item' = item
          /\ offers'[k] = Stored(i.price)
        BY <1>4 DEF Upsert, Goto, TypeOK
    <2>2. Stored(i.price) \in Nat
        BY <1>1, StoredTwice
    <2>3. OldPrice(k)' = Stored(i.price)
        BY <2>1, <2>2 DEF OldPrice, NoOffer
    <2>4. At({"record"}, k)'
        BY <2>1 DEF At
    <2> QED
        BY <1>2, <2>1, <2>3, <2>4 DEF Recording
<1>5. CASE UpsertFails(a) \/ PublishPriceChanged(a)
    <2>1. /\ pc[a] # "record" /\ UNCHANGED <<offers, prices>>
          /\ a = "update" \/ PublishPriceChanged(a)
        BY <1>5 DEF UpsertFails, PublishPriceChanged, tables
    <2>2. pc'[a] = "rows"
        BY <1>5, <2>1
        DEF UpsertFails, AfterUpsertError, PublishPriceChanged, Advance, Goto,
            TypeOK
    <2>3. LastPriceIs(RecordsOf(k)', prices', OldPrice(k)')
        BY <1>3, <2>1 DEF RecordsOf, OldPrice
    <2> QED
        BY <1>2, <2>2, <2>3 DEF Recording, Works, Busy
<1>6. CASE InsertPriceHistory(a)
    <2>1. /\ pc[a] = "record" /\ pc'[a] = AfterRecord(a) /\ offers' = offers
          /\ prices' = Append(prices, HistoryRow(i))
        BY <1>6 DEF InsertPriceHistory, Advance, Goto, TypeOK
    <2>2. /\ HistoryRow(i) \in [key : Keys, price : Nat]
          /\ HistoryRow(i).key = k
          /\ Stored(HistoryRow(i).price) = Stored(i.price)
        BY <1>1, StoredTwice DEF HistoryRow
    <2>3. OldPrice(k)' = Stored(i.price)
        BY <1>3, <2>1 DEF OldPrice
    <2> DEFINE L == Len(prices)
               R == RecordsOf(k)
    <2>4. /\ RecordsOf(k)' = R \cup {L + 1}
          /\ prices'[L + 1] = HistoryRow(i)
        BY <2>1, <2>2, RecordAppended
    <2>5. L \in Nat /\ R \in SUBSET (1 .. L)
        BY RecordsTyped
    <2>6. LastPriceIs(RecordsOf(k)', prices', OldPrice(k)')
        BY <2>2, <2>3, <2>4, <2>5, LastAdded
    <2>7. pc'[a] # "record"
        BY <2>1 DEF AfterRecord
    <2> QED
        BY <1>2, <2>6, <2>7 DEF Recording
<1> QED
    BY <1>4, <1>5, <1>6 DEF RowStep

LEMMA RecordedStep == TypeOK /\ RecordedInv /\ [Next]_vars => RecordedInv'
<1> SUFFICES ASSUME TypeOK, RecordedInv, [Next]_vars,
                    NEW k \in Keys, k \notin unrecorded'
             PROVE  Recording(k)'
    BY DEF RecordedInv
<1>1. CASE Quiet
    <2>1. Recording(k) /\ SameWork(k)
        BY <1>1 DEF RecordedInv, Quiet, SameWork, Works
    <2>2. RecordsOf(k)' = RecordsOf(k) /\ prices' = prices
        BY <1>1 DEF Quiet, RecordsOf
    <2> QED
        BY <2>1, <2>2, OtherRecording
<1>2. CASE ProcessDies
    <2>1. /\ UNCHANGED <<offers, prices>>
          /\ \A a \in Actors : ~Works(a, k)'
          /\ k \notin unrecorded /\ ~At({"record"}, k)
        BY <1>2, DeathEffect
    <2>2. LastPriceIs(RecordsOf(k), prices, OldPrice(k))
        BY <2>1 DEF RecordedInv, Recording
    <2>3. LastPriceIs(RecordsOf(k)', prices', OldPrice(k)')
        BY <2>1, <2>2 DEF RecordsOf, OldPrice
    <2> QED
        BY <2>1, <2>3 DEF Recording, Serial
<1>3. ASSUME NEW a \in Actors, pc[a] = "rows",
             NEW j \in Keys, NEW p \in Prices, GetOfferPrice(a, j, p)
      PROVE  Recording(k)'
    <2>1. /\ UNCHANGED <<offers, prices>>
          /\ pc'[a] = "upsert" /\ item'[a].key = j
          /\ \A b \in Actors \ {a} : pc'[b] = pc[b] /\ item'[b] = item[b]
          /\ k \notin unrecorded
          /\ j \notin unrecorded' => \A b \in Actors : ~Works(b, j)
          /\ k # j => SameWork(k)
        BY <1>3, ReadEffect
    <2>2. Recording(k) /\ RecordsOf(k)' = RecordsOf(k)
        BY <2>1 DEF RecordedInv, RecordsOf
    <2>3. CASE k # j
        BY <2>1, <2>2, <2>3, OtherRecording
    <2>4. CASE k = j
        <3>1. /\ \A b \in Actors : ~Works(b, k)
              /\ \A b \in Actors \ {a} : ~Works(b, k)'
            BY <2>1, <2>4 DEF Works, Busy
        <3>2. ~At({"record"}, k)
            BY <3>1 DEF At, Works, Busy
        <3>3. LastPriceIs(RecordsOf(k)', prices', OldPrice(k)')
            BY <2>1, <2>2, <3>2 DEF Recording, OldPrice
        <3> QED
            BY <2>1, <3>1, <3>3 DEF Recording, Serial
    <2> QED
        BY <2>3, <2>4
<1>4. ASSUME NEW a \in Actors, RowStep(a)
      PROVE  Recording(k)'
    <2>1. /\ k \notin unrecorded
          /\ item[a] \in Item /\ item[a].key \in Keys /\ item[a].price \in Nat
          /\ k # item[a].key => SameWork(k)
        BY <1>4, RowEffect
    <2>2. Recording(k)
        BY <2>1 DEF RecordedInv
    <2>3. CASE k # item[a].key
        <3>1. prices' = prices \/ prices' = Append(prices, HistoryRow(item[a]))
            BY <1>4
            DEF RowStep, Upsert, UpsertFails, InsertPriceHistory,
                PublishPriceChanged, tables
        <3>2. /\ HistoryRow(item[a]) \in [key : Keys, price : Nat]
              /\ HistoryRow(item[a]).key = item[a].key
            BY <2>1, StoredTwice DEF HistoryRow
        <3>3. /\ RecordsOf(k)' = RecordsOf(k)
              /\ \A n \in RecordsOf(k) : prices'[n] = prices[n]
            BY <2>3, <3>1, <3>2, RecordAppended DEF RecordsOf
        <3> QED
            BY <2>1, <2>2, <2>3, <3>3, OtherRecording
    <2> QED
        BY <1>4, <2>1, <2>2, <2>3, OwnRecording
<1> QED
    BY <1>1, <1>2, <1>3, <1>4, StepKinds DEF Reading

(***************************************************************************)
(* On an offer at which goroutines came one after the other and no         *)
(* statement failed, the last row of the price history has the price of    *)
(* the offer (UpsertOffer and InsertPriceHistory, with the next page of an *)
(* update taken up after a failed upsert).                                 *)
(***************************************************************************)
THEOREM HistoryUpToDate == Spec => []HistoryFollowsOffers
<1>1. RecordedInv => HistoryFollowsOffers
    BY DEF RecordedInv, Recording, HistoryFollowsOffers
<1> QED
    BY <1>1, TypeInit, TypeStep, RecordedInit, RecordedStep, PTL DEF Spec
=============================================================================
