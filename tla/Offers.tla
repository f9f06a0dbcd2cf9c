------------------------------- MODULE Offers -------------------------------
(***************************************************************************)
(* aggregator-service: tables offers, price_history and update_jobs, and   *)
(* the three kinds of goroutines that write them and announce new prices   *)
(* on exchange aggregator-ex: the consumer of queue price_list_import, the *)
(* consumer of queue shop_update, and the handlers of POST /offers/import. *)
(* No statement shares a transaction with another, so each action below is *)
(* one statement or one publication.                                       *)
(*                                                                         *)
(* A price list is guessed a row at a time, as it is read.  Rows of        *)
(* unknown shops and pages that cannot be parsed change nothing.           *)
(*                                                                         *)
(* Prices are numbers of thousandths; the columns keep hundredths.         *)
(***************************************************************************)
EXTENDS Integers, Sequences, FiniteSets

CONSTANTS
    Components,  \* component ids that occur in price lists
    Known,       \* those that have a row in table components
    Shops,
    Prices,      \* prices in lists and pages; 0 is an unreadable cell
    Uploads,     \* goroutines serving POST /offers/import
    Jobs,        \* rows of table update_jobs
    Faults,      \* which of the faults below may happen; "db" includes the
                 \* statements of an upload whose client has hung up
    MaxRows      \* bound: rows and pages ever read

AllFaults == {"db", "broker", "shortRow", "crash"}

ASSUME OffersAssumption ==
    /\ Components # {} /\ Shops # {}
    /\ Known \subseteq Components
    /\ Prices \subseteq Nat
    /\ Uploads \cap {"import", "update"} = {}
    /\ Faults \subseteq AllFaults
    /\ MaxRows \in Nat

VARIABLES
    up,          \* the process runs
    connected,   \* its AMQP connection is open
    pc,          \* the next step of each goroutine
    item,        \* the row it is at, with the old price it read
    pages,       \* offers whose pages the update still has to visit
    task,        \* {job} while the update is at a job
    jobs,        \* column status of table update_jobs
    offers,      \* column price of table offers
    prices,      \* table price_history, in the order of the INSERTs
    published,   \* price.changed events the broker accepted, in order
    readRows,    \* history: rows and pages read
    changes,     \* history: how often an offer's price changed
    unannounced, \* history: offers for which a step before the announcement
                 \* failed, or goroutines were at work at the same time
    unrecorded,  \* history: the same for the price history
    orphaned     \* history: jobs whose end was not recorded

tables  == <<jobs, offers, prices>>
work    == <<pc, item, pages, task>>
history == <<readRows, changes, unannounced, unrecorded, orphaned>>
vars == <<up, connected, work, tables, published, history>>

Keys      == Components \X Shops
Importers == Uploads \cup {"import"}
Actors    == Importers \cup {"update"}
NoOffer   == -1

PcState == {"idle", "list", "rows", "upsert", "record", "publish"}
Status  == {"new", "running", "failed", "done"}
Item    == [key : Keys, price : Nat, old : Nat]
NoItem  == [key |-> CHOOSE k \in Keys : TRUE, price |-> 0, old |-> 0]

Init ==
    /\ up = TRUE
    /\ connected = TRUE
    /\ pc = [a \in Actors |-> "idle"]
    /\ item = [a \in Actors |-> NoItem]
    /\ pages = {}
    /\ task = {}
    /\ jobs = [j \in Jobs |-> "new"]
    /\ offers = [k \in Keys |-> NoOffer]
    /\ prices = <<>>
    /\ published = <<>>
    /\ readRows = 0
    /\ changes = [k \in Keys |-> 0]
    /\ unannounced = {}
    /\ unrecorded = {}
    /\ orphaned = {}

-----------------------------------------------------------------------------
(* The columns price are NUMERIC(12,2): what is stored is rounded.         *)
Stored(p) == 10 * ((p + 5) \div 10)

NoRowIsError(k) == offers[k]

\* GetOfferPrice: no row reads as 0.
OldPrice(k) == IF offers[k] = NoOffer THEN 0 ELSE offers[k]

\* The foreign key of offers and of price_history.
Refused(k) == k[1] \notin Known

AnnounceRises(i) == i.price > i.old
Changed(i) == i.price # i.old

\* At work on the offer, from the lookup of the old price on.
Busy(a) == pc[a] \in {"upsert", "record", "publish"}
Overlap(a, k) == \E b \in Actors \ {a} : Busy(b) /\ item[b].key = k
SpoiltIf(bad, k) == IF bad THEN {k} ELSE {}

Goto(a, step) == pc' = [pc EXCEPT ![a] = step]

\* Goes on with the row, or leaves it.
Advance(a, step) ==
    /\ Goto(a, step)
    /\ item' = IF step = "rows" THEN [item EXCEPT ![a] = NoItem] ELSE item

-----------------------------------------------------------------------------
(* What starts and ends the work.                                          *)

\* POST /offers/import, or a message of queue price_list_import (with
\* autoAck, and only while the connection is open); the file is readable.
StartImport(a) ==
    /\ up
    /\ pc[a] = "idle"
    /\ a = "import" => connected
    /\ Goto(a, "rows")
    /\ UNCHANGED <<up, connected, item, pages, task, tables, published,
                   history>>

\* The sheet has no more rows.
FinishImport(a) ==
    /\ pc[a] = "rows"
    /\ Goto(a, "idle")
    /\ UNCHANGED <<up, connected, item, pages, task, tables, published,
                   history>>

\* A message of queue shop_update, for a job that may be one seen before.
\* When the job cannot be marked, the message is lost.
StartUpdate(j) ==
    /\ up /\ connected
    /\ pc["update"] = "idle"
    /\ Goto("update", "list")
    /\ task' = {j}
    /\ jobs' = [jobs EXCEPT ![j] = "running"]
    /\ orphaned' = orphaned \ {j}
    /\ UNCHANGED <<up, connected, item, pages, offers, prices, published,
                   readRows, changes, unannounced, unrecorded>>

\* UpdateJobStatus at the end of a job; its error is returned to a caller
\* that ignores it.
EndJobIfDone(status) ==
    /\ jobs' = [j \in Jobs |-> IF j \in task /\ status = "done"
                              THEN status ELSE jobs[j]]
    /\ Goto("update", "idle")
    /\ task' = {}
    /\ UNCHANGED orphaned

EndJob(status) ==
    /\ \/ /\ jobs' = [j \in Jobs |-> IF j \in task THEN status ELSE jobs[j]]
          /\ UNCHANGED orphaned
       \/ /\ "db" \in Faults
          /\ orphaned' = orphaned \cup task
          /\ UNCHANGED jobs
    /\ Goto("update", "idle")
    /\ task' = {}

\* The query fails whenever nobody has created table shop_components, which
\* no script of the repository does.
ListFails ==
    /\ pc["update"] = "list"
    /\ EndJob("failed")
    /\ UNCHANGED <<up, connected, item, pages, offers, prices, published,
                   readRows, changes, unannounced, unrecorded>>

ListShopComponents ==
    /\ pc["update"] = "list"
    /\ \E s \in Shops, found \in SUBSET Components : pages' = found \X {s}
    /\ Goto("update", "rows")
    /\ UNCHANGED <<up, connected, item, task, tables, published, history>>

FinishUpdate ==
    /\ pc["update"] = "rows"
    /\ pages = {}
    /\ EndJob("done")
    /\ UNCHANGED <<up, connected, item, pages, offers, prices, published,
                   readRows, changes, unannounced, unrecorded>>

-----------------------------------------------------------------------------
(* One row of a price list, or one page of a shop.                         *)

\* The old price is read; an error reads as 0.
GetOfferPrice(a, k, p) ==
    /\ readRows < MaxRows
    /\ readRows' = readRows + 1
    /\ Goto(a, "upsert")
    /\ \E old \in {OldPrice(k)} \cup (IF "db" \in Faults THEN {0} ELSE {}) :
          /\ item' = [item EXCEPT ![a] = [key |-> k, price |-> p, old |-> old]]
          /\ unannounced' = unannounced
                \cup SpoiltIf(Overlap(a, k) \/ old # OldPrice(k), k)
    /\ unrecorded' = unrecorded \cup SpoiltIf(Overlap(a, k), k)
    /\ UNCHANGED <<up, connected, task, tables, published, changes, orphaned>>

ReadRow(a, k, p) ==
    /\ pc[a] = "rows"
    /\ GetOfferPrice(a, k, p)
    /\ UNCHANGED pages

SamePageAgain(k) == pages
PagesAfter(k) == pages \ {k}

\* The page of the offer is parsed, or it is not and the update goes on.
VisitPage(k) ==
    /\ pc["update"] = "rows"
    /\ k \in pages
    /\ pages' = PagesAfter(k)
    /\ \/ \E p \in Prices \ {0} : GetOfferPrice("update", k, p)
       \/ UNCHANGED <<up, connected, pc, item, task, tables, published,
                      history>>

Upsert(a) ==
    LET k == item[a].key
        p == Stored(item[a].price)
    IN  /\ pc[a] = "upsert"
        /\ ~Refused(k)
        /\ offers' = [offers EXCEPT ![k] = p]
        /\ changes' = [changes EXCEPT ![k] = IF offers[k] = p THEN @ ELSE @ + 1]
        /\ Goto(a, "record")
        /\ UNCHANGED <<up, connected, item, pages, task, jobs, prices,
                       published, readRows, unannounced, unrecorded, orphaned>>

\* An update goes on to the next page, an import goes on as if nothing had
\* happened.
IgnoreUpsertError(a) == "record"
AfterUpsertError(a) == IF a = "update" THEN "rows" ELSE "record"

UpsertFails(a) ==
    LET spoilt == IF a = "update" THEN {} ELSE {item[a].key} IN
    /\ pc[a] = "upsert"
    /\ Refused(item[a].key) \/ "db" \in Faults
    /\ Advance(a, AfterUpsertError(a))
    /\ unannounced' = unannounced \cup spoilt
    /\ unrecorded' = unrecorded \cup spoilt
    /\ UNCHANGED <<up, connected, pages, task, tables, published, readRows,
                   changes, orphaned>>

AfterRecord(a) == IF Changed(item[a]) THEN "publish" ELSE "rows"

RecordOldPrice(i) == [key |-> i.key, price |-> Stored(i.old)]
HistoryRow(i) == [key |-> i.key, price |-> Stored(i.price)]

\* InsertPriceHistory, whose error is ignored.
InsertPriceHistory(a) ==
    LET k == item[a].key IN
    /\ pc[a] = "record"
    /\ \/ /\ ~Refused(k)
          /\ prices' = Append(prices, HistoryRow(item[a]))
          /\ UNCHANGED unrecorded
       \/ /\ Refused(k) \/ "db" \in Faults
          /\ unrecorded' = unrecorded \cup {k}
          /\ UNCHANGED prices
    /\ Advance(a, AfterRecord(a))
    /\ UNCHANGED <<up, connected, pages, task, jobs, offers, published,
                   readRows, changes, unannounced, orphaned>>

\* Publish returns an error once the connection is closed; before that a
\* message may be lost without one, for there are no confirmations.
PublishPriceChanged(a) ==
    /\ pc[a] = "publish"
    /\ \/ /\ connected
          /\ published' = Append(published, item[a])
          /\ UNCHANGED unannounced
       \/ /\ ~connected \/ "broker" \in Faults
          /\ unannounced' = unannounced \cup {item[a].key}
          /\ UNCHANGED published
    /\ Advance(a, "rows")
    /\ UNCHANGED <<up, connected, pages, task, tables, readRows, changes,
                   unrecorded, orphaned>>

-----------------------------------------------------------------------------
(* Failures.                                                               *)

ConnectionLost ==
    /\ "broker" \in Faults
    /\ up /\ connected
    /\ connected' = FALSE
    /\ UNCHANGED <<up, work, tables, published, history>>

Cut(steps) == {item[a].key : a \in {b \in Actors : pc[b] \in steps}}

\* All goroutines end where they are.
ProcessDies ==
    /\ up' = FALSE
    /\ connected' = FALSE
    /\ pc' = [a \in Actors |-> "idle"]
    /\ item' = [a \in Actors |-> NoItem]
    /\ pages' = {}
    /\ task' = {}
    /\ unannounced' = unannounced \cup Cut({"record", "publish"})
    /\ unrecorded' = unrecorded \cup Cut({"record"})
    /\ orphaned' = orphaned \cup task
    /\ UNCHANGED <<tables, published, readRows, changes>>

\* A row with too few cells: the index panics.  gin recovers from a panic of
\* a handler, nobody recovers from one of the consumer's goroutine.
ShortRow(a) ==
    /\ "shortRow" \in Faults
    /\ pc[a] = "rows"
    /\ IF a = "import" THEN ProcessDies
       ELSE /\ Goto(a, "idle")
            /\ UNCHANGED <<up, connected, item, pages, task, tables,
                           published, history>>

Crash == "crash" \in Faults /\ up /\ ProcessDies

Restart ==
    /\ ~up
    /\ up' = TRUE
    /\ connected' = TRUE
    /\ UNCHANGED <<work, tables, published, history>>

-----------------------------------------------------------------------------
RowStep(a) ==
    \/ Upsert(a)
    \/ UpsertFails(a)
    \/ InsertPriceHistory(a)
    \/ PublishPriceChanged(a)

UpdateStep ==
    \/ ListFails
    \/ ListShopComponents
    \/ \E k \in Keys : VisitPage(k)
    \/ FinishUpdate
    \/ RowStep("update")

ImportStep(a) ==
    \/ StartImport(a)
    \/ FinishImport(a)
    \/ \E k \in Keys, p \in Prices : ReadRow(a, k, p)
    \/ ShortRow(a)
    \/ RowStep(a)

Next ==
    \/ \E a \in Importers : ImportStep(a)
    \/ \E j \in Jobs : StartUpdate(j)
    \/ UpdateStep
    \/ ConnectionLost
    \/ Crash
    \/ Restart

Spec == Init /\ [][Next]_vars

(***************************************************************************)
(* The update consumer keeps running: the browser gives a page up after 90 *)
(* seconds.  Clients, messages, failures and restarts owe nothing.         *)
(***************************************************************************)
FairSpec == Spec /\ WF_vars(UpdateStep)

-----------------------------------------------------------------------------
(* Properties. *)

TypeOK ==
    /\ up \in BOOLEAN /\ connected \in BOOLEAN
    /\ pc \in [Actors -> PcState]
    /\ item \in [Actors -> Item]
    /\ pages \subseteq Keys
    /\ task \subseteq Jobs
    /\ jobs \in [Jobs -> Status]
    /\ offers \in [Keys -> Nat \cup {NoOffer}]
    /\ prices \in Seq([key : Keys, price : Nat])
    /\ published \in Seq(Item)
    /\ readRows \in Nat
    /\ changes \in [Keys -> Nat]
    /\ unannounced \subseteq Keys
    /\ unrecorded \subseteq Keys
    /\ orphaned \subseteq Jobs

EventsOf(k) == {n \in DOMAIN published : published[n].key = k}
RecordsOf(k) == {n \in DOMAIN prices : prices[n].key = k}

\* Positions are those of one offer: p is the price at the last of them.
LastPriceIs(positions, rows, p) ==
    \/ positions = {} /\ p = 0
    \/ \E n \in positions : /\ \A m \in positions : m <= n
                            /\ p = Stored(rows[n].price)

At(steps, k) == \E a \in Actors : pc[a] \in steps /\ item[a].key = k

(***************************************************************************)
(* While goroutines come one after the other at an offer, and neither      *)
(* database nor broker failed at it: the price announced last is the price *)
(* in the table, unless the announcement is still to come.                 *)
(***************************************************************************)
AnnouncedPriceCurrent ==
    \A k \in Keys \ unannounced :
        ~At({"record", "publish"}, k)
            => LastPriceIs(EventsOf(k), published, OldPrice(k))

(***************************************************************************)
(* Likewise the events of an offer make a chain: each one's old price is   *)
(* the new price of the one before, and the first one's is 0, whichever    *)
(* goroutines published them.                                              *)
(***************************************************************************)
EventsMakeChain ==
    \A k \in Keys \ unannounced : \A n \in EventsOf(k) :
        LastPriceIs({m \in EventsOf(k) : m < n}, published, published[n].old)

(***************************************************************************)
(* Likewise the last row of the price history has the price of the offer,  *)
(* unless it is still to come: what one goroutine skips after an error,    *)
(* another one does not record.                                            *)
(***************************************************************************)
HistoryFollowsOffers ==
    \A k \in Keys \ unrecorded :
        ~At({"record"}, k) => LastPriceIs(RecordsOf(k), prices, OldPrice(k))

(***************************************************************************)
(* A job is marked as running only while the consumer is at it, unless the *)
(* process died or the database refused to mark its end.                   *)
(***************************************************************************)
RunningJobHasWorker ==
    \A j \in Jobs : jobs[j] = "running" => j \in task \cup orphaned

(***************************************************************************)
(* Whatever pages and statements fail, a running job comes to an end, or   *)
(* its end could not be recorded.                                          *)
(***************************************************************************)
JobEnds ==
    \A j \in Jobs :
        jobs[j] = "running" ~> (jobs[j] # "running" \/ j \in orphaned)

(***************************************************************************)
(* What the comment in ImportPriceList says: "if it changed - publish".    *)
(* Asked when all work is done: there is an event for every change of an   *)
(* offer's price.                                                          *)
(***************************************************************************)
EveryChangePublished ==
    (\A a \in Actors : pc[a] = "idle")
        => \A k \in Keys : Cardinality(EventsOf(k)) >= changes[k]
=============================================================================
