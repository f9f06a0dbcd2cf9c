# A verification project for StartupPCConfigurator

TLA+ models of the PC configurator's services, the TLC configurations that
check them on small instances, and theorems about them checked by TLAPS. Every
definition is translated from the source; `PROJECT.json` names, for each one,
the lines it stands for ("map"). Paths below are relative to `src/`.

## 1. The system

Four Go services behind a gateway, an importer, a React client, one Postgres
database, one Redis, one RabbitMQ. No Go process keeps state of its own that outlives a
request or a message: what the system knows is in tables, in Redis counters and
in queues, and no transaction spans a read and the write that follows it, except
for stored configurations. That is where the interesting behaviour is.

```
 web client ── gateway ──┬── auth-service ───────── users
                         ├── config-service ─────── components, configurations, use cases
                         ├── aggregator-service ─── offers, price_history, update_jobs
                         │        │  ▲
   importer ── price_list_import ─┘  └ shop_update (published by nobody in src/)
                         │        └─ price.changed ──┐
                         └── notifications-service ──┴ subscriptions, notifications, Redis
```

### Components

| Component | State | Operations that change it | Made hard by |
|---|---|---|---|
| **notifications-service** (`internal/notifications`, `cmd/notifications-service`) | tables `subscriptions`, `notifications`; Redis `notifications:unread:<user>` | consumer of `price.changed`: look up subscribers, then INSERT and INCR for each; HTTP subscribe, unsubscribe, mark as read (UPDATE, then DEL) | goroutine against HTTP; two stores; autoAck; lost connection |
| **auth-service** (`internal/auth`, `cmd/auth-service`) | table `users` | register, login, refresh, forgot, reset, verify, logout, delete | read-modify-write of whole rows, with bcrypt between; token expiry; a step that fails half way |
| **aggregator: offers** (`internal/aggregator`, `cmd/aggregator-service`) | tables `offers`, `price_history`, `update_jobs` | import of a price list (queue or upload), update of a shop (queue) | three kinds of goroutines on one row; ignored errors; publications without confirmation |
| **aggregator: page parsers** (`internal/aggregator/parser`) | none | drive a browser over foreign pages | input only |
| **importer** (`cmd/importer`) | directory of price lists | rename to `processed/`, publish | crash between the two; equal names; a path that is opened long after it was published |
| **config-service: stored configurations** (`internal/config/repository`) | `configurations`, `configuration_components` | create, update, delete, list; the cascade from `users` | transactions at READ COMMITTED, row locks taken in two orders, ignored commit |
| **config-service: compatibility and generation** (`usecase/compatibility.go`, `usecase/service.go`) | none | pure functions: the check of a build, the choice of what fits | two sets of rules that should agree; one component kept per category |
| **config-service: use cases, predefined builds** (`usecase/service.go`, `usecase/rules`) | none | pure functions; the predefined builds are data | boundary conditions of rules |
| **gateway, JWT middleware** (`cmd/gateway`, `pkg/middleware`) | none | route, check a signature | - |
| **web client** (`vite-project`) | component state | fetch lists, mark as read | answers out of order, parallel requests |
| **schema** (`db/init/init.sql`) | keys, unique constraints, cascades | - | what the services rely on |
| **deployment** (`docker-compose.yml`) | - | - | no restart policy |

### What makes each of them correct

- *notifications-service*: a change reaches everybody who is subscribed and
  nobody who never was; in order and once; failures for one user do not cost
  another; the counter is about the user's own rows and requests.
- *auth-service*: passwords, sessions and reset tokens that were replaced stay
  replaced; tokens admit only the account, purpose and time they were drawn for;
  one account per email; a deleted account stays deleted.
- *offers*: the price in the table, the last row of the history and the price
  announced last agree; events of an offer form a chain; running jobs end.
- *importer*: the newest list of a name is the one that is imported last.
- *stored configurations*: every request is one atomic operation by the owner, or
  nothing; what is stored is what one request sent; no two requests wait for each
  other for ever.
- *compatibility*: what is offered as compatible is not refused when it is saved.
- *web client*: a component is chosen for its own category and fits what it was
  offered beside, however late the list came that it was picked from.
- *web client, notifications*: nothing is marked read that its owner has not had on the
  screen; turning pages misses no row whose component the catalogue has.
- *all together*: whoever is subscribed to a component when the subscribers of a change
  are looked up comes to know the new price.

### Interactions

- aggregator → notifications: message `price.changed` (component, shop, old and
  new price), durable queue, messages not persistent, autoAck.
- importer → aggregator: message with the path of a file in a shared directory.
- web client → config-service: the components chosen so far, one per category, and
  the category to choose from; then, as one request, the whole build.
- auth → notifications, config: `DELETE FROM users` cascades to subscriptions and
  configurations; access tokens stay valid until they expire.
- gateway → all: HTTP. The gateway adds no state.
- Nothing in `src/` publishes `shop_update`, inserts into `update_jobs`, or
  creates `shop_components`. These are treated as an environment that may do so
  or not: a message may arrive for any job, and the query over `shop_components`
  may fail.

The hazards of this code, each at its line, with the properties that cover it or
the reason why none does yet, are in `PROJECT.json` ("hazards").

## 2. The modules

| Module | Role |
|---|---|
| `Mailboxes` | what notifications-service promises: changes in order, whom each goes to settled at once |
| `Notifications` | notifications-service with its queue, both tables and the counter; implements `Mailboxes` |
| `NotificationsProofs` | theorems about it, the refinement among them |
| `MCNotifications` + 3 cfgs | instances for TLC |
| `NotificationFeed` | who reads the notifications: bell and popup of the web client, and a reader who turns pages (INSTANCE of `Notifications`) |
| `FeedProofs` | theorems about it, and that its part of the service is `Notifications` (INSTANCE of `NotificationsProofs`) |
| `MCNotificationFeed` + cfg | instance for TLC |
| `Accounts` | what auth-service promises of accounts: requests that take effect at once |
| `Auth` | auth-service and table `users`; implements `Accounts` |
| `AuthProofs` | theorems about it |
| `SessionProofs` | theorems about what may never come back, tokens and sessions, and the refinement of `Accounts` (EXTENDS `AuthProofs`) |
| `MCAuth` + 3 cfgs | instances for TLC |
| `Offers` | aggregator-service: imports, uploads, updates and their tables |
| `OffersProofs` | theorems about it |
| `MCOffers` + 2 cfgs | instances for TLC |
| `SavedConfigurations` | what config-service promises of stored configurations: atomic operations |
| `ConfigStore` | the statements that implement them, with row locks, and the cascade from `users` |
| `ConfigStoreProofs` | theorems about it, the refinement and the listings among them |
| `MCConfigStore` + cfg | instance for TLC |
| `Compatibility` | the two sets of rules, as operators: `CheckCompatibility`, and what is offered beside a build |
| `Configurator` | the web client's page that uses them (EXTENDS `Compatibility`) |
| `ConfiguratorProofs` | theorems about both |
| `MCConfigurator` + cfg | instance for TLC |
| `PriceLists` | importer, its directory and its queue, up to the rows of a list |
| `PriceAlerts` | `PriceLists`, `Offers` and `Notifications` as one system (three INSTANCEs) |
| `PriceAlertsProofs` | theorems about it, and about the services as parts of it (INSTANCEs of `OffersProofs` and `NotificationsProofs`) |
| `MCPriceAlerts` + cfg | instance for TLC |

The convention is the same in all of them. An action is one SQL statement, one
Redis command, one publication or one step of the broker, with the local
computation before or after it: between these, goroutines interleave. "pc" is
the next statement of a goroutine, and its copy of a row is a variable of its
own, because working on stale copies is what this code does. Variables marked
*history* are read by no guard of the program: they record what properties need
to compare. Faults are switched on by the constant `Faults`, so that a run can
ask for some of them; in `Auth` a request may always be abandoned.

A definition that is not used by the model (`IncrErrorReturns`,
`CounterDecremented`, `UpsertedUsers`, `IgnoreUpsertError` and the like, each
before the definition it is a variant of) is a plausible bug of that line. It
shows that a property can fail: `PROJECT.json` ("mutants") pairs each property
with the variant that breaks it.

### Notifications

| Model | Code |
|---|---|
| `published`, `delivered`, `taken` | queue `price.changed`: an event is a position; the broker has pushed those up to `delivered`, the client's buffer has given up those up to `taken` |
| `pc`, `current`, `todo`, `uncounted` | `range msgs` in `rabbitmq/consumer.go`, the loop in `HandlePriceChange` |
| `subs`, `notifs`, `unread` | the two tables and the Redis keys |
| `marking` | `MarkAsRead` requests between UPDATE and DEL |
| `TakeMessage`, `LeaveLoop` | the `for` over deliveries and its end when the channel is closed |
| `LookUpSubscribers`, `CreateNotification`, `IncrementUnread`, `FinishMessage` | `HandlePriceChange` with each error path |
| `Subscribe`, `Unsubscribe`, `MarkAsRead`, `ResetUnread` | handlers and repository statements |
| `DeleteUser` | auth-service's DELETE with the cascade of `init.sql` |
| `ConnectionLost`, `Crash`, `Restart` | loss of the AMQP connection with the client's buffer, end and start of the process |

`Mailboxes` has no queue, loop, connection or counter. It takes the next change and
settles in the same step whom it goes to (`Take`, implemented by the SELECT of
subscribers: `at` is `current`, or the one before during that lookup), sends it to one of
them at a time (`Send`, the INSERT; `to` is `todo`, `box` the pairs of user and event
in the table), and may lose what is at hand (`Lose`) only if database errors,
lost connections or crashes are among the faults. So errors of Redis cost nobody a
notification, and requests, crashes and restarts never make a second one.

Data left out: texts of notifications, prices, timestamps. The requests that only
read are in `NotificationFeed`.

### NotificationFeed

| Model | Code |
|---|---|
| `token`, `signedIn` | `authToken` in local storage, which tabs share; `isAuthenticated` |
| `open`, `list` | `showNotifications`, `notifications` in `Header.tsx` |
| `lists` | requests of `GET /notifications`: asked, then answered; each has a slot, so that answers overtake each other |
| `SelectPage`, `RowsOf` | the SELECT of `ListNotifications` with its JOIN, ORDER BY, LIMIT and OFFSET |
| `Catalogue`, `Misnamed` | ids that have a row in `components`; ids that are no integer |
| `CastFails`, `Refused` | `n.component_id::integer` fails; no user in the token, or that |
| `ClickBell`, `ShowList`, `ListFails` | `handleNotificationClick` before and after its `await` |
| `CloseBell`, `MarkAsRead`, `ResetUnread`, `MarkFails` | `handleNotificationsClose`: the requests of `Promise.all` one by one (`sent`, then `updated`) |
| `LogIn`, `LogOut`, `OtherTab` | `AuthContext.tsx`, and the same in another tab |
| `StartReading`, `TurnPage`, `AskAgain` | a reader of the interface in `configs/config.yaml`: page after page until one is not full |

`notifications.component_id` is TEXT and refers to no table. Its value comes from the first
cell of a price list's row (`ImportPriceList` publishes it even if the upsert failed on the
foreign key of `offers`), so a notification may be of a component that the catalogue does
not have, or whose id is no integer. The query `JOIN components c ON c.id =
n.component_id::integer` (`notification_repository.go:105`) leaves the first kind out of
every page, though the total counts it, and fails as a whole for a user who has a row
of the second kind: all of the user's rows are sorted, and the cast is made for each. The popup is
then empty, and a reader gets no page. Nothing in `src/` writes `components` after
the seed, hence `Catalogue` is a constant.

The service is `Notifications` without faults: the composition adds the client's
steps to `MarkAsRead` and `ResetUnread`, and the table and the counter are those the
consumer writes. The page is loaded once. A reader whose request failed asks for the
same page again (`AskAgain`); which error it was makes no difference, so the model
lets it drop an answer.

### Auth

`accounts` and `users` are the table; `local[w]` is a worker's copy of a row and
`pc[w]` its next statement. `Loaded` and `LoadedForRefresh` are the two scans of
the repository, which differ in the columns they read; `Written` is `Update`,
which writes every column but those of the verification. So login is
`LoginRead` (find, compare the password, draw the token into the copy) and
`LoginWrite`; likewise refresh, forgot and verify. Reset is `ResetRead`,
`UpdatePassword`, `DropResetToken`: three statements, none in a transaction.
`Logout` and `DeleteAccount` are one statement each. `Abandon` is a database
error or the end of the process between any two of them.

bcrypt is the password itself; a token is its number in the order of drawing;
an account is its number in the order of creation (the UUIDs of the code are only ever
compared);
`Empty` (the empty string) and `Null` are kept apart from tokens and from each
other because the code loads, stores and compares both. Time is a clock, and 0
is Go's zero time. SMTP has no state: a mail that fails leaves the row as it is,
which is the outcome of the action.

`Accounts` has no copies, statements or workers. A request takes effect on the account
as it is, changes only its own columns, and draws a token that never was in an account
before. `Auth` maps a row to its `Credentials` (the columns of the verification left
out, an absent token and an empty one made equal), and `given` to the tokens drawn
that no request still holds in its copy (`InHand`): writing the copy back gives the
token, dying before that wastes it (`Waste`). So the write-back of the whole row is the
abstract request, and the read before it a stutter. Where requests overlap, the step
is `Meet`, which promises the email of that account and nothing else of it; a
deletion ends that. `SetPassword` and `DropReset` are two steps in `Accounts` too, for
the code may die between them and a reset token is then still good.

### Offers

`pc[a]` and `item[a]` are a goroutine and the row it is at: `rows` → (read the
old price) → `upsert` → `record` → `publish` → `rows`. `ReadRow` is a line of a
price list, `VisitPage` a page of an update; both go through `GetOfferPrice`. An
upload and the import consumer differ from the update consumer exactly where the
code does: an import goes on after a failed upsert, an update does not
(`AfterUpsertError`); a panic on a short row ends an upload's request but the
whole process when it happens in the consumer (`ShortRow`). `StartUpdate`,
`ListFails`, `FinishUpdate` move the status of a job. `Stored` is what
`NUMERIC(12,2)` makes of a price, `Changed` is the comparison of floats that
have not been rounded, and 0 is at once an unreadable cell and a missing offer:
the properties have to survive both.

### SavedConfigurations and ConfigStore

| Model | Code |
|---|---|
| `rows`, `parts`, `accounts` | what is committed in `configurations`, `configuration_components`, `users` |
| `pc`, `req`, `target` | a goroutine, the request it serves and the configuration it is about |
| `seen`, `todo`, `holds`, `wiped` | its transaction: the snapshot of the statement at work, the rows it has still to visit, the configurations it has locked, the component rows it deleted |
| `InsertConfiguration`, `InsertParts` | `CreateConfiguration` |
| `Check`, `UpdateConfiguration`, `LookForParts`, `DeleteParts`, `InsertParts`, `Recheck` | `UpdateConfiguration`, statement by statement |
| `Check`, `LookForParts`, `DeleteParts`, `RemoveRow`, cascade | `DeleteConfiguration` |
| `LockUser`, `RemoveRow`, cascade | `DELETE FROM users` of auth-service with `ON DELETE CASCADE` |
| `ListRows`, `ListParts` | `GetUserConfigurations`: one query, then one more per row |
| `PartsCutShort`, `RowsCutShort` | the ends of its two loops by an error: `compRows.Err()` and `rows.Err()` are not asked, so what came before is the answer |
| `Commit`, `CommitFails` | the deferred function, which ignores the result of `Commit` |
| `Waits`, `WaitsInCycle`, `CancelDeadlocked` | PostgreSQL: locks of rows and of foreign keys, the deadlock detector |

A statement sees what was committed when it began, waits for the rows it has to
lock, and goes on with what it then finds: this is READ COMMITTED, the default
that the code does not change. So the DELETE of components is two steps, its
snapshot and its work, and an update of a row that was deleted meanwhile updates
no row without an error. The uncommitted changes are not in `rows` and `parts`
but in `holds`, `wiped` and `Stored`, and become visible in `Commit`.

The rows that one request inserts into `configuration_components` stand as one,
for no statement that writes tells them apart; a listing does, and shows a component for each
of `Places`, or some of them when it is cut short. The client is not told that it was: the
value "part" of `Entry.read` is known to the property only. Two of the lists of
components that are offered are read without `rows.Err()` as well (`repo.go:521`, `590`, and so are
use cases and brands, `449`, `472`); `Configurator` covers a list cut short, for there a user
picks any one of the list, or none. A configuration's name stands for the request
that gave it. Components are only read, and nothing in `src/` writes them after
the seed, so that the check of a build is a free choice (`Refuse`).

In `SavedConfigurations` a request takes effect in one step. `ConfigStore` maps
its committed tables to `book` and its log of commits to `done`; every statement
but the commit is a stutter.

### Compatibility and Configurator

A component is a category, a brand and a function from some of the keys the code
reads to values. `Conflict` is the disjunction of the checks of
`CheckCompatibility`, one operator each; `Same` compares as Go compares two
`interface{}`, so that two missing sockets are equal. `Offered` is
`FetchCompatibleComponentsMulti`: the pool by category, brand and use case, then
the demands that the chosen components make on keys `allowedByCategory` knows.
Demands on other keys are dropped, as the repository drops them: those on
coolers, and the board's on the case. The two never call each other, and
differ: the SSD's form factor is demanded by the slots of the SSD already chosen,
`hddMatches` wants exactly "SATA" where the seed data has "SATA III", a case is
not asked for drive bays when a use case lists M.2 drives only.

`Configurator` is the page: `fetches` are the requests of the effect in
`ComponentList.tsx` whose answers are due. They are neither cancelled nor
numbered, hence `ReceiveCompatible`, `ReceiveAll` and `FetchFails` take any of
them. `FetchedForTab` is what the two effects of that file do together: a change
of category fetches with the old filters and, if these were set, again. A list is
known by the request it answers, since the catalogue does not change.

### PriceLists and PriceAlerts

`PriceLists` has the directory (`inbox`), the files moved (`processed`), runs of
the importer between `ReadDir`, `MoveFile` and `PublishPath`, the queue, and the
consumer that opens a path when its message comes to its turn. `PriceAlerts` is
the conjunction of the three services' actions: `ImportRow` reads the next row
of the list at hand and is `ReadRow` of `Offers`; a publication of `Offers`
appends to `published`, which is also what `Notifications` delivers from, with the
routing key for its event (`Routed`). A failure of the aggregator takes its
consumer's buffer and list along.

`seen[u]` is the price of each offer that the server last gave user `u`, in the order of the
database: read for the page (`FetchOffers`: `fetchOffers` and `fetchMinPrice` in
`ComponentCard.tsx`, the like in `SavedComponentCard.tsx`), or written into a notification. The button
on the page subscribes (`Subscribe`, `handleSubscription`) at any later time and asks for
nothing again. So a change that is stored and looked up between the two requests is told to
nobody, without any failure: `passed` has the users past whom a change went that was news
to them, until they are given a price of that offer again.

## 3. The runs

| Run | Bounds | States | Shows |
|---|---|---|---|
| `notifications` | 2 users, 1 component, 2 events, 1 mark-as-read per user; errors of Postgres and Redis, lost connection, crash | 603 k | `TypeOK`, `NotificationsInOrder`, `OnlySubscribersNotified`, `CounterCovered`, `OwnRequestsOnly`, `ImplementsMailboxes`, `SubscriberNotified` |
| `notifications_unread` | no fault at all | fails in 11 states | finding 1 |
| `notifications_connection` | only the connection may be lost | fails | finding 2 |
| `auth` | 2 workers, 1 email, 2 passwords, 2 accounts, 2 tokens, clock to 3 | 572 k | `TypeOK`, `TokenIntegrity`, `OneAccountPerEmail`, `PasswordIsLastSet`, `SpentTokensDead`, `LogoutEndsSession`, `AdmittedByLiveToken`, `DeletedStaysDeleted`, `ImplementsAccounts` |
| `auth_reset_reverted` | 1 account, 3 tokens | fails in 9 states | finding 3 |
| `auth_verification_lost` | the same | fails in 5 states | finding 4 |
| `offers` | 3 goroutines, 2 components of which 1 is known, 1 shop, prices 0 and 14, 3 rows; all faults | 561 k | `TypeOK`, `AnnouncedPriceCurrent`, `EventsMakeChain`, `HistoryFollowsOffers`, `RunningJobHasWorker`, `JobEnds` |
| `offers_change_missed` | 1 component, prices 10 and 20, 3 rows; no fault | fails in 16 states | finding 5 |
| `config_store` | 2 workers, 2 users, 4 requests out of 7 kinds, 2 configurations, 2 places; failing statements and commits, listings cut short | 733 k | `TypeOK`, `SavedTogether`, `ListedFromOneSave`, `SuccessIsLasting`, `ImplementsSaved`, `RequestEnds` |
| `configurator` | 6 clicks, 2 fetches at once, 4 categories, 5 components, 1 use case, 1 brand | 5 M | `TypeOK`, `FiledUnderOwnCategory`, `OfferedFits`, `ScenarioMemoryFits`, `ListsFollowView` |
| `price_alerts` | 2 lists of 1 row under 1 name, 2 runs of the importer, 1 user, 1 offer, prices 14 and 20; 1 failure of a process or connection, besides failing statements and publications | 189 k | `TypeOK`, `NewestListOpened`, `SubscriberKnowsPrice`, `SubscriberLearnsPrice` |
| `feed` | 1 user, 2 components, 1 of them in the catalogue, 2 events, pages of 1; the popup with 1 list request and 1 closing at a time, 1 reader; failing requests, another tab | 1.5 M | `TypeOK`, `ReadOnlyIfSeen`, `PagingMissesNone` |

Why the bounds are enough to meet the interesting cases:

- *Notifications.* Two users are needed for a loop that has a user behind it and
  one before it; two events for order, for a message in the buffer while another
  is handled, and for one that survives a crash in the queue. One request per user
  in flight is enough to put DEL between INSERT and INCR. A second component would only
  give subscriptions that do not match the event: the theorems hold for any number.
- *Auth.* Two workers are the smallest interleaving, and already break what the
  program says of resets (finding 3). One email and two accounts
  give a registration after a deletion and the race of two registrations. With two
  tokens, one can be superseded by the other; lifetimes of 1 and a clock to 3 give
  a token before, at and after its expiry. The violation runs need a third token
  and no second account.
- *Offers.* Three rows give an offer written, overtaken and written again by three
  goroutines. The unknown component meets the foreign key. Price 14 thousandths is
  stored as 10: every repetition of it is announced as a change, and 0 is the
  unreadable cell. Prices 10 and 20 are exact, so the last run's counterexample owes
  nothing to rounding.
- *ConfigStore.* Four requests are a creation and three more that meet on it: two
  updates and a deletion, an update with an empty list (for which alone the repeated
  SELECT matters: the foreign key stops the others), a listing, another user's
  update, the deletion of the account. Two workers already wait for each other:
  an update holds the row and waits for component rows that a deletion has
  deleted, which waits for the row. Two configurations let a cascade visit more
  than one row, and let an id be given after a rolled-back creation. Two places are
  enough for a list of components of which one is missing.
- *Configurator.* Six clicks suffice to choose three components, change the category
  or a filter in between and come back while old answers are still due. The second
  board fits neither the processor nor the memory, and the power supply is too weak
  once the processor is chosen: every rule that the properties rest on has a
  component that breaks it. Cases, drives and video cards are left to the theorems,
  which hold for any catalogue.
- *PriceAlerts.* Two lists of one name overwrite each other in both directories, two
  runs of the importer overlap, and one failure can fall anywhere, at the importer, at either
  service or at a connection. Price 14 is stored rounded, so that a subscriber is
  told a price that the table does not have; the property compares what it rounds to. The
  page is read and the button pressed at any point before, between and after two changes.
- *NotificationFeed.* Two rows of one user tell a mark of one from a mark of all.
  Pages of one row make every row a boundary, and the popup's marks and an insertion
  fall between two pages. Of the two components the one is on the pages, the other is not, and
  shifts no row. Ids that are no integer are left to the theorems: with a third component TLC has 3.5 M states, too many for a run that is
  repeated with every change, and a page that fails at any moment is among the mishaps. The other tab takes the token away between opening,
  answer and closing, and gives it back. Two openings that overtake each other, and
  a list of one user closed in the session of another, are beyond TLC beside a
  reader (more than 6 M states); the theorems hold for any number of slots and users.

Deadlock is checked in the runs of `Notifications`, `NotificationFeed`, `Auth` and `Offers`, where the
actions of clients and the environment remain possible, so that no state is a dead
end. It is not checked (`CHECK_DEADLOCK FALSE`) in the three others, where the
system really stops: in `ConfigStore` when all requests are answered, in
`Configurator` when the user has clicked enough and all answers are there, in
`PriceAlerts` when all lists are imported and all events handled. That no
request of `ConfigStore` waits for ever is `RequestEnds`.

### Properties with a proviso

`PasswordIsLastSet`, `SpentTokensDead` and `LogoutEndsSession` speak of accounts
on which no two requests were ever at work at once, and `ImplementsAccounts` promises
nothing but the email of the others; `AnnouncedPriceCurrent`,
`EventsMakeChain` and `HistoryFollowsOffers` of offers at which goroutines came
one after the other and no step was cut short. The code has no lock and no
transaction there, so without the proviso they are false, and findings 3 and 5
show how. With it they are what remains true: any order of requests, any one of
them dying between two statements, with no row ever going back. For offers the
proviso is per kind of damage (`unannounced`, `unrecorded`), so that a failed
history row does not excuse a wrong announcement.

`SubscriberKnowsPrice` and `SubscriberLearnsPrice` also except the users past whom a change
went (`passed`, above): this window is in the code, and what the properties show is that it
is the only one. `PagingMissesNone` speaks of the rows whose component the catalogue has.
The description of `GET /notifications` says that it returns all notifications
(`configs/config.yaml:532`), which is not so of the others; the model has both ways in which
they are missing, `RowsOf` and `CastFails`, and the property's comment says so.

`SuccessIsLasting` excepts the requests whose commit failed (`lost`), which the code
answers with success; `NewestListOpened` the names whose last list or message was lost
on the way (`lost`); `SubscriberKnowsPrice` and `SubscriberLearnsPrice` the offers with
an unannounced price and the users whom a failure of notifications-service may
have cost a notification (`missed`). `OfferedFits` speaks of the components that
were already chosen when the offer was asked for: of those chosen later, the
offer for them is in charge. `ListedFromOneSave` does not say that name and
components of a listed configuration come from one save, for they need not: the
components may be newer. It says that all the components listed with a name are of one
save, and none of that save's missing unless the connection broke while they were read.

### Fairness

- `Notifications!FairSpec`: weak fairness of `Deliver` (a connected broker pushes
  what it holds) and of `ConsumerStep` (the goroutine runs; database and Redis
  calls return, with a result or an error).
- `Offers!FairSpec`: weak fairness of `UpdateStep`: the update consumer runs, and
  a page is given up after 90 s (`parser/dns/parser.go:44`).
- `ConfigStore!FairSpec`: weak fairness of every worker's next statement when it need not
  wait, and of the deadlock detector.
- `PriceAlerts!FairSpec`: weak fairness of the steps of a row in the aggregator and of
  delivery and the consumer of notifications-service, as in the two modules.

Nothing is assumed of users, of messages still to be published, of faults, nor
that a process which died is started again: `docker-compose.yml` has no restart
policy. So `JobEnds` allows for a job whose process died (`orphaned`), and
`SubscriberNotified` for a process that died or lost its connection (`~connected`).

### Findings

1. **The unread counter is not the number of unread notifications**
   (`usecase/notification_usecase.go:114`). Reading one notification deletes the
   whole counter, and may do so between INSERT and INCR.
2. **After a lost AMQP connection nobody is notified any more**
   (`rabbitmq/consumer.go:15`). The loop ends without an error and the process lives on.
3. **A password reset can be undone by a login** (`repository/auth.go:205`). `Update`
   writes back every column of a row read before.
4. **A verified email is never recorded** (`service/auth.go:285`). `Update` does not write
   the columns that were changed.
5. **A price change can go unannounced** (`usecase/offers_usecase.go:97`). An import that read
   10, is overtaken by 20, and writes 10 compares with what it read.

Each is the run of that name; its properties state what a comment or a reply of the
program says.

## 4. The proofs

All theorems hold for every value of the constants that satisfies the module's
named assumption (`NotificationsAssumption`, `AuthAssumption`,
`OffersAssumption`, `ConfigStoreAssumption`, `CompatibilityAssumption`,
`CatalogueAssumption`, `ConfiguratorAssumption`, `PriceAlertsAssumption`,
`NotificationFeedAssumption`): bounds are natural numbers, faults are among those known,
lifetimes are positive, a page has at least one row, known components are components, the catalogue is of components, and ids that are no integer are not in it, the sets a default is
chosen from are not empty, only updates carry an empty list, components have specs
of the shape the code reads, processors have a socket and boards a PCIe version and an M.2
slot (as in the seed data), use cases name a type of memory (as in `rules.go`), the mark for
"no list yet" (`Nothing`) is not a request, names of files are finitely
many numbers (their order is that of `os.ReadDir`), prices are natural numbers, there is
a component and a shop for a price list to name. Sets of users,
workers, components, shops and jobs may be of any size, infinite ones included.

| Theorem | States | By |
|---|---|---|
| `NotificationsProofs!TypeCorrect` | `TypeOK` | itself inductive |
| `InOrder` | `NotificationsInOrder` | `OrderInv` |
| `SubscribersOnly` | `OnlySubscribersNotified` | `OrderInv`, `EligibleInv` |
| `CounterNeverAhead` | `CounterCovered` | `CountInv` |
| `OnlyByOwnRequests` | `OwnRequestsOnly` | `TypeOK`, step by step |
| `MailboxesImplemented` | `ImplementsMailboxes`: `Spec` implements `Mailboxes!Spec` | `OrderInv`, `SendInv`, one step per action |
| `AuthProofs!TypeCorrect` | `TypeOK` | itself inductive |
| `TokensIntact` | `TokenIntegrity` | `TokenInv` |
| `LiveTokensOnly` | `AdmittedByLiveToken` | `TokenInv` |
| `PasswordNeverReverted`, `EmailsUnique` | `PasswordIsLastSet`, `OneAccountPerEmail` | `WorkInv` |
| `DeletedForGood` | `DeletedStaysDeleted` | `TypeOK`, step by step |
| `SessionProofs!DeadTokensStayDead`, `LogoutIsFinal` | `SpentTokensDead`, `LogoutEndsSession` | `SessionInv` |
| `AccountsImplemented` | `ImplementsAccounts`: `Spec` implements `Accounts!Spec` | `WorkInv`, `HandInv`, `CopyInv`, one step per action |
| `OffersProofs!TypeCorrect` | `TypeOK` | itself inductive |
| `NoForgottenJob` | `RunningJobHasWorker` | `JobInv` |
| `AnnouncementsUpToDate`, `EventsChained` | `AnnouncedPriceCurrent`, `EventsMakeChain` | `AnnouncedInv` |
| `HistoryUpToDate` | `HistoryFollowsOffers` | `RecordedInv` |
| `ConfigStoreProofs!TypeCorrect`, `SavedTogetherAlways`, `SuccessIsLastingAlways` | `TypeOK`, `SavedTogether`, `SuccessIsLasting` | `Inv` of that module |
| `SavedImplemented` | `ImplementsSaved`: `Spec` implements `SavedConfigurations!Spec` | `Inv`, one step per action |
| `ListedFromOneSaveAlways` | `ListedFromOneSave` | `ListingInv` |
| `FeedProofs!TypeCorrect`, `ReadOnlyIfSeenAlways` | `TypeOK`, `ReadOnlyIfSeen` | `FeedInv` |
| `PagingMissesNoneAlways` | `PagingMissesNone` | `PagingInv` |
| `FeedProofs!ServiceRuns` | `Spec => Service!Spec`: popups, tabs and readers make the service take no step `Notifications` does not have | `FeedInv` |
| `OfferAvoidsConflicts` | a component offered beside a build has none of the conflicts its offer avoids | the definitions, one lemma per category |
| `PruningLosesNothing` | `GenerateConfigurations` loses no build by giving up partial ones | `ConflictRemains` |
| `ConfiguratorProofs!TypeCorrect`, `FiledAlways`, `OfferedFitsAlways`, `MemoryFitsAlways` | `TypeOK`, `FiledUnderOwnCategory`, `OfferedFits`, `ScenarioMemoryFits` | `Inv` of that module |
| `ListsFollowViewAlways` | `ListsFollowView` | `FollowInv` |
| `PriceAlertsProofs!NewestListOpenedAlways` | `NewestListOpened` | `ListInv` |
| `SubscriberKnowsPriceAlways` | `SubscriberKnowsPrice` | `AlertInv` |
| `ServicesRun` | `Spec => Aggregator!Spec /\ Notifier!Spec` | every action of the whole is a step or a stutter of each |
| `PromisesKept` | the seven promises of `Offers` and `Notifications` (three of offers, three of notifications, `ImplementsMailboxes`) in the whole | `ServicesRun` and the theorems of the services |
| `PriceAlertsProofs!TypeCorrect` | `TypeOK` | `TypeInv` |

Why the invariants have to be stronger than the properties:

- `OrderInv`: that a table is in order says nothing of the next INSERT. It is added
  that no row is of an event beyond `taken`, and that none of the users still to come
  in the loop has a row of the current event. Automatic acknowledgement is what
  keeps this across crashes: an event handled in part never comes again.
- `EligibleInv`: who is subscribed while an event waits is on record as eligible, and
  the snapshot the loop works from contains only eligible users, though
  subscriptions change during the loop.
- `SendInv`: between two events nobody is left to send to, so `Take` finds `to` empty.
  When nothing that loses may happen, the event at hand is the last that left the buffer,
  so that taking the next one from it is no step of a mailbox. That an INSERT makes a
  new pair, and an UPDATE opens one of the user's own, is `OrderInv`.
- `CountInv`: an increment is outstanding only between INSERT and INCR.
- `TokenInv`: a token is followed from the draw into a copy, through the row it is
  written to, into later copies. Beside it an absent token has expiry 0: this is why
  an empty token in a request admits nobody, and it is what makes `LiveTokensOnly`
  follow.
- `WorkInv`: on an account without overlap at most one request is at work, and its
  copy still has the password of the row; any copy to be written back has the row's
  email, which no request changes, so write-backs keep emails unique even with
  overlap.
- `SessionInv`: on an account without overlap neither the row nor the copy of the one
  request at work holds a dead token, and the token that an exchange is about to
  retire is not the one it is about to write: a drawn token is fresh. A token tells
  whose it is and what it is for (`TokenInv`), so retiring it touches no other
  account and no other column. After a logout the row has expiry 0, and so has
  any copy read since, which is why no exchange begins; an id without an account
  has a blank row.
- `HandInv`: what a request has drawn and not written is in no other copy, and no
  token expires later than its lifetime from now. So a token that is written has not been
  given before, whoever drew one meanwhile.
- `CopyInv`: the columns that a request is about to write back unchanged are, on an
  account without overlap, those the row has now. That is what makes the
  write-back of a row no more than the request; for a refresh it adds that there is
  still a session to renew, for a reset that the reset is still asked for. A
  request that enters beside another makes the account overlapped and owes nothing.
- `AnnouncedInv`: for an offer, three numbers are tied together for each point of the
  goroutine at work: the old price it read, the price of the last event, and the
  price stored. The chain of events and the current announcement need each other: the
  next event starts at the old price read, so it continues the chain only if the last
  announcement was current. `RecordedInv` does the same for the history. Both split
  the steps into five kinds (`StepKinds`), so that the argument is made once for
  whichever goroutine moves. `StoredTwice`: rounding a rounded price changes nothing.
- `Inv` of `ConfigStoreProofs`: the committed tables being in order says nothing of a
  transaction half way. It adds, per kind of request and statement, what the
  transaction has locked and deleted (`CreateLocal` to `CloseLocal`): an update
  holds its row from the UPDATE on and has all its components in `seen`, then in
  `wiped`, because nobody else can commit components of a row it holds (`Apart`); a
  deletion looks for components twice, the second time, in the cascade, with the row
  held. `Theirs`: an id is never given again, so the owner that was checked without a lock
  is still the owner, if there is a row at all. Each step is split in what it does
  for its worker and what it leaves to another (`Frame`), so that the pairs of
  actions need not be gone through.
- `SavedImplemented`: a commit that holds its row is the abstract operation. A deletion
  that finds nothing left is `Remove` of an id without a row, which is why `Remove`
  allows that; an update cannot get that far, because of `Recheck`.
- `ListingInv`: a row's name is of a commit in the log, and its components are what
  the last commit that touched the id put there, or none did. What a reader has
  collected is of the log, and the log only grows; hence when it reads components,
  they are of a commit not older than the name's. A list that was cut short is a part
  of that.
- `Inv` of `ConfiguratorProofs`: for each component chosen, the list it was picked from
  is remembered, it was in that list, and the request for it carried choices that were
  each filed under their own category. With `OfferAvoidsConflicts` the rest is a
  fact about rules, not about the order of answers.
- `FollowInv`: while answers come in order, the last fetch due is for the view, and so are
  the lists when none is due. Only the oldest fetch may have had its first answer, and
  then the first list is already its own.
- `FeedInv`: a mark under way names a user, and of that user's rows only those that the
  popup showed: it was open when the marks were made, and what an open popup holds of
  the session's user has been shown, whoever's list it is and however the session
  changed meanwhile. A row of another user may be among the marks; the UPDATE leaves it.
  `EventsExist` adds that a row is of an event there was, and events never change, so that
  a row keeps its component and stays in the JOIN, or out of it.
- `PagingInv`: the *rank* of a row is how many rows of its user come before it. Ranks only
  grow, so rows move to later pages and never to one that was read already: the rows
  of the start that lie before the page asked for have been read. A reader stops at a page
  that is not full, which is the last one: ranks are the numbers from 0 on, each once
  (`RankBijection`, an injection between finite sets of one size), so a page with a row
  behind it has a row for each of its numbers (`FullStretch`). No induction is needed.
- `ListInv`: the newest file of a name is either still in the directory or the one in
  `processed`, whatever was there before; a path that is or will be queued leads to a
  file; a run publishes the path it moved. So it does not matter which message of a
  name is handled last, or how many runs overlap, but only that one is handled after the
  last move.
- `AlertInv`: a price is *right* for an offer if the table has it, or if a change is stored
  and about to be announced. The last event of an offer has a right price, and what a
  user was given last is right unless that last event is still on its way to them
  (`Waiting`) or a change has gone past them (`passed`). Who reads the page in between is
  given a right price
  and may get an older event first: but then the last one is on its way as well
  (`LaterWaits`), for events are handled one at a time and in order. At the lookup a
  user is among those to be told, or the event is recorded as gone past unless it has
  the price they know: whether they subscribe before or after makes no other difference. That rounding a rounded price
  changes nothing is needed here too: a row with the old price is not announced,
  and must leave the table as it was.
- `ServicesRun`: the publication of an event is one step of both services, with a different
  name in each; a failure of the aggregator is no step of notifications-service, and
  the other way round. `AlertInv` is needed only to know that `published` is a sequence, so that
  an append to it is an append to `Routed`. The constants of the whole satisfy the
  assumptions of the services (`ServiceAssumptions`), hence their theorems can be used as
  they stand. `ServiceRuns` says the same of the web client and the service.
- `TypeInv`: the types of the services are theirs; of the directories, that a number is
  given to a file only up to `MaxLists`, the greatest number in use being at most that
  (`Greatest`, from the well-founded order of finite sets).

### Only model-checked

- `SubscriberNotified`, `JobEnds`, `RequestEnds`,
  `SubscriberLearnsPrice`: liveness under fairness is beyond the prover.

Every other safety property of the runs that pass is proved.

## 5. Not modelled

- Retries of the Redis client (a repeated INCR counts twice): a property of the
  library's configuration.
- JWT signatures, bcrypt, SMTP, HTTP routing, CORS, logging; the gateway; the deployment.
- The page parsers and the parsing of sheets: a price that comes out of them is any of
  the constant `Prices`.
- The predefined builds (`PredefinedBuilds` and `GetUseCaseBuild` in
  `config/usecase/service.go`, some 600 lines): tables of names, looked up one by one.
  The version of `GetUseCaseBuild` above them is commented out, and with it the
  only callers of `rankCached`, `ValidateCombo`, `normalize` and `hashCombo`.
- `BulkUpsertOffers`, `PublishPriceUpdated`, `GetCompatibleComponents`, `coolerMatches`: no
  code calls them. `GenerateConfigurations` has no caller either; it is modelled for the
  theorem about its pruning, and in no run.
- Search and sorting within a list, which the page does on what it has; the search
  text of `GET /config/components`, which the page does not send; letter case in
  comparisons of specs.
- Saving a build in the page is a request of `ConfigStore`; what the page shows of
  the reply is left out, and so is which status a refused request gets (`DeleteConfig`
  compares with an error the service does not return, and answers 500 for 404).
- In `PriceAlerts`, uploads and update jobs: the first race with the import consumer as
  `Offers` shows, the second read a table that nothing creates.
- The dot on the bell with its timer (`Header.tsx`), the unread count it asks for, and the
  total that `ListNotifications` returns with a page, counted in a statement before it.
- `CheckCompatibility` of a build with two components of one category, of which it keeps the
  last: the page sends one per category, and only a request written by hand more.
- Requests that only read, except listings of stored configurations and of
  notifications: profile, offers of a component, subscriptions of a list of components.
- In `NotificationFeed`, reloading the page, and a page size or number of 0 or less,
  which the client does not send (the database refuses the negative OFFSET).

## 6. The plan

Done: `Notifications` with `Mailboxes`, `Auth` with `Accounts`, `Offers`, `ConfigStore` with `SavedConfigurations`,
`Compatibility` with `Configurator`, `PriceLists` and `PriceAlerts`, `NotificationFeed`, and the proofs named
above. What is left, in this order:

1. The status of a refused request, and the mail that fails after a registration: both need
   the reply as state.
2. The retries of the Redis client, which need the server's and the client's view of
   a command apart.
3. An abstract specification of `Offers` (a board of prices, of which changes are announced
   in order at the offers nobody overtook) and the refinement of it; then the whole,
   from list to subscriber, as a refinement of what each service promises.
