---------------------------- MODULE ConfigStore ----------------------------
(***************************************************************************)
(* config-service: tables configurations and configuration_components, and *)
(* the handlers that write and read them, with the deletion of an account  *)
(* by auth-service, whose cascades reach the same rows.                    *)
(*                                                                         *)
(* Every worker is a goroutine with one request at a time.  Its            *)
(* transaction runs in PostgreSQL at READ COMMITTED: each statement sees   *)
(* what was committed when it began, waits for the row locks it needs, and *)
(* shows nothing to the others before the commit.  Rows that one request   *)
(* inserts into configuration_components are deleted together, so they     *)
(* stand as one: the pair of the configuration and the request.  Only a    *)
(* listing tells them apart, which may get some of them.                   *)
(*                                                                         *)
(* A request is known by its place in requests.  A crash of the service is *)
(* an error of the statement each transaction was at.                      *)
(***************************************************************************)
EXTENDS Integers, Sequences, FiniteSets

CONSTANTS
    Users,
    Workers,     \* goroutines at work at the same time
    Calls,       \* requests that clients may send
    Places,      \* places in a build's list of components
    Faults,      \* which of the faults below may happen
    NoRow,       \* stands for a row that is not there
    MaxIds,      \* bound: values of configurations_id_seq
    MaxRequests  \* bound: requests ever sent

\* "rows": the connection breaks while a listing reads the rows of a SELECT.
AllFaults == {"statement", "commit", "rows"}

Ids   == 1..MaxIds
Kinds == {"create", "update", "delete", "list", "close"}
Call  == [kind : Kinds, user : Users, id : Ids, bare : BOOLEAN]

RequestIds == 1..MaxRequests
Batches    == Ids \X RequestIds
Row        == [owner : Users, name : RequestIds]
Components == RequestIds \X Places
Entry      == [name : RequestIds, read : {"no", "part", "all"},
               parts : SUBSET Components]
Chapter    == [owner : Users, name : RequestIds, parts : SUBSET RequestIds]
Commits    == [by : RequestIds, on : SUBSET Ids, put : SUBSET Batches]

\* An update may carry an empty list; a creation with one is refused.
ASSUME ConfigStoreAssumption ==
    /\ MaxIds \in Nat /\ MaxRequests \in Nat
    /\ Calls \subseteq Call
    /\ \A call \in Calls : call.bare => call.kind = "update"
    /\ Faults \subseteq AllFaults
    /\ NoRow \notin Row \cup Entry \cup Chapter

VARIABLES
    accounts,  \* table users
    rows,      \* table configurations: owner, and the request that named it
    parts,     \* table configuration_components
    serial,    \* last value of configurations_id_seq
    requests,  \* requests so far
    pc,        \* the next statement of each worker
    req,       \* the request it serves
    target,    \* the configuration it is about
    seen,      \* component rows in the snapshot of its statement
    todo,      \* configurations its statement has still to visit
    holds,     \* configurations it inserted, updated or deleted
    wiped,     \* component rows it deleted
    listing,   \* what a reader has read; "part" only history tells from "all"
    log,       \* history: commits, with the rows they touched
    answered,  \* history: writing requests answered with success
    lost       \* history: requests whose commit failed unnoticed

tables  == <<accounts, rows, parts>>
tx      == <<target, seen, todo, holds, wiped>>
history == <<log, answered, lost>>
vars == <<tables, serial, requests, pc, req, tx, listing, history>>

NoListing == [id \in Ids |-> NoRow]

PcState == {"idle", "insert", "check", "update", "look", "wipe", "insertParts",
            "recheck", "lockUser", "remove", "cascade", "cascadeWipe",
            "commit", "listRows", "listParts", "listed"}

Init ==
    /\ accounts = Users
    /\ rows = [id \in Ids |-> NoRow]
    /\ parts = {}
    /\ serial = 0
    /\ requests = <<>>
    /\ pc = [w \in Workers |-> "idle"]
    /\ req = [w \in Workers |-> 0]
    /\ target = [w \in Workers |-> 0]
    /\ seen = [w \in Workers |-> {}]
    /\ todo = [w \in Workers |-> {}]
    /\ holds = [w \in Workers |-> {}]
    /\ wiped = [w \in Workers |-> {}]
    /\ listing = [w \in Workers |-> NoListing]
    /\ log = <<>>
    /\ answered = {}
    /\ lost = {}
-----------------------------------------------------------------------------
Request(w)  == requests[req[w]]
KindOf(w)   == Request(w).kind
PartsOf(id) == {n \in RequestIds : <<id, n>> \in parts}

Goto(w, label) == pc' = [pc EXCEPT ![w] = label]

\* The transaction is over, and its locks are released.
EndTransaction(w) ==
    /\ pc' = [pc EXCEPT ![w] = "idle"]
    /\ req' = [req EXCEPT ![w] = 0]
    /\ target' = [target EXCEPT ![w] = 0]
    /\ seen' = [seen EXCEPT ![w] = {}]
    /\ todo' = [todo EXCEPT ![w] = {}]
    /\ holds' = [holds EXCEPT ![w] = {}]
    /\ wiped' = [wiped EXCEPT ![w] = {}]
    /\ listing' = [listing EXCEPT ![w] = NoListing]

Rollback(w) == EndTransaction(w) /\ UNCHANGED <<tables, serial, requests, history>>

Lasting == <<tables, serial, requests, history>>

\* The workers that w waits for: they hold a row its statement must lock.
\* A new configuration locks its owner's row against deletion.
UsesAccount(v, user) ==
    /\ pc[v] # "idle" /\ Request(v).user = user
    /\ \/ KindOf(v) = "create" /\ pc[v] # "insert"
       \/ KindOf(v) = "close" /\ pc[v] # "lockUser"

Waits(w) ==
    {v \in Workers \ {w} :
       \/ pc[w] = "insert" /\ UsesAccount(v, Request(w).user) /\ KindOf(v) = "close"
       \/ pc[w] = "lockUser" /\ UsesAccount(v, Request(w).user)
       \/ pc[w] = "update" /\ target[w] \in holds[v]
       \/ pc[w] = "remove" /\ todo[w] \cap holds[v] # {}
       \/ pc[w] \in {"wipe", "cascadeWipe"} /\ seen[w] \cap wiped[v] # {}}
-----------------------------------------------------------------------------
\* A request arrives.  The token names the user, who may have no account any
\* more; nothing is read yet.
Receive(w) ==
    /\ pc[w] = "idle"
    /\ Len(requests) < MaxRequests
    /\ \E call \in Calls :
         /\ call.kind = "create" => Cardinality({n \in DOMAIN requests :
                                        requests[n].kind = "create"}) < MaxIds
         /\ requests' = Append(requests, call)
         /\ target' = [target EXCEPT ![w] =
              IF call.kind \in {"update", "delete"} THEN call.id ELSE 0]
         /\ Goto(w, CASE call.kind = "create" -> "insert"
                      [] call.kind = "list"   -> "listRows"
                      [] call.kind = "close"  -> "lockUser"
                      [] OTHER                -> "check")
    /\ req' = [req EXCEPT ![w] = Len(requests) + 1]
    /\ UNCHANGED <<tables, serial, seen, todo, holds, wiped, listing, history>>

\* The build names an unknown component or is incompatible.
Refuse(w) ==
    /\ pc[w] \in {"insert", "check"}
    /\ KindOf(w) \in {"create", "update"}
    /\ Rollback(w)

\* A statement or the scan of a row fails, or the service stops.
StatementFails(w) ==
    /\ "statement" \in Faults
    /\ pc[w] \notin {"idle", "commit"}
    /\ Rollback(w)

\* PostgreSQL cancels one of several workers that wait for each other.
WaitsInCycle(w) ==
    \E S \in SUBSET Workers :
        /\ w \in S
        /\ \A T \in SUBSET S \ {{}, S} : \E v \in T : Waits(v) \cap (S \ T) # {}
        /\ Waits(w) \cap S # {}

CancelDeadlocked(w) == WaitsInCycle(w) /\ Rollback(w)
-----------------------------------------------------------------------------
\* INSERT INTO configurations.
InsertConfiguration(w) ==
    /\ pc[w] = "insert" /\ Waits(w) = {}
    /\ IF Request(w).user \in accounts
       THEN /\ serial < MaxIds
            /\ serial' = serial + 1
            /\ target' = [target EXCEPT ![w] = serial + 1]
            /\ holds' = [holds EXCEPT ![w] = {serial + 1}]
            /\ Goto(w, "insertParts")
            /\ UNCHANGED <<tables, requests, req, seen, todo, wiped, listing, history>>
       ELSE Rollback(w)

\* A mutant: only the existence of the configuration is checked.
CheckWithoutOwner(w) ==
    /\ pc[w] = "check"
    /\ IF rows[target[w]] # NoRow
       THEN /\ Goto(w, IF KindOf(w) = "update" THEN "update" ELSE "look")
            /\ UNCHANGED <<Lasting, req, tx, listing>>
       ELSE Rollback(w)

\* A mutant: a configuration that is not there is waited for.
CheckUntilFound(w) ==
    /\ pc[w] = "check"
    /\ IF rows[target[w]] # NoRow
       THEN /\ Goto(w, IF KindOf(w) = "update" THEN "update" ELSE "look")
            /\ UNCHANGED <<Lasting, req, tx, listing>>
       ELSE UNCHANGED vars

\* SELECT ... FROM configurations: not found, forbidden, or the caller's.
Check(w) ==
    /\ pc[w] = "check"
    /\ IF rows[target[w]] # NoRow /\ rows[target[w]].owner = Request(w).user
       THEN /\ Goto(w, IF KindOf(w) = "update" THEN "update" ELSE "look")
            /\ UNCHANGED <<Lasting, req, tx, listing>>
       ELSE Rollback(w)

\* A mutant: the row is not locked before its components are replaced.
UpdateWithoutLock(w) ==
    /\ pc[w] = "update"
    /\ holds' = [holds EXCEPT ![w] = {id \in {target[w]} : rows[id] # NoRow}]
    /\ Goto(w, "look")
    /\ UNCHANGED <<Lasting, req, target, seen, todo, wiped, listing>>

\* UPDATE configurations: no row is updated when it has been deleted.
UpdateConfiguration(w) ==
    /\ pc[w] = "update" /\ Waits(w) = {}
    /\ holds' = [holds EXCEPT ![w] = {id \in {target[w]} : rows[id] # NoRow}]
    /\ Goto(w, "look")
    /\ UNCHANGED <<Lasting, req, target, seen, todo, wiped, listing>>

\* DELETE FROM configuration_components begins: it takes its snapshot.  The
\* cascade of a deleted configuration is such a statement too.
LookForParts(w) ==
    /\ pc[w] \in {"look", "cascade"}
    /\ LET ids == IF pc[w] = "look" THEN {target[w]} ELSE holds[w]
       IN  seen' = [seen EXCEPT ![w] = {b \in parts \ wiped[w] : b[1] \in ids}]
    /\ Goto(w, IF pc[w] = "look" THEN "wipe" ELSE "cascadeWipe")
    /\ UNCHANGED <<Lasting, req, target, todo, holds, wiped, listing>>

\* It deletes the rows of its snapshot that are still there.
DeleteParts(w) ==
    /\ pc[w] \in {"wipe", "cascadeWipe"} /\ Waits(w) = {}
    /\ wiped' = [wiped EXCEPT ![w] = @ \cup (seen[w] \cap parts)]
    /\ Goto(w, CASE pc[w] = "cascadeWipe"   -> "commit"
                 [] KindOf(w) = "update"    -> "insertParts"
                 [] OTHER                   -> "remove")
    /\ todo' = [todo EXCEPT ![w] =
         IF pc[w] = "wipe" /\ KindOf(w) = "delete" THEN {target[w]} ELSE {}]
    /\ UNCHANGED <<Lasting, req, target, seen, holds, listing>>

\* The component rows the transaction of w inserts.
Stored(w) ==
    IF KindOf(w) \in {"create", "update"} /\ ~Request(w).bare
    THEN {<<target[w], req[w]>>}
    ELSE {}

\* A mutant: the rows are inserted outside the transaction.
InsertOutsideTransaction(w) ==
    /\ pc[w] = "insertParts"
    /\ parts' = parts \cup Stored(w)
    /\ Goto(w, IF KindOf(w) = "create" THEN "commit" ELSE "recheck")
    /\ UNCHANGED <<accounts, rows, serial, requests, history, req, tx, listing>>

\* INSERT INTO configuration_components: the foreign key needs the row.
InsertParts(w) ==
    /\ pc[w] = "insertParts"
    /\ IF KindOf(w) = "create" \/ Request(w).bare \/ rows[target[w]] # NoRow
       THEN /\ Goto(w, IF KindOf(w) = "create" THEN "commit" ELSE "recheck")
            /\ UNCHANGED <<Lasting, req, tx, listing>>
       ELSE Rollback(w)

\* A mutant: its result is not looked at.
RecheckIgnored(w) ==
    /\ pc[w] = "recheck"
    /\ Goto(w, "commit")
    /\ UNCHANGED <<Lasting, req, tx, listing>>

\* The second SELECT of an update.
Recheck(w) ==
    /\ pc[w] = "recheck"
    /\ IF rows[target[w]] # NoRow
       THEN Goto(w, "commit") /\ UNCHANGED <<Lasting, req, tx, listing>>
       ELSE Rollback(w)

\* DELETE FROM users, and its cascade into configurations.
LockUser(w) ==
    /\ pc[w] = "lockUser" /\ Waits(w) = {}
    /\ todo' = [todo EXCEPT ![w] =
         {id \in Ids : rows[id] # NoRow /\ rows[id].owner = Request(w).user}]
    /\ Goto(w, IF todo'[w] = {} THEN "commit" ELSE "remove")
    /\ UNCHANGED <<Lasting, req, target, seen, holds, wiped, listing>>

\* DELETE FROM configurations, a row at a time.
RemoveRow(w) ==
    /\ pc[w] = "remove"
    /\ \E id \in todo[w] :
         /\ \A v \in Workers \ {w} : id \notin holds[v]
         /\ todo' = [todo EXCEPT ![w] = @ \ {id}]
         /\ holds' = [holds EXCEPT ![w] = IF rows[id] # NoRow THEN @ \cup {id} ELSE @]
         /\ Goto(w, IF todo[w] = {id} THEN "cascade" ELSE "remove")
    /\ UNCHANGED <<Lasting, req, target, seen, wiped, listing>>
-----------------------------------------------------------------------------
\* A mutant: an empty list loses the name.
RowAfterNameLost(w, id) ==
    CASE KindOf(w) = "create" -> [owner |-> Request(w).user, name |-> req[w]]
      [] KindOf(w) = "update" ->
           [rows[id] EXCEPT !.name = IF Request(w).bare THEN 0 ELSE req[w]]
      [] OTHER                -> NoRow

\* What the transaction of w leaves of row id.
RowAfter(w, id) ==
    CASE KindOf(w) = "create" -> [owner |-> Request(w).user, name |-> req[w]]
      [] KindOf(w) = "update" -> [rows[id] EXCEPT !.name = req[w]]
      [] OTHER                -> NoRow

Commit(w) ==
    /\ pc[w] = "commit"
    /\ rows' = [id \in Ids |-> IF id \in holds[w] THEN RowAfter(w, id) ELSE rows[id]]
    /\ parts' = (parts \ wiped[w]) \cup Stored(w)
    /\ accounts' = IF KindOf(w) = "close" THEN accounts \ {Request(w).user} ELSE accounts
    /\ log' = Append(log, [by |-> req[w], on |-> holds[w], put |-> Stored(w)])
    /\ answered' = answered \cup {req[w]}
    /\ EndTransaction(w)
    /\ UNCHANGED <<serial, requests, lost>>

\* The commit fails: the deferred function drops the error.  The deletion of
\* an account is one statement, and reports it.
CommitFails(w) ==
    /\ "commit" \in Faults
    /\ pc[w] = "commit"
    /\ answered' = IF KindOf(w) = "close" THEN answered ELSE answered \cup {req[w]}
    /\ lost' = lost \cup {req[w]}
    /\ EndTransaction(w)
    /\ UNCHANGED <<tables, serial, requests, log>>
-----------------------------------------------------------------------------
\* SELECT ... FROM configurations WHERE user_id = $1.
ListRows(w) ==
    /\ pc[w] = "listRows"
    /\ LET mine == {id \in Ids : rows[id] # NoRow /\ rows[id].owner = Request(w).user}
       IN  /\ listing' = [listing EXCEPT ![w] =
                [id \in Ids |-> IF id \in mine
                                THEN [name |-> rows[id].name, read |-> "no", parts |-> {}]
                                ELSE NoRow]]
           /\ todo' = [todo EXCEPT ![w] = mine]
           /\ Goto(w, IF mine = {} THEN "listed" ELSE "listParts")
    /\ UNCHANGED <<Lasting, req, target, seen, holds, wiped>>

\* The components of one of them, in a statement of its own.
Shown(id) == PartsOf(id) \X Places

ReadParts(w, id, read, got) ==
    /\ listing' = [listing EXCEPT ![w][id] =
         [name |-> @.name, read |-> read, parts |-> got]]
    /\ todo' = [todo EXCEPT ![w] = @ \ {id}]
    /\ Goto(w, IF todo[w] = {id} THEN "listed" ELSE "listParts")
    /\ UNCHANGED <<Lasting, req, target, seen, holds, wiped>>

ListParts(w) ==
    /\ pc[w] = "listParts"
    /\ \E id \in todo[w] : ReadParts(w, id, "all", Shown(id))

\* Next returns false at an error too, and nobody asks compRows.Err(): the
\* components that came before it are listed as the configuration's.
PartsCutShort(w) ==
    /\ "rows" \in Faults
    /\ pc[w] = "listParts"
    /\ \E id \in todo[w] : \E got \in SUBSET Shown(id) :
         ReadParts(w, id, "part", got)

\* Nor rows.Err(): configurations not come to by then are not listed.
RowsCutShort(w) ==
    /\ "rows" \in Faults
    /\ pc[w] = "listParts"
    /\ listing' = [listing EXCEPT ![w] =
         [id \in Ids |-> IF id \in todo[w] THEN NoRow ELSE @[id]]]
    /\ todo' = [todo EXCEPT ![w] = {}]
    /\ Goto(w, "listed")
    /\ UNCHANGED <<Lasting, req, target, seen, holds, wiped>>

AnswerListing(w) ==
    /\ pc[w] = "listed"
    /\ Rollback(w)
-----------------------------------------------------------------------------
\* What a worker does next unless it has to wait.
Step(w) ==
    \/ InsertConfiguration(w) \/ Check(w) \/ UpdateConfiguration(w)
    \/ LookForParts(w) \/ DeleteParts(w) \/ InsertParts(w) \/ Recheck(w)
    \/ LockUser(w) \/ RemoveRow(w) \/ Commit(w)
    \/ ListRows(w) \/ ListParts(w) \/ AnswerListing(w)

Next ==
    \E w \in Workers :
        \/ Receive(w) \/ Refuse(w) \/ StatementFails(w)
        \/ CancelDeadlocked(w) \/ Step(w) \/ CommitFails(w)
        \/ PartsCutShort(w) \/ RowsCutShort(w)

Spec == Init /\ [][Next]_vars

\* Go's scheduler and PostgreSQL run every statement that need not wait, and
\* the deadlock detector runs.  (Such a step changes pc or todo.)
Fairness ==
    /\ \A w \in Workers : WF_<<pc, todo>>(Step(w))
    /\ WF_<<pc, todo>>(\E w \in Workers : CancelDeadlocked(w))

FairSpec == Spec /\ Fairness
-----------------------------------------------------------------------------
TypeOK ==
    /\ accounts \subseteq Users
    /\ rows \in [Ids -> Row \cup {NoRow}]
    /\ parts \subseteq Batches
    /\ serial \in 0..MaxIds
    /\ requests \in Seq(Calls) /\ Len(requests) <= MaxRequests
    /\ pc \in [Workers -> PcState]
    /\ req \in [Workers -> 0..MaxRequests]
    /\ target \in [Workers -> 0..MaxIds]
    /\ seen \in [Workers -> SUBSET Batches]
    /\ todo \in [Workers -> SUBSET Ids]
    /\ holds \in [Workers -> SUBSET Ids]
    /\ wiped \in [Workers -> SUBSET Batches]
    /\ listing \in [Workers -> [Ids -> Entry \cup {NoRow}]]
    /\ log \in Seq(Commits)
    /\ answered \subseteq RequestIds
    /\ lost \subseteq RequestIds

\* A stored configuration is what one request asked for: its components are
\* exactly those of the request that gave it its name, whatever updates and
\* deletions of it overlapped; without its row it has no components
\* (UpdateConfiguration and DeleteConfiguration, repo.go).
SavedTogether ==
    \A id \in Ids :
        PartsOf(id) = IF rows[id] = NoRow \/ requests[rows[id].name].bare
                      THEN {} ELSE {rows[id].name}

\* GetUserConfigurations reads names and components in separate statements,
\* so that an old name may be listed with newer components.  Still, all the
\* components listed with it are of one request, which is not older than the
\* name's; and none of those is missing unless the connection broke while
\* they were read, which the answer does not tell.
ListedFromOneSave ==
    \A w \in Workers, id \in Ids :
        LET entry == listing[w][id]
        IN  entry # NoRow /\ entry.read # "no" =>
              \E i, j \in DOMAIN log :
                  /\ i <= j
                  /\ log[i].by = entry.name /\ id \in log[i].on
                  /\ id \in log[j].on
                  /\ LET saved == {b[2] : b \in {p \in log[j].put : p[1] = id}}
                     IN  /\ entry.parts \subseteq saved \X Places
                         /\ entry.read = "all" => entry.parts = saved \X Places

\* A request answered with success was carried out, unless its commit
\* failed: a saved configuration had a row to be saved in, and a deleted one
\* never returns (the repeated SELECT in UpdateConfiguration).
SuccessIsLasting ==
    \A n \in answered \ lost :
        CASE requests[n].kind \in {"create", "update"} ->
               \E i \in DOMAIN log : log[i].by = n /\ log[i].on # {}
          [] requests[n].kind = "delete" -> rows[requests[n].id] = NoRow
          [] requests[n].kind = "close" ->
               \A id \in Ids : rows[id] # NoRow => rows[id].owner # requests[n].user
          [] OTHER -> TRUE

\* Every request ends, though updates lock a configuration before its
\* components and deletions the components first: the deadlock is broken, and
\* the workers, who are sent MaxRequests requests at most, fall idle again.
RequestEnds == []<>(\A w \in Workers : pc[w] = "idle")

\* The committed tables, as a book of whole configurations.
Book ==
    [id \in Ids |-> IF rows[id] = NoRow THEN NoRow
                    ELSE [owner |-> rows[id].owner, name |-> rows[id].name,
                          parts |-> PartsOf(id)]]

Saved == INSTANCE SavedConfigurations
             WITH done <- {log[i].by : i \in DOMAIN log}, book <- Book

\* The statements of CreateConfiguration, UpdateConfiguration,
\* DeleteConfiguration and of an account's cascade, however they interleave,
\* take effect as the atomic operations of SavedConfigurations: by the owner
\* only, at most once per request, and wholly or not at all.
ImplementsSaved == Saved!Spec
=============================================================================
