------------------------ MODULE SavedConfigurations ------------------------
(***************************************************************************)
(* What config-service promises of the configurations it stores: each      *)
(* request takes effect at once or not at all, and at most once; a stored  *)
(* configuration is changed and deleted by its owner only; and an account  *)
(* takes its configurations with it.  ConfigStore implements this with the *)
(* statements of its transactions.                                         *)
(***************************************************************************)
EXTENDS Integers, Sequences

CONSTANTS
    Users,
    Ids,    \* values of configurations.id
    Calls,  \* requests that clients may send
    NoRow

VARIABLES
    accounts,  \* users that have an account
    requests,  \* the requests so far; a request is known by its place
    done,      \* those that took effect
    book       \* what is stored under each id

vars == <<accounts, requests, done, book>>

Init ==
    /\ accounts = Users
    /\ requests = <<>>
    /\ done = {}
    /\ book = [id \in Ids |-> NoRow]

\* A client sends a request.
Ask ==
    /\ \E call \in Calls : requests' = Append(requests, call)
    /\ UNCHANGED <<accounts, done, book>>

\* Request n takes effect.
TakesEffect(n, kind) ==
    /\ n \in DOMAIN requests \ done
    /\ requests[n].kind = kind
    /\ done' = done \cup {n}
    /\ UNCHANGED requests

\* The components request n stores: its own list, which may be empty.
Contents(n) == IF requests[n].bare THEN {} ELSE {n}

Owned(n, id) == book[id] # NoRow /\ book[id].owner = requests[n].user

Create(n) ==
    /\ TakesEffect(n, "create")
    /\ requests[n].user \in accounts
    /\ \E id \in Ids :
         /\ book[id] = NoRow
         /\ book' = [book EXCEPT ![id] = [owner |-> requests[n].user,
                                          name |-> n, parts |-> Contents(n)]]
    /\ UNCHANGED accounts

Replace(n) ==
    /\ TakesEffect(n, "update")
    /\ Owned(n, requests[n].id)
    /\ book' = [book EXCEPT ![requests[n].id] =
                  [owner |-> requests[n].user, name |-> n, parts |-> Contents(n)]]
    /\ UNCHANGED accounts

\* The second of two deletions finds nothing left to delete.
Remove(n) ==
    /\ TakesEffect(n, "delete")
    /\ Owned(n, requests[n].id) \/ book[requests[n].id] = NoRow
    /\ book' = [book EXCEPT ![requests[n].id] = NoRow]
    /\ UNCHANGED accounts

CloseAccount(n) ==
    /\ TakesEffect(n, "close")
    /\ accounts' = accounts \ {requests[n].user}
    /\ book' = [id \in Ids |-> IF Owned(n, id) THEN NoRow ELSE book[id]]

Next ==
    \/ Ask
    \/ \E n \in DOMAIN requests :
         Create(n) \/ Replace(n) \/ Remove(n) \/ CloseAccount(n)

Spec == Init /\ [][Next]_vars
=============================================================================
