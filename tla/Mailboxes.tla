----------------------------- MODULE Mailboxes -----------------------------
(***************************************************************************)
(* What notifications-service promises: price changes are taken in the     *)
(* order of publication, each at most once; whom one goes to is settled in *)
(* one moment, and each of them gets it at most once; what has been read   *)
(* stays read; and unless something may fail, nothing is lost.             *)
(* Notifications implements this with a queue, two tables and a loop.      *)
(***************************************************************************)
EXTENDS Naturals, Sequences

CONSTANTS
    Users,
    Components,
    MayLose     \* whether anything may fail that costs a notification

VARIABLES
    accounts,   \* users that have an account
    subs,       \* who is subscribed to which component
    published,  \* component of each price change so far
    at,         \* the change that is being sent, or was last
    to,         \* the users it has still to be sent to
    box,        \* what has been sent: pairs <<user, change>>
    opened      \* what has been read of it

vars == <<accounts, subs, published, at, to, box, opened>>

Init ==
    /\ accounts = Users
    /\ subs = {}
    /\ published = <<>>
    /\ at = 0
    /\ to = {}
    /\ box = {}
    /\ opened = {}

Publish ==
    /\ \E c \in Components : published' = Append(published, c)
    /\ UNCHANGED <<accounts, subs, at, to, box, opened>>

Subscribe(u) ==
    /\ u \in accounts
    /\ \E c \in Components : subs' = subs \cup {<<u, c>>}
    /\ UNCHANGED <<accounts, published, at, to, box, opened>>

Unsubscribe(u) ==
    /\ \E c \in Components : subs' = subs \ {<<u, c>>}
    /\ UNCHANGED <<accounts, published, at, to, box, opened>>

CloseAccount(u) ==
    /\ accounts' = accounts \ {u}
    /\ subs' = {s \in subs : s[1] # u}
    /\ UNCHANGED <<published, at, to, box, opened>>

\* The next change goes to those who are subscribed now.
Take ==
    /\ to = {}
    /\ at < Len(published)
    /\ at' = at + 1
    /\ to' = {u \in Users : <<u, published[at + 1]>> \in subs}
    /\ UNCHANGED <<accounts, subs, published, box, opened>>

Send(u) ==
    /\ u \in to
    /\ <<u, at>> \notin box
    /\ box' = box \cup {<<u, at>>}
    /\ to' = to \ {u}
    /\ UNCHANGED <<accounts, subs, published, at, opened>>

Open(u) ==
    /\ \E mail \in box : mail[1] = u /\ opened' = opened \cup {mail}
    /\ UNCHANGED <<accounts, subs, published, at, to, box>>

\* Some of the users go without the change at hand, or changes go unsent.
Lose ==
    /\ MayLose
    /\ at' \in at .. Len(published)
    /\ to' \subseteq to
    /\ at' # at => to' = {}
    /\ UNCHANGED <<accounts, subs, published, box, opened>>

Next ==
    \/ Publish
    \/ \E u \in Users :
          \/ Subscribe(u) \/ Unsubscribe(u) \/ CloseAccount(u)
          \/ Send(u) \/ Open(u)
    \/ Take
    \/ Lose

Spec == Init /\ [][Next]_vars
=============================================================================
