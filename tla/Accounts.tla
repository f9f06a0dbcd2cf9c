------------------------------ MODULE Accounts ------------------------------
(***************************************************************************)
(* What auth-service promises of the accounts it keeps: each request takes *)
(* effect on the account as it is, at once, and changes nothing else of    *)
(* it; a token comes into an account once and with a bounded lifetime; a   *)
(* closed account never comes back.  Of an account at which two requests   *)
(* were ever at work at the same time, only the email is promised.         *)
(*                                                                         *)
(* Auth implements this with a statement that reads a row and one that     *)
(* writes all of it back.                                                  *)
(***************************************************************************)
EXTENDS Naturals

CONSTANTS
    Emails,
    Passwords,
    Ids,
    Tokens,      \* numbers; NoToken is not one of them
    RefreshTTL,
    ResetTTL

VARIABLES
    clock,
    users,      \* the accounts there are
    used,       \* ids ever given to an account
    given,      \* tokens that are or were in an account, or never will be
    disturbed   \* accounts at which two requests met

vars == <<clock, users, used, given, disturbed>>

NoToken == 0

Account == [email : Emails, password : Passwords,
            refresh : Tokens \cup {NoToken}, refreshExp : Nat,
            reset : Tokens \cup {NoToken}, resetExp : Nat]

NewAccount(e, p) ==
    [email |-> e, password |-> p, refresh |-> NoToken, refreshExp |-> 0,
     reset |-> NoToken, resetExp |-> 0]

Init ==
    /\ clock = 1
    /\ users = [id \in {} |-> NoToken]
    /\ used = {}
    /\ given = {}
    /\ disturbed = {}

Register(e, p) ==
    /\ \A id \in DOMAIN users : users[id].email # e
    /\ \E id \in Ids \ used :
          /\ used' = used \cup {id}
          /\ users' = [i \in DOMAIN users \cup {id} |->
                          IF i = id THEN NewAccount(e, p) ELSE users[i]]
    /\ UNCHANGED <<clock, given, disturbed>>

\* A token is given once, and expires within its lifetime.
Give(t) == t \notin given /\ given' = given \cup {t}
Within(lifetime) == 0 .. clock + lifetime

Login(id) ==
    /\ \E t \in Tokens, exp \in Within(RefreshTTL) :
          /\ Give(t)
          /\ users' = [users EXCEPT ![id].refresh = t, ![id].refreshExp = exp]
    /\ UNCHANGED <<clock, used, disturbed>>

\* A session is renewed only while there is one, and a reset that was asked
\* for is forgotten.
Refresh(id) ==
    /\ users[id].refresh # NoToken
    /\ \E t \in Tokens, exp \in Within(RefreshTTL) :
          /\ Give(t)
          /\ users' = [users EXCEPT ![id].refresh = t, ![id].refreshExp = exp,
                                    ![id].reset = NoToken, ![id].resetExp = 0]
    /\ UNCHANGED <<clock, used, disturbed>>

ForgotPassword(id) ==
    /\ \E t \in Tokens, exp \in Within(ResetTTL) :
          /\ Give(t)
          /\ users' = [users EXCEPT ![id].reset = t, ![id].resetExp = exp]
    /\ UNCHANGED <<clock, used, disturbed>>

\* ResetPassword is two steps, of which the second may never come.
SetPassword(id) ==
    /\ users[id].reset # NoToken
    /\ \E p \in Passwords : users' = [users EXCEPT ![id].password = p]
    /\ UNCHANGED <<clock, used, given, disturbed>>

DropReset(id) ==
    /\ users' = [users EXCEPT ![id].reset = NoToken, ![id].resetExp = 0]
    /\ UNCHANGED <<clock, used, given, disturbed>>

Logout(id) ==
    /\ users' = [users EXCEPT ![id].refresh = NoToken, ![id].refreshExp = 0]
    /\ UNCHANGED <<clock, used, given, disturbed>>

DeleteAccount(id) ==
    /\ users' = [i \in DOMAIN users \ {id} |-> users[i]]
    /\ disturbed' = disturbed \ {id}
    /\ UNCHANGED <<clock, used, given>>

\* Two requests meet at an account, or have met there.
Meet(id) ==
    /\ disturbed' = disturbed \cup {id}
    /\ users' \in [DOMAIN users -> Account]
    /\ users'[id].email = users[id].email
    /\ \A i \in DOMAIN users \ {id} : users'[i] = users[i]
    /\ given \subseteq given'
    /\ UNCHANGED <<clock, used>>

\* A token is drawn for nothing.
Waste ==
    /\ \E t \in Tokens \ given : given' = given \cup {t}
    /\ UNCHANGED <<clock, users, used, disturbed>>

Tick ==
    /\ clock' = clock + 1
    /\ UNCHANGED <<users, used, given, disturbed>>

Next ==
    \/ \E e \in Emails, p \in Passwords : Register(e, p)
    \/ \E id \in DOMAIN users :
          \/ Login(id) \/ Refresh(id) \/ Logout(id)
          \/ ForgotPassword(id) \/ SetPassword(id) \/ DropReset(id)
          \/ DeleteAccount(id)
          \/ Meet(id)
    \/ Waste
    \/ Tick

Spec == Init /\ [][Next]_vars
=============================================================================
