------------------------------- MODULE Auth --------------------------------
(***************************************************************************)
(* auth-service: table users and the requests that read a row of it, work  *)
(* on the copy and write it back.  Gin runs every request in its own       *)
(* goroutine and no statement shares a transaction with another, so each   *)
(* action below is one SQL statement, with the computation that follows a  *)
(* read, and requests interleave between statements.                       *)
(*                                                                         *)
(* Passwords stand for their bcrypt hashes.  Tokens are numbered in the    *)
(* order they are drawn (random tokens never repeat), accounts in that of  *)
(* their creation (their UUIDs do not either, and are only compared).      *)
(* Time is a clock; 0 is Go's zero time, which is also how a NULL          *)
(* timestamp is loaded.                                                    *)
(***************************************************************************)
EXTENDS Integers, Sequences, FiniteSets

CONSTANTS
    Workers,      \* goroutines serving requests
    Emails,
    Passwords,
    RefreshTTL,   \* 7 days
    ResetTTL,     \* 1 hour
    MaxAccounts,  \* bound: accounts ever registered
    MaxTokens,    \* bound: tokens ever issued
    MaxTime       \* bound: the clock

ASSUME AuthAssumption ==
    /\ Emails # {} /\ Passwords # {}
    /\ RefreshTTL \in Nat \ {0} /\ ResetTTL \in Nat \ {0}
    /\ MaxAccounts \in Nat /\ MaxTokens \in Nat /\ MaxTime \in Nat

VARIABLES
    clock,
    accounts,   \* ids that have a row in table users
    users,      \* the rows
    used,       \* ids ever given to a row (random UUIDs never repeat)
    pc,         \* the next statement of each worker's request
    local,      \* the worker's copy of a row
    issued,     \* history: owner, kind and expiry of each token drawn
    lastSet,    \* history: the password last chosen for each account
    spent,      \* history: tokens exchanged, used up or superseded
    loggedOut,  \* history: accounts whose latest session event is a logout
    confirmed,  \* history: accounts told that their email is verified
    overlapped  \* history: accounts on which two requests were ever at work
                \* at the same time

history == <<issued, lastSet, spent, loggedOut, confirmed, overlapped>>
vars == <<clock, accounts, users, used, pc, local, history>>

Ids    == 1 .. MaxAccounts
Null   == -1                  \* SQL NULL in a token column
Empty  == 0                   \* the empty string
Tokens == 1 .. Len(issued)

PcState == {"idle", "create", "login", "refresh", "forgot", "verify",
            "setPassword", "dropToken"}

Row == [email : Emails, password : Passwords,
        refresh : Nat \cup {Null}, refreshExp : Nat,
        reset : Nat \cup {Null}, resetExp : Nat,
        verified : BOOLEAN]

NewRow(e, p) ==
    [email |-> e, password |-> p, refresh |-> Null, refreshExp |-> 0,
     reset |-> Null, resetExp |-> 0, verified |-> FALSE]

BlankRow == NewRow(CHOOSE e \in Emails : TRUE, CHOOSE p \in Passwords : TRUE)
NoCopy   == [id |-> 0, row |-> BlankRow]

Init ==
    /\ clock = 1
    /\ accounts = {}
    /\ users = [id \in Ids |-> BlankRow]
    /\ used = {}
    /\ pc = [w \in Workers |-> "idle"]
    /\ local = [w \in Workers |-> NoCopy]
    /\ issued = <<>>
    /\ lastSet = [id \in Ids |-> BlankRow.password]
    /\ spent = {}
    /\ loggedOut = {}
    /\ confirmed = {}
    /\ overlapped = {}

-----------------------------------------------------------------------------
(* The statements of the repository.  What the histories record of an account *)
(* is forgotten with it.                                                    *)

FindByEmail(e) == {id \in accounts : users[id].email = e}
FindByRefreshToken(t) == {id \in accounts : users[id].refresh = t}
FindByResetToken(t) == {id \in accounts : users[id].reset = t}

OrEmpty(t) == IF t = Null THEN Empty ELSE t

\* A row as FindByEmail scans it.
Loaded(id) ==
    [users[id] EXCEPT !.refresh = OrEmpty(@), !.reset = OrEmpty(@)]

RefreshScanWithoutPassword(id) ==
    [users[id] EXCEPT !.password = BlankRow.password,
                      !.reset = Empty, !.resetExp = 0, !.verified = FALSE]

\* A row as FindByRefreshToken scans it: without the columns of the reset
\* token and of the verification.
LoadedForRefresh(id) ==
    [users[id] EXCEPT !.reset = Empty, !.resetExp = 0, !.verified = FALSE]

UpdateTokenOnly(r, copy) == [copy EXCEPT !.refreshExp = r.refreshExp]

\* The columns Update writes: all but those of the verification.
Written(r, copy) == [copy EXCEPT !.verified = r.verified]

UpsertedUsers(c) == accounts \cup {c.id}

\* UPDATE ... WHERE id = c.id matches no row once the account is gone.
AccountsAfterUpdate(c) == accounts

Update(c) ==
    /\ accounts' = AccountsAfterUpdate(c)
    /\ users' = IF c.id \in accounts
                THEN [users EXCEPT ![c.id] = Written(@, c.row)]
                ELSE users

-----------------------------------------------------------------------------
Busy(w) == pc[w] # "idle"

\* A request comes to an account; another one may be at work on it.
InUse(id) == \E w \in Workers : Busy(w) /\ local[w].id = id
Enter(id) ==
    overlapped' = IF InUse(id) /\ id \in accounts
                  THEN overlapped \cup {id} ELSE overlapped

Begin(w, step, id, row) ==
    /\ pc[w] = "idle"
    /\ pc' = [pc EXCEPT ![w] = step]
    /\ local' = [local EXCEPT ![w] = [id |-> id, row |-> row]]

End(w) ==
    /\ pc' = [pc EXCEPT ![w] = "idle"]
    /\ local' = [local EXCEPT ![w] = NoCopy]

\* generateRandomToken: the token drawn by a step is Fresh.
Fresh == Len(issued) + 1
Draw(id, kind, exp) ==
    /\ Len(issued) < MaxTokens
    /\ issued' = Append(issued, [id |-> id, kind |-> kind, exp |-> exp])

-----------------------------------------------------------------------------
(* POST /auth/register *)

\* No account has the email yet.
RegisterLookup(w, e, p) ==
    /\ FindByEmail(e) = {}
    /\ Cardinality(used)
        + Cardinality({v \in Workers : pc[v] = "create"}) < MaxAccounts
    /\ Begin(w, "create", 0, NewRow(e, p))
    /\ UNCHANGED <<clock, accounts, users, used, history>>

EmailNotChecked(e) == TRUE
EmailFree(e) == FindByEmail(e) = {}

\* INSERT; the unique constraint on email has the last word.  The mail that
\* follows may fail, and the row stays.
Create(w) ==
    LET r == local[w].row IN
    /\ pc[w] = "create"
    /\ \/ /\ EmailFree(r.email)
          /\ \E id \in Ids \ used :
                /\ 1 .. id - 1 \subseteq used
                /\ accounts' = accounts \cup {id}
                /\ used' = used \cup {id}
                /\ users' = [users EXCEPT ![id] = r]
                /\ lastSet' = [lastSet EXCEPT ![id] = r.password]
       \/ /\ ~EmailFree(r.email)
          /\ UNCHANGED <<accounts, used, users, lastSet>>
    /\ End(w)
    /\ UNCHANGED <<clock, issued, spent, loggedOut, confirmed, overlapped>>

-----------------------------------------------------------------------------
(* POST /auth/login *)

\* The credentials are right: a new refresh token goes into the copy.
LoginRead(w, e, p) ==
    \E id \in FindByEmail(e) :
        /\ users[id].password = p
        /\ Enter(id)
        /\ Draw(id, "refresh", clock + RefreshTTL)
        /\ Begin(w, "login", id,
                 [Loaded(id) EXCEPT !.refresh = Fresh,
                                    !.refreshExp = clock + RefreshTTL])
        /\ UNCHANGED <<clock, accounts, users, used, lastSet, spent,
                       loggedOut, confirmed>>

LoginWrite(w) ==
    LET id == local[w].id IN
    /\ pc[w] = "login"
    /\ Update(local[w])
    /\ loggedOut' = loggedOut \ {id}
    /\ spent' = spent \cup ({users[id].refresh} \cap Tokens)
    /\ End(w)
    /\ UNCHANGED <<clock, used, issued, lastSet, confirmed, overlapped>>

-----------------------------------------------------------------------------
(* POST /auth/refresh *)

ExpiresUnchecked(exp) == FALSE
Expired(exp) == clock > exp

\* The presented token t is on a row and has not expired.
RefreshRead(w, t) ==
    \E id \in FindByRefreshToken(t) :
        /\ ~Expired(users[id].refreshExp)
        /\ Enter(id)
        /\ Draw(id, "refresh", clock + RefreshTTL)
        /\ Begin(w, "refresh", id,
                 [LoadedForRefresh(id) EXCEPT
                      !.refresh = Fresh, !.refreshExp = clock + RefreshTTL])
        /\ UNCHANGED <<clock, accounts, users, used, lastSet, spent,
                       loggedOut, confirmed>>

RefreshWrite(w) ==
    LET id == local[w].id IN
    /\ pc[w] = "refresh"
    /\ Update(local[w])
    /\ spent' = spent \cup ({users[id].refresh} \cap Tokens)
    /\ End(w)
    /\ UNCHANGED <<clock, used, issued, lastSet, loggedOut, confirmed,
                   overlapped>>

-----------------------------------------------------------------------------
(* POST /auth/forgot_password *)

ForgotRead(w, e) ==
    \E id \in FindByEmail(e) :
        /\ Enter(id)
        /\ Draw(id, "reset", clock + ResetTTL)
        /\ Begin(w, "forgot", id,
                 [Loaded(id) EXCEPT !.reset = Fresh,
                                    !.resetExp = clock + ResetTTL])
        /\ UNCHANGED <<clock, accounts, users, used, lastSet, spent,
                       loggedOut, confirmed>>

\* The mail that follows may fail: the token is in the row all the same.
ForgotWrite(w) ==
    LET id == local[w].id IN
    /\ pc[w] = "forgot"
    /\ Update(local[w])
    /\ spent' = spent \cup ({users[id].reset} \cap Tokens)
    /\ End(w)
    /\ UNCHANGED <<clock, used, issued, lastSet, loggedOut, confirmed,
                   overlapped>>

-----------------------------------------------------------------------------
(* POST /auth/reset_password *)

ResetRead(w, t, p) ==
    \E id \in FindByResetToken(t) :
        /\ ~Expired(users[id].resetExp)
        /\ Enter(id)
        /\ Begin(w, "setPassword", id, [BlankRow EXCEPT !.password = p])
        /\ UNCHANGED <<clock, accounts, users, used, issued, lastSet, spent,
                       loggedOut, confirmed>>

UpdatePassword(w) ==
    LET id == local[w].id
        p  == local[w].row.password
    IN
    /\ pc[w] = "setPassword"
    /\ users' = IF id \in accounts
                THEN [users EXCEPT ![id].password = p]
                ELSE users
    /\ lastSet' = IF id \in accounts
                  THEN [lastSet EXCEPT ![id] = p]
                  ELSE lastSet
    /\ pc' = [pc EXCEPT ![w] = "dropToken"]
    /\ UNCHANGED <<clock, accounts, used, local, issued, spent, loggedOut,
                   confirmed, overlapped>>

\* DeleteResetToken
WithoutResetExpiry(r) == [r EXCEPT !.resetExp = 0]
WithoutResetToken(r) == [r EXCEPT !.reset = Empty, !.resetExp = 0]

DropResetToken(w) ==
    LET id == local[w].id IN
    /\ pc[w] = "dropToken"
    /\ users' = IF id \in accounts
                THEN [users EXCEPT ![id] = WithoutResetToken(@)]
                ELSE users
    /\ spent' = spent \cup ({users[id].reset} \cap Tokens)
    /\ End(w)
    /\ UNCHANGED <<clock, accounts, used, issued, lastSet, loggedOut,
                   confirmed, overlapped>>

-----------------------------------------------------------------------------
(* POST /auth/verify_email *)

\* The code presented is the one in the row.
VerifyRead(w, e) ==
    \E id \in FindByEmail(e) :
        /\ Enter(id)
        /\ Begin(w, "verify", id, [Loaded(id) EXCEPT !.verified = TRUE])
        /\ UNCHANGED <<clock, accounts, users, used, issued, lastSet, spent,
                       loggedOut, confirmed>>

VerifyWrite(w) ==
    /\ pc[w] = "verify"
    /\ Update(local[w])
    /\ confirmed' = confirmed \cup ({local[w].id} \cap accounts)
    /\ End(w)
    /\ UNCHANGED <<clock, used, issued, lastSet, spent, loggedOut, overlapped>>

-----------------------------------------------------------------------------
(* POST /auth/logout and DELETE /auth/delete: one statement each, for the  *)
(* id in an access token, which anybody who ever had an account may hold.  *)

NullExpiryAsNumber(r) == [r EXCEPT !.refresh = Empty, !.refreshExp = Null]
WithoutRefreshExpiry(r) == [r EXCEPT !.refresh = Empty]
WithoutRefreshToken(r) == [r EXCEPT !.refresh = Empty, !.refreshExp = 0]

Logout(id) ==
    /\ id \in used
    /\ Enter(id)
    /\ users' = IF id \in accounts
                THEN [users EXCEPT ![id] = WithoutRefreshToken(@)]
                ELSE users
    /\ loggedOut' = loggedOut \cup ({id} \cap accounts)
    /\ spent' = spent \cup ({users[id].refresh} \cap Tokens)
    /\ UNCHANGED <<clock, accounts, used, pc, local, issued, lastSet, confirmed>>

DeleteAccount(id) ==
    /\ id \in accounts
    /\ accounts' = accounts \ {id}
    /\ users' = [users EXCEPT ![id] = BlankRow]
    /\ lastSet' = [lastSet EXCEPT ![id] = BlankRow.password]
    /\ loggedOut' = loggedOut \ {id}
    /\ confirmed' = confirmed \ {id}
    /\ overlapped' = overlapped \ {id}
    /\ UNCHANGED <<clock, used, pc, local, issued, spent>>

-----------------------------------------------------------------------------
\* A request dies before its next statement: a database error, or a crash of
\* the process (which is this for every worker).
Abandon(w) ==
    /\ Busy(w)
    /\ End(w)
    /\ UNCHANGED <<clock, accounts, users, used, history>>

Tick ==
    /\ clock < MaxTime
    /\ clock' = clock + 1
    /\ UNCHANGED <<accounts, users, used, pc, local, history>>

Presented == Tokens \cup {Empty}

Request(w) ==
    \/ \E e \in Emails, p \in Passwords : RegisterLookup(w, e, p)
    \/ Create(w)
    \/ \E e \in Emails, p \in Passwords : LoginRead(w, e, p)
    \/ LoginWrite(w)
    \/ \E t \in Presented : RefreshRead(w, t)
    \/ RefreshWrite(w)
    \/ \E e \in Emails : ForgotRead(w, e)
    \/ ForgotWrite(w)
    \/ \E t \in Presented, p \in Passwords : ResetRead(w, t, p)
    \/ UpdatePassword(w)
    \/ DropResetToken(w)
    \/ \E e \in Emails : VerifyRead(w, e)
    \/ VerifyWrite(w)
    \/ Abandon(w)

Next ==
    \/ \E w \in Workers : Request(w)
    \/ \E id \in Ids : Logout(id) \/ DeleteAccount(id)
    \/ Tick

Spec == Init /\ [][Next]_vars

-----------------------------------------------------------------------------
(* Properties. *)

TokenIssued == [id : Nat, kind : {"refresh", "reset"}, exp : Nat]

TypeOK ==
    /\ clock \in Nat \ {0}
    /\ accounts \subseteq used
    /\ users \in [Ids -> Row]
    /\ used \subseteq Ids
    /\ pc \in [Workers -> PcState]
    /\ local \in [Workers -> [id : {0} \cup Ids, row : Row]]
    /\ issued \in Seq(TokenIssued)
    /\ lastSet \in [Ids -> Passwords]
    /\ spent \subseteq Tokens
    /\ loggedOut \subseteq Ids
    /\ confirmed \subseteq Ids
    /\ overlapped \subseteq Ids

(***************************************************************************)
(* Every token of a row, and of a copy still to be written back, was drawn *)
(* for that very account and purpose and expires when it was drawn to:     *)
(* stale copies may bring back an old token but never mix two of them.     *)
(***************************************************************************)
DrawnFor(id, kind, t, exp) ==
    t \in Tokens => issued[t] = [id |-> id, kind |-> kind, exp |-> exp]

TokensOf(id, row) ==
    /\ DrawnFor(id, "refresh", row.refresh, row.refreshExp)
    /\ DrawnFor(id, "reset", row.reset, row.resetExp)

TokenIntegrity ==
    /\ \A id \in accounts : TokensOf(id, users[id])
    /\ \A w \in Workers : TokensOf(local[w].id, local[w].row)

(***************************************************************************)
(* A session is renewed only while a refresh token drawn for the account   *)
(* has not expired, and a password is replaced only while a reset token    *)
(* drawn for it has not: what Logout and ResetPassword leave behind, an    *)
(* empty token and no expiry, admits nobody, although the handlers accept  *)
(* an empty token in a request.                                            *)
(***************************************************************************)
LiveToken(id, kind) ==
    \E t \in Tokens : /\ issued[t].id = id
                      /\ issued[t].kind = kind
                      /\ clock <= issued[t].exp

AdmittedByLiveToken ==
    [][\A w \in Workers :
          pc[w] = "idle" =>
             /\ pc'[w] = "refresh" => LiveToken(local'[w].id, "refresh")
             /\ pc'[w] = "setPassword" => LiveToken(local'[w].id, "reset")]_vars

(***************************************************************************)
(* Two registrations that both found an email free make one account of it. *)
(***************************************************************************)
OneAccountPerEmail ==
    \A i, j \in accounts : users[i].email = users[j].email => i = j

(***************************************************************************)
(* A request that read an account before it was deleted does not bring it  *)
(* back when it writes its copy.                                           *)
(***************************************************************************)
DeletedStaysDeleted ==
    [][\A id \in used \ accounts : id \notin accounts']_vars

(***************************************************************************)
(* While requests on an account come one after the other, though any of    *)
(* them may die half way: the password is the one chosen last, whatever    *)
(* rows Login, Refresh, ForgotPassword and VerifyEmail wrote back since.   *)
(***************************************************************************)
PasswordIsLastSet ==
    \A id \in accounts \ overlapped : users[id].password = lastSet[id]

(***************************************************************************)
(* Likewise a refresh token that was exchanged or logged out, and a reset  *)
(* token that was used or superseded, never come back into the row.        *)
(***************************************************************************)
SpentTokensDead ==
    \A id \in accounts \ overlapped :
        users[id].refresh \notin spent /\ users[id].reset \notin spent

(***************************************************************************)
(* Likewise after a logout there is no refresh token that would be         *)
(* accepted, until the next login.                                         *)
(***************************************************************************)
LogoutEndsSession ==
    \A id \in (accounts \cap loggedOut) \ overlapped :
        Expired(users[id].refreshExp)

(***************************************************************************)
(* The service implements Accounts: though each request works on a copy of *)
(* a row between its statements and may die between them, it acts on the   *)
(* account as it is, at once, unless requests overlap there.  Tokens in a  *)
(* copy count as given once they are written, or lost with the copy.       *)
(***************************************************************************)
Credentials(r) ==
    [email |-> r.email, password |-> r.password,
     refresh |-> OrEmpty(r.refresh), refreshExp |-> r.refreshExp,
     reset |-> OrEmpty(r.reset), resetExp |-> r.resetExp]

InHand(w) ==
    CASE pc[w] \in {"login", "refresh"} -> {local[w].row.refresh}
      [] pc[w] = "forgot" -> {local[w].row.reset}
      [] OTHER -> {}

Requests == INSTANCE Accounts
                WITH Tokens <- 1 .. MaxTokens,
                     users <- [id \in accounts |-> Credentials(users[id])],
                     given <- Tokens \ UNION {InHand(w) : w \in Workers},
                     disturbed <- overlapped

ImplementsAccounts == Requests!Spec

(***************************************************************************)
(* What the reply of POST /auth/reset_password says: "Password has been    *)
(* reset successfully." - the password stays the one chosen, with requests *)
(* overlapping too.                                                        *)
(***************************************************************************)
ResetPasswordSticks ==
    \A id \in accounts : users[id].password = lastSet[id]

(***************************************************************************)
(* What the reply of POST /auth/verify_email says: "Email verified         *)
(* successfully." - the account's row says so too.                         *)
(***************************************************************************)
VerificationKept ==
    \A id \in accounts \cap confirmed : users[id].verified
=============================================================================
