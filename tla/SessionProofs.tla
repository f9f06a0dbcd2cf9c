---------------------------- MODULE SessionProofs ----------------------------
(***************************************************************************)
(* Theorems about Auth that need to know which tokens are dead: what was   *)
(* exchanged, used up, superseded or logged out stays so on accounts whose *)
(* requests came one after the other.                                      *)
(*                                                                         *)
(* The invariant says, of every such account, that neither its row nor the *)
(* copy of the request at work on it brings a dead token into the row.     *)
(* At the end, that the service implements Accounts.                       *)
(***************************************************************************)
EXTENDS AuthProofs

\* The row of account i.
RowAlive(i) ==
    /\ users[i].refresh \notin spent
    /\ users[i].reset \notin spent
    /\ i \in loggedOut => users[i].refreshExp = 0

\* The copy of a request at work on account i, up to its UPDATE.
CopyAlive(w, i) ==
    LET r == local[w].row IN
    /\ pc[w] \in Writers => r.refresh \notin spent /\ r.reset \notin spent
    /\ pc[w] \in {"login", "refresh"} => r.refresh # users[i].refresh
    /\ pc[w] = "forgot" => r.reset # users[i].reset
    /\ i \in loggedOut => /\ pc[w] # "refresh"
                          /\ pc[w] \in {"forgot", "verify"} => r.refreshExp = 0

Alive(i) ==
    /\ RowAlive(i)
    /\ \A w \in Workers : At(w, i) => CopyAlive(w, i)

\* An id without an account has no tokens.
BlankOutside == \A i \in Ids \ accounts : users[i] = BlankRow

\* A request is about an account, unless it registers one.
AboutAccount ==
    \A w \in Workers : pc[w] \notin {"idle", "create"} => local[w].id \in Ids

SessionInv ==
    /\ BlankOutside
    /\ AboutAccount
    /\ \A i \in accounts \ overlapped : Alive(i)

LEMMA SessionInit == Init => SessionInv
    BY DEF Init, SessionInv, BlankOutside, AboutAccount

-----------------------------------------------------------------------------
\* The tokens an id holds.
Held(id) ==
    IF id \in accounts THEN {users[id].refresh, users[id].reset} \cap Tokens
    ELSE {}

(***************************************************************************)
(* A token tells whose it is and what it is for, so the tokens of a row    *)
(* are in no row and no copy of another account, nor in another column.    *)
(***************************************************************************)
LEMMA TokensApart ==
    ASSUME TypeOK, TokenInv, NEW i \in Nat, NEW row \in Row,
           Sound(issued, i, row), NEW j \in accounts
    PROVE  /\ i # j => row.refresh \notin Held(j) /\ row.reset \notin Held(j)
           /\ row.reset \notin {users[j].refresh} \cap Tokens
           /\ row.refresh \notin {users[j].reset} \cap Tokens
<1> DEFINE r == users[j]
<1>1. r \in Row /\ Sound(issued, j, r)
    BY DEF TypeOK, TokenInv, RowsSound
<1>2. /\ row.refresh \in Int /\ row.reset \in Int
      /\ r.refresh \in Int /\ r.reset \in Int
    BY <1>1 DEF Row, Null
<1>3. \A t \in Tokens :
        /\ t = row.refresh => issued[t].id = i /\ issued[t].kind = "refresh"
        /\ t = row.reset => issued[t].id = i /\ issued[t].kind = "reset"
        /\ t = r.refresh => issued[t].id = j /\ issued[t].kind = "refresh"
        /\ t = r.reset => issued[t].id = j /\ issued[t].kind = "reset"
    BY <1>1, <1>2 DEF Sound, SoundToken, Tokens
<1>4. Held(j) = {r.refresh, r.reset} \cap Tokens
    BY DEF Held
<1> HIDE DEF r
<1>5. i # j => row.refresh \notin Held(j) /\ row.reset \notin Held(j)
    BY <1>3, <1>4
<1>6. /\ row.reset \notin {r.refresh} \cap Tokens
      /\ row.refresh \notin {r.reset} \cap Tokens
    BY <1>3
<1> QED
    BY <1>5, <1>6 DEF r

(***************************************************************************)
(* What a step about one id leaves alone: the other accounts.  It spends   *)
(* no tokens but those of the id.                                          *)
(***************************************************************************)
LEMMA OthersAlive ==
    ASSUME TypeOK, TokenInv, SessionInv, NEW id \in {0} \cup Ids,
           spent' \subseteq spent \cup Held(id),
           NEW i \in accounts \ overlapped, i # id,
           users'[i] = users[i],
           i \in loggedOut' => i \in loggedOut,
           \A v \in Workers : At(v, i)' =>
               At(v, i) /\ pc'[v] = pc[v] /\ local'[v] = local[v]
    PROVE  Alive(i)'
<1>1. i \in Nat /\ users[i] \in Row /\ Sound(issued, i, users[i])
    <2>1. i \in Ids /\ users \in [Ids -> Row]
        BY DEF TypeOK
    <2> QED
        BY <2>1, AuthAssumption DEF TokenInv, RowsSound, Ids
<1>2. ASSUME NEW row \in Row, Sound(issued, i, row)
      PROVE  /\ row.refresh \notin spent => row.refresh \notin spent'
             /\ row.reset \notin spent => row.reset \notin spent'
    <2>1. row.refresh \notin Held(id) /\ row.reset \notin Held(id)
        <3>1. CASE id \in accounts
            BY <1>1, <1>2, <3>1, TokensApart
        <3>2. CASE id \notin accounts
            BY <3>2 DEF Held
        <3> QED
            BY <3>1, <3>2
    <2> QED
        BY <2>1
<1>3. Alive(i)
    BY DEF SessionInv
<1>4. RowAlive(i)'
    BY <1>1, <1>2, <1>3 DEF Alive, RowAlive
<1>5. ASSUME NEW v \in Workers, At(v, i)'
      PROVE  CopyAlive(v, i)'
    <2>1. /\ At(v, i) /\ pc'[v] = pc[v] /\ local'[v] = local[v]
          /\ local[v].id = i /\ local[v].row \in Row
        BY <1>5 DEF At, TypeOK
    <2>2. Sound(issued, i, local[v].row)
        BY <2>1 DEF TokenInv, CopiesSound
    <2>3. CopyAlive(v, i)
        BY <1>3, <2>1 DEF Alive
    <2> QED
        BY <1>2, <2>1, <2>2, <2>3 DEF CopyAlive
<1> QED
    BY <1>4, <1>5 DEF Alive

\* A request comes to an account and takes a copy.
LEMMA BegunSession ==
    ASSUME TypeOK, TokenInv, SessionInv,
           NEW w \in Workers, NEW step \in PcState \ {"idle", "create"},
           NEW id \in accounts, NEW row \in Row,
           Begin(w, step, id, row), Enter(id),
           UNCHANGED <<accounts, users, spent, loggedOut>>,
           id \notin overlapped => CopyAlive(w, id)'
    PROVE  SessionInv'
<1>1. id \in Ids /\ accounts' = accounts /\ users' = users /\ spent' = spent
      /\ loggedOut' = loggedOut
    BY DEF TypeOK
<1>2. /\ pc'[w] = step /\ local'[w].id = id
      /\ \A v \in Workers : v # w => pc'[v] = pc[v] /\ local'[v] = local[v]
    BY <1>1, BeginEffect
<1>3. /\ overlapped \subseteq overlapped'
      /\ id \notin overlapped' => \A v \in Workers : ~At(v, id)
    BY <1>1, EnterEffect DEF At
<1>4. \A i : \A v \in Workers : v # w => At(v, i)' = At(v, i)
    BY <1>2 DEF At, Busy
<1>5. \A i : At(w, i)' => i = id
    BY <1>2 DEF At
<1>6. BlankOutside' /\ AboutAccount'
    BY <1>1, <1>2 DEF SessionInv, BlankOutside, AboutAccount
<1>7. ASSUME NEW i \in accounts \ overlapped'
      PROVE  Alive(i)'
    <2>1. i \in accounts \ overlapped
        BY <1>3, <1>7
    <2>2. CASE i = id
        <3>1. RowAlive(id)'
            BY <1>1, <2>1, <2>2 DEF SessionInv, Alive, RowAlive
        <3>2. \A v \in Workers : At(v, id)' => v = w
            BY <1>3, <1>4, <1>7, <2>2
        <3> QED
            BY <2>1, <2>2, <3>1, <3>2 DEF Alive
    <2>3. CASE i # id
        BY <1>1, <1>2, <1>4, <1>5, <2>1, <2>3, OthersAlive
    <2> QED
        BY <2>2, <2>3
<1> QED
    BY <1>1, <1>6, <1>7 DEF SessionInv

\* A request ends without having touched a row.
LEMMA EndedSession ==
    ASSUME TypeOK, TokenInv, SessionInv, NEW w \in Workers, End(w),
           UNCHANGED <<accounts, users, spent, loggedOut, overlapped>>
    PROVE  SessionInv'
<1>1. /\ pc'[w] = "idle" /\ local'[w].id = 0
      /\ \A v \in Workers : v # w => pc'[v] = pc[v] /\ local'[v] = local[v]
    BY EndEffect, BlankRowType
<1>2. \A i : \A v \in Workers : At(v, i)' =>
          At(v, i) /\ pc'[v] = pc[v] /\ local'[v] = local[v]
    BY <1>1 DEF At, Busy
<1>3. BlankOutside' /\ AboutAccount'
    BY <1>1 DEF SessionInv, BlankOutside, AboutAccount
<1>4. ASSUME NEW i \in accounts \ overlapped
      PROVE  Alive(i)'
    <2>1. 0 \in {0} \cup Ids /\ i # 0
        BY <1>4 DEF TypeOK, Ids
    <2> QED
        BY <1>2, <1>4, <2>1, OthersAlive
<1> QED
    BY <1>3, <1>4 DEF SessionInv

(***************************************************************************)
(* A request writes its copy back and ends.  The token it replaces is the  *)
(* only one that it spends.                                                *)
(***************************************************************************)
Replaced(w) ==
    CASE pc[w] \in {"login", "refresh"} -> {users[local[w].id].refresh} \cap Tokens
      [] pc[w] = "forgot" -> {users[local[w].id].reset} \cap Tokens
      [] OTHER -> {}

LEMMA WrittenSession ==
    ASSUME TypeOK, TokenInv, WorkInv, SessionInv,
           NEW w \in Workers, pc[w] \in Writers,
           Update(local[w]), End(w), UNCHANGED overlapped,
           spent' = spent \cup Replaced(w),
           loggedOut' \subseteq loggedOut,
           pc[w] = "login" => local[w].id \notin loggedOut'
    PROVE  SessionInv'
<1> DEFINE id == local[w].id
           r  == local[w].row
<1>1. /\ pc'[w] = "idle" /\ local'[w].id = 0
      /\ \A v \in Workers : v # w => pc'[v] = pc[v] /\ local'[v] = local[v]
    BY EndEffect, BlankRowType
<1>2. \A i : \A v \in Workers : At(v, i)' =>
          v # w /\ At(v, i) /\ pc'[v] = pc[v] /\ local'[v] = local[v]
    BY <1>1 DEF At, Busy
<1>3. At(w, id) /\ id \in Ids /\ accounts \subseteq Ids
    BY DEF At, Busy, Writers, SessionInv, AboutAccount, TypeOK
<1>4. /\ accounts' = accounts
      /\ \A i \in Ids : i # id => users'[i] = users[i]
      /\ id \notin accounts => users' = users
      /\ id \in accounts => /\ users'[id].refresh = r.refresh
                            /\ users'[id].refreshExp = r.refreshExp
                            /\ users'[id].reset = r.reset
    BY UpdateEffect
<1>5. BlankOutside' /\ AboutAccount'
    BY <1>1, <1>3, <1>4 DEF SessionInv, BlankOutside, AboutAccount
<1>6. Replaced(w) \subseteq Held(id)
    <2>1. CASE id \in accounts
        BY <2>1 DEF Replaced, Held
    <2>2. CASE id \notin accounts
        <3>1. users[id].refresh = Null /\ users[id].reset = Null
            BY <1>3, <2>2, BlankRowType DEF SessionInv, BlankOutside
        <3> QED
            BY <3>1 DEF Replaced, Tokens, Null
    <2> QED
        BY <2>1, <2>2
<1>7. ASSUME NEW i \in accounts \ overlapped
      PROVE  Alive(i)'
    <2>1. CASE i = id
        <3>1. \A v \in Workers : ~At(v, i)'
            BY <1>2, <1>3, <1>7, <2>1 DEF WorkInv, OneAtATime
        <3>2. CopyAlive(w, id)
            BY <1>3, <1>7, <2>1 DEF SessionInv, Alive
        <3>3. id \in Nat /\ r \in Row /\ Sound(issued, id, r)
            BY <1>3, AuthAssumption DEF TypeOK, TokenInv, CopiesSound, Ids
        <3>4. /\ r.reset \notin {users[id].refresh} \cap Tokens
              /\ r.refresh \notin {users[id].reset} \cap Tokens
            BY <1>7, <2>1, <3>3, TokensApart
        <3>5. r.refresh \notin spent' /\ r.reset \notin spent'
            BY <3>2, <3>4 DEF CopyAlive, Replaced
        <3>6. id \in loggedOut' => r.refreshExp = 0
            BY <3>2 DEF CopyAlive, Writers
        <3> QED
            BY <1>4, <1>7, <2>1, <3>1, <3>5, <3>6 DEF Alive, RowAlive
    <2>2. CASE i # id
        BY <1>2, <1>3, <1>4, <1>6, <1>7, <2>2, OthersAlive
    <2> QED
        BY <2>1, <2>2
<1> QED
    BY <1>4, <1>5, <1>7 DEF SessionInv

(***************************************************************************)
(* Every step keeps the invariant.                                         *)
(***************************************************************************)
LEMMA SessionStep ==
    TypeOK /\ TokenInv /\ WorkInv /\ SessionInv /\ [Next]_vars => SessionInv'
<1> SUFFICES ASSUME TypeOK, TokenInv, WorkInv, SessionInv, [Next]_vars
             PROVE  SessionInv'
    OBVIOUS
<1>a. /\ accounts \subseteq used /\ used \subseteq Ids
      /\ users \in [Ids -> Row] /\ spent \subseteq Tokens
      /\ Tokens = 1 .. Len(issued) /\ Len(issued) \in Nat
      /\ clock \in Nat \ {0}
      /\ \A w \in Workers : local[w].row \in Row
    BY LenProperties DEF TypeOK, Tokens
<1>b. /\ {"login", "refresh", "forgot", "verify", "setPassword", "dropToken"}
            \subseteq PcState \ {"idle", "create"}
      /\ \A i \in Ids : i \in Nat /\ i # 0
    BY AuthAssumption DEF PcState, Ids
\* A token just drawn is on no row and was never spent.
<1>c. /\ Fresh \in Nat /\ Fresh \notin spent
      /\ \A i \in accounts : Fresh # users[i].refresh /\ Fresh # users[i].reset
    <2>1. \A i \in accounts : /\ users[i].refresh \in Int /\ users[i].reset \in Int
                              /\ users[i].refresh <= Len(issued)
                              /\ users[i].reset <= Len(issued)
        <3> TAKE i \in accounts
        <3>1. users[i] \in Row /\ Sound(issued, i, users[i])
            BY <1>a DEF TokenInv, RowsSound
        <3>2. users[i].refresh \in Int /\ users[i].reset \in Int
            BY <3>1 DEF Row, Null
        <3> QED
            BY <3>1, <3>2 DEF Sound, SoundToken
    <2> QED
        BY <1>a, <2>1 DEF Fresh
\* Nor was a token spent that is on the row of an account without overlap.
<1>d. /\ Empty \notin spent /\ Null \notin spent
      /\ \A i \in accounts \ overlapped :
            /\ RowAlive(i)
            /\ OrEmpty(users[i].refresh) \notin spent
            /\ OrEmpty(users[i].reset) \notin spent
    <2>1. Empty \notin spent /\ Null \notin spent
        BY <1>a DEF Empty, Null
    <2> QED
        BY <2>1 DEF SessionInv, Alive, RowAlive, OrEmpty
\* A step that is about no account and spends nothing.
<1>e. ASSUME UNCHANGED <<accounts, users, overlapped, spent, loggedOut>>,
             AboutAccount',
             \A v \in Workers, i \in accounts : At(v, i)' =>
                 At(v, i) /\ pc'[v] = pc[v] /\ local'[v] = local[v]
      PROVE  SessionInv'
    <2>1. \A i \in accounts \ overlapped : Alive(i)'
        BY <1>a, <1>b, <1>e, OthersAlive
    <2> QED
        BY <1>e, <2>1 DEF SessionInv, BlankOutside
<1>1. CASE UNCHANGED vars
    BY <1>1, <1>e DEF vars, history, SessionInv, AboutAccount, At, Busy
<1>2. ASSUME NEW w \in Workers, NEW e \in Emails, NEW p \in Passwords,
             RegisterLookup(w, e, p)
      PROVE  SessionInv'
    <2>1. /\ Begin(w, "create", 0, NewRow(e, p))
          /\ UNCHANGED <<accounts, users, overlapped, spent, loggedOut>>
        BY <1>2 DEF RegisterLookup, history
    <2>2. /\ pc'[w] = "create" /\ local'[w].id = 0
          /\ \A v \in Workers : v # w => pc'[v] = pc[v] /\ local'[v] = local[v]
        BY <2>1, NewRowType, BeginEffect DEF PcState
    <2>3. AboutAccount'
        BY <2>2 DEF SessionInv, AboutAccount
    <2>4. \A v \in Workers, i \in accounts : At(v, i)' =>
             At(v, i) /\ pc'[v] = pc[v] /\ local'[v] = local[v]
        BY <2>2, <1>a, <1>b DEF At, Busy
    <2> QED
        BY <2>1, <2>3, <2>4, <1>e
<1>3. ASSUME NEW w \in Workers, Create(w)
      PROVE  SessionInv'
    <2>1. CASE EmailFree(local[w].row.email)
        <3> DEFINE r == local[w].row
        <3>1. PICK id \in Ids \ used :
                /\ accounts' = accounts \cup {id}
                /\ users' = [users EXCEPT ![id] = r]
            BY <1>3, <2>1 DEF Create
        <3>2. /\ users'[id] = r
              /\ \A i \in Ids : i # id => users'[i] = users[i]
            BY <3>1, <1>a
        <3>3. /\ pc'[w] = "idle" /\ local'[w].id = 0
              /\ \A v \in Workers :
                    v # w => pc'[v] = pc[v] /\ local'[v] = local[v]
            BY <1>3, EndEffect, BlankRowType DEF Create
        <3>4. /\ spent' = spent /\ loggedOut' = loggedOut
              /\ overlapped' = overlapped /\ pc[w] = "create"
            BY <1>3 DEF Create
        <3>5. r.refresh = Null /\ r.reset = Null /\ r.refreshExp = 0
            <4>1. r.refresh = Null /\ r.reset = Null
                BY <3>4 DEF TokenInv, CopiesSound
            <4>2. SoundToken(issued, local[w].id, "refresh", Null, r.refreshExp)
                BY <4>1 DEF TokenInv, CopiesSound, Sound
            <4> QED
                BY <4>1, <4>2 DEF SoundToken, Null
        <3>6. \A i : \A v \in Workers : At(v, i)' =>
                 At(v, i) /\ pc'[v] = pc[v] /\ local'[v] = local[v]
            BY <3>3 DEF At, Busy
        <3>7. \A v \in Workers : ~At(v, id)
            BY <3>1, <1>b DEF WorkInv, KnownIds, At
        <3>8. BlankOutside' /\ AboutAccount'
            BY <3>1, <3>2, <3>3 DEF SessionInv, BlankOutside, AboutAccount
        <3>9. Alive(id)'
            BY <3>2, <3>4, <3>5, <3>6, <3>7, <1>d DEF Alive, RowAlive
        <3>10. \A i \in accounts \ overlapped : Alive(i)'
            BY <3>1, <3>2, <3>4, <3>6, <1>a, OthersAlive
        <3> QED
            BY <3>1, <3>4, <3>8, <3>9, <3>10 DEF SessionInv
    <2>2. CASE ~EmailFree(local[w].row.email)
        BY <1>3, <2>2, EndedSession DEF Create
    <2> QED
        BY <2>1, <2>2
<1>4. ASSUME NEW w \in Workers, NEW e \in Emails, NEW p \in Passwords,
             LoginRead(w, e, p)
      PROVE  SessionInv'
    <2> DEFINE exp == clock + RefreshTTL
    <2>1. PICK id \in FindByEmail(e) :
            /\ Enter(id)
            /\ Begin(w, "login", id,
                     [Loaded(id) EXCEPT !.refresh = Fresh, !.refreshExp = exp])
            /\ UNCHANGED <<accounts, users, spent, loggedOut>>
        BY <1>4 DEF LoginRead
    <2>2. id \in accounts /\ exp \in Nat
        BY <1>a, AuthAssumption DEF FindByEmail
    <2> DEFINE row == [Loaded(id) EXCEPT !.refresh = Fresh, !.refreshExp = exp]
    <2> HIDE DEF exp
    <2>3. row \in Row /\ row.refresh = Fresh /\ row.reset = OrEmpty(users[id].reset)
        <3>1. /\ Loaded(id) \in Row
              /\ Loaded(id).reset = OrEmpty(users[id].reset)
            BY <2>2, LoadedType
        <3> QED
            BY <2>2, <3>1, <1>c DEF Row
    <2> HIDE DEF row
    <2>4. Begin(w, "login", id, row)
        BY <2>1 DEF row
    <2>5. pc'[w] = "login" /\ local'[w].row = row
        BY <2>2, <2>3, <2>4, <1>a, <1>b, BeginEffect
    <2>6. id \notin overlapped => CopyAlive(w, id)'
        BY <2>1, <2>2, <2>3, <2>5, <1>c, <1>d DEF CopyAlive
    <2> QED
        BY <2>1, <2>2, <2>3, <2>4, <2>6, <1>b, BegunSession
<1>5. ASSUME NEW w \in Workers, LoginWrite(w)
      PROVE  SessionInv'
    BY <1>5, WrittenSession DEF LoginWrite, Writers, Replaced
<1>6. ASSUME NEW w \in Workers, NEW t \in Presented, RefreshRead(w, t)
      PROVE  SessionInv'
    <2> DEFINE exp == clock + RefreshTTL
    <2>1. PICK id \in FindByRefreshToken(t) :
            /\ ~Expired(users[id].refreshExp)
            /\ Enter(id)
            /\ Begin(w, "refresh", id,
                     [LoadedForRefresh(id) EXCEPT !.refresh = Fresh,
                                                  !.refreshExp = exp])
            /\ UNCHANGED <<accounts, users, spent, loggedOut>>
        BY <1>6 DEF RefreshRead
    <2>2. id \in accounts /\ exp \in Nat
        BY <1>a, AuthAssumption DEF FindByRefreshToken
    <2> DEFINE row == [LoadedForRefresh(id) EXCEPT !.refresh = Fresh,
                                                   !.refreshExp = exp]
    <2> HIDE DEF exp
    <2>3. row \in Row /\ row.refresh = Fresh /\ row.reset = Empty
        <3>1. /\ LoadedForRefresh(id) \in Row
              /\ LoadedForRefresh(id).reset = Empty
            BY <2>2, LoadedType
        <3> QED
            BY <2>2, <3>1, <1>c DEF Row
    <2> HIDE DEF row
    <2>4. Begin(w, "refresh", id, row)
        BY <2>1 DEF row
    <2>5. pc'[w] = "refresh" /\ local'[w].row = row
        BY <2>2, <2>3, <2>4, <1>a, <1>b, BeginEffect
    \* What a logout leaves has expired.
    <2>6. id \notin overlapped => id \notin loggedOut
        BY <2>1, <2>2, <1>a, <1>d DEF RowAlive, Expired
    <2>7. id \notin overlapped => CopyAlive(w, id)'
        BY <2>1, <2>2, <2>3, <2>5, <2>6, <1>c, <1>d DEF CopyAlive
    <2> QED
        BY <2>1, <2>2, <2>3, <2>4, <2>7, <1>b, BegunSession
<1>7. ASSUME NEW w \in Workers, RefreshWrite(w)
      PROVE  SessionInv'
    BY <1>7, WrittenSession DEF RefreshWrite, Writers, Replaced
<1>8. ASSUME NEW w \in Workers, NEW e \in Emails, ForgotRead(w, e)
      PROVE  SessionInv'
    <2> DEFINE exp == clock + ResetTTL
    <2>1. PICK id \in FindByEmail(e) :
            /\ Enter(id)
            /\ Begin(w, "forgot", id,
                     [Loaded(id) EXCEPT !.reset = Fresh, !.resetExp = exp])
            /\ UNCHANGED <<accounts, users, spent, loggedOut>>
        BY <1>8 DEF ForgotRead
    <2>2. id \in accounts /\ exp \in Nat
        BY <1>a, AuthAssumption DEF FindByEmail
    <2> DEFINE row == [Loaded(id) EXCEPT !.reset = Fresh, !.resetExp = exp]
    <2> HIDE DEF exp
    <2>3. /\ row \in Row /\ row.reset = Fresh
          /\ row.refresh = OrEmpty(users[id].refresh)
          /\ row.refreshExp = users[id].refreshExp
        <3>1. /\ Loaded(id) \in Row
              /\ Loaded(id).refresh = OrEmpty(users[id].refresh)
              /\ Loaded(id).refreshExp = users[id].refreshExp
            BY <2>2, LoadedType
        <3> QED
            BY <2>2, <3>1, <1>c DEF Row
    <2> HIDE DEF row
    <2>4. Begin(w, "forgot", id, row)
        BY <2>1 DEF row
    <2>5. pc'[w] = "forgot" /\ local'[w].row = row
        BY <2>2, <2>3, <2>4, <1>a, <1>b, BeginEffect
    <2>6. id \notin overlapped => CopyAlive(w, id)'
        BY <2>1, <2>2, <2>3, <2>5, <1>c, <1>d DEF CopyAlive, RowAlive
    <2> QED
        BY <2>1, <2>2, <2>3, <2>4, <2>6, <1>b, BegunSession
<1>9. ASSUME NEW w \in Workers, ForgotWrite(w)
      PROVE  SessionInv'
    BY <1>9, WrittenSession DEF ForgotWrite, Writers, Replaced
<1>10. ASSUME NEW w \in Workers, NEW t \in Presented, NEW p \in Passwords,
              ResetRead(w, t, p)
       PROVE  SessionInv'
    <2> DEFINE row == [BlankRow EXCEPT !.password = p]
    <2>1. PICK id \in FindByResetToken(t) :
            /\ Enter(id)
            /\ Begin(w, "setPassword", id, row)
            /\ UNCHANGED <<accounts, users, spent, loggedOut>>
        BY <1>10 DEF ResetRead
    <2>2. id \in accounts /\ row \in Row
        BY BlankRowType DEF FindByResetToken, Row
    <2> HIDE DEF row
    <2>3. pc'[w] = "setPassword"
        BY <2>1, <2>2, <1>a, <1>b, BeginEffect
    <2>4. CopyAlive(w, id)'
        BY <2>3 DEF CopyAlive, Writers
    <2> QED
        BY <2>1, <2>2, <2>4, <1>b, BegunSession
<1>11. ASSUME NEW w \in Workers, UpdatePassword(w)
       PROVE  SessionInv'
    <2> DEFINE id == local[w].id
               p  == local[w].row.password
    <2>1. /\ pc'[w] = "dropToken" /\ pc[w] = "setPassword" /\ local' = local
          /\ accounts' = accounts /\ spent' = spent /\ loggedOut' = loggedOut
          /\ overlapped' = overlapped
          /\ \A v \in Workers : v # w => pc'[v] = pc[v]
        BY <1>11 DEF UpdatePassword, TypeOK
    <2>2. \A i : \A v \in Workers : At(v, i)' = At(v, i)
        BY <2>1 DEF At, Busy
    <2>3. /\ \A i \in Ids \ accounts : users'[i] = users[i]
          /\ \A i \in accounts : /\ users'[i].refresh = users[i].refresh
                                /\ users'[i].refreshExp = users[i].refreshExp
                                /\ users'[i].reset = users[i].reset
        BY <1>11, <1>a DEF UpdatePassword, Row
    <2>4. BlankOutside' /\ AboutAccount'
        BY <2>1, <2>3 DEF SessionInv, BlankOutside, AboutAccount
    <2>5. ASSUME NEW i \in accounts \ overlapped
          PROVE  Alive(i)'
        <3>1. RowAlive(i)'
            BY <2>1, <2>3, <1>d DEF RowAlive
        <3>2. ASSUME NEW v \in Workers, At(v, i)'
              PROVE  CopyAlive(v, i)'
            <4>1. CASE v = w
                BY <2>1, <4>1 DEF CopyAlive, Writers
            <4>2. CASE v # w
                <5>1. CopyAlive(v, i)
                    BY <2>2, <2>5, <3>2 DEF SessionInv, Alive
                <5> QED
                    BY <2>1, <2>3, <4>2, <5>1 DEF CopyAlive
            <4> QED
                BY <4>1, <4>2
        <3> QED
            BY <3>1, <3>2 DEF Alive
    <2> QED
        BY <2>1, <2>4, <2>5 DEF SessionInv
<1>12. ASSUME NEW w \in Workers, DropResetToken(w)
       PROVE  SessionInv'
    <2> DEFINE id == local[w].id
    <2>1. /\ pc'[w] = "idle" /\ local'[w].id = 0
          /\ \A v \in Workers : v # w => pc'[v] = pc[v] /\ local'[v] = local[v]
        BY <1>12, EndEffect, BlankRowType DEF DropResetToken
    <2>2. \A i : \A v \in Workers : At(v, i)' =>
              v # w /\ At(v, i) /\ pc'[v] = pc[v] /\ local'[v] = local[v]
        BY <2>1 DEF At, Busy
    <2>3. /\ accounts' = accounts /\ overlapped' = overlapped
          /\ loggedOut' = loggedOut /\ pc[w] = "dropToken"
          /\ spent' = spent \cup ({users[id].reset} \cap Tokens)
        BY <1>12 DEF DropResetToken
    <2>4. At(w, id) /\ id \in Ids
        BY <2>3 DEF At, Busy, SessionInv, AboutAccount
    <2>5. /\ id \notin accounts => users' = users
          /\ \A i \in Ids : i # id => users'[i] = users[i]
          /\ id \in accounts => users'[id] = WithoutResetToken(users[id])
        BY <1>12, <1>a DEF DropResetToken
    <2>6. {users[id].reset} \cap Tokens \subseteq Held(id)
        <3>1. CASE id \in accounts
            BY <3>1 DEF Held
        <3>2. CASE id \notin accounts
            <4>1. users[id].reset = Null
                BY <2>4, <3>2, BlankRowType DEF SessionInv, BlankOutside
            <4> QED
                BY <4>1 DEF Tokens, Null
        <3> QED
            BY <3>1, <3>2
    <2>7. BlankOutside' /\ AboutAccount'
        BY <2>1, <2>3, <2>4, <2>5 DEF SessionInv, BlankOutside, AboutAccount
    <2>8. ASSUME NEW i \in accounts \ overlapped
          PROVE  Alive(i)'
        <3>1. CASE i = id
            <4>1. \A v \in Workers : ~At(v, i)'
                BY <2>2, <2>4, <2>8, <3>1 DEF WorkInv, OneAtATime
            <4>2. i \in Nat /\ users[i] \in Row /\ Sound(issued, i, users[i])
                BY <2>8, <1>a, <1>b DEF TokenInv, RowsSound
            <4>3. users[i].refresh \notin {users[i].reset} \cap Tokens
                BY <4>2, TokensApart
            <4>4. /\ users'[i].refresh = users[i].refresh
                  /\ users'[i].refreshExp = users[i].refreshExp
                  /\ users'[i].reset = Empty
                BY <2>5, <2>8, <3>1, <4>2, ResetTokenDropped
            <4>5. Empty \notin spent'
                BY <2>3, <1>a, <1>d DEF Empty
            <4>6. RowAlive(i)'
                BY <2>3, <2>8, <3>1, <4>3, <4>4, <4>5, <1>d DEF RowAlive
            <4> QED
                BY <4>1, <4>6 DEF Alive
        <3>2. CASE i # id
            BY <2>2, <2>3, <2>4, <2>5, <2>6, <2>8, <3>2, <1>a, OthersAlive
        <3> QED
            BY <3>1, <3>2
    <2> QED
        BY <2>3, <2>7, <2>8 DEF SessionInv
<1>13. ASSUME NEW w \in Workers, NEW e \in Emails, VerifyRead(w, e)
       PROVE  SessionInv'
    <2>1. PICK id \in FindByEmail(e) :
            /\ Enter(id)
            /\ Begin(w, "verify", id, [Loaded(id) EXCEPT !.verified = TRUE])
            /\ UNCHANGED <<accounts, users, spent, loggedOut>>
        BY <1>13 DEF VerifyRead
    <2>2. id \in accounts
        BY DEF FindByEmail
    <2> DEFINE row == [Loaded(id) EXCEPT !.verified = TRUE]
    <2>3. /\ row \in Row /\ row.reset = OrEmpty(users[id].reset)
          /\ row.refresh = OrEmpty(users[id].refresh)
          /\ row.refreshExp = users[id].refreshExp
        BY <2>2, LoadedType DEF Row
    <2> HIDE DEF row
    <2>4. Begin(w, "verify", id, row)
        BY <2>1 DEF row
    <2>5. pc'[w] = "verify" /\ local'[w].row = row
        BY <2>2, <2>3, <2>4, <1>a, <1>b, BeginEffect
    <2>6. id \notin overlapped => CopyAlive(w, id)'
        BY <2>1, <2>2, <2>3, <2>5, <1>d DEF CopyAlive, RowAlive
    <2> QED
        BY <2>1, <2>2, <2>3, <2>4, <2>6, <1>b, BegunSession
<1>14. ASSUME NEW w \in Workers, VerifyWrite(w)
       PROVE  SessionInv'
    BY <1>14, WrittenSession DEF VerifyWrite, Writers, Replaced
<1>15. ASSUME NEW w \in Workers, Abandon(w)
       PROVE  SessionInv'
    BY <1>15, EndedSession DEF Abandon, history
<1>16. ASSUME NEW id \in Ids, Logout(id)
       PROVE  SessionInv'
    <2>1. /\ accounts' = accounts /\ pc' = pc /\ local' = local
          /\ loggedOut' = loggedOut \cup ({id} \cap accounts)
          /\ spent' = spent \cup ({users[id].refresh} \cap Tokens)
        BY <1>16 DEF Logout
    <2>2. /\ overlapped \subseteq overlapped'
          /\ id \in accounts \ overlapped' => \A v \in Workers : ~At(v, id)
        BY <1>16, EnterEffect DEF Logout, At
    <2>3. \A i : \A v \in Workers : At(v, i)' = At(v, i)
        BY <2>1 DEF At, Busy
    <2>4. /\ id \notin accounts => users' = users
          /\ \A i \in Ids : i # id => users'[i] = users[i]
          /\ id \in accounts => users'[id] = WithoutRefreshToken(users[id])
        BY <1>16, <1>a DEF Logout
    <2>5. {users[id].refresh} \cap Tokens \subseteq Held(id)
        <3>1. CASE id \in accounts
            BY <3>1 DEF Held
        <3>2. CASE id \notin accounts
            <4>1. users[id].refresh = Null
                BY <3>2, BlankRowType DEF SessionInv, BlankOutside
            <4> QED
                BY <4>1 DEF Tokens, Null
        <3> QED
            BY <3>1, <3>2
    <2>6. BlankOutside' /\ AboutAccount'
        BY <2>1, <2>4 DEF SessionInv, BlankOutside, AboutAccount
    <2>7. ASSUME NEW i \in accounts \ overlapped'
          PROVE  Alive(i)'
        <3>0. i \in accounts \ overlapped
            BY <2>2, <2>7
        <3>1. CASE i = id
            <4>1. \A v \in Workers : ~At(v, i)'
                BY <2>2, <2>3, <2>7, <3>1
            <4>2. i \in Nat /\ users[i] \in Row /\ Sound(issued, i, users[i])
                BY <2>7, <1>a, <1>b DEF TokenInv, RowsSound
            <4>3. users[i].reset \notin {users[i].refresh} \cap Tokens
                BY <4>2, TokensApart
            <4>4. /\ users'[i].refresh = Empty
                  /\ users'[i].refreshExp = 0
                  /\ users'[i].reset = users[i].reset
                BY <2>4, <2>7, <3>1, <4>2, RefreshTokenDropped
            <4>5. Empty \notin spent'
                BY <2>1, <1>a, <1>d DEF Empty
            <4>6. RowAlive(i)'
                <5>1. users[i].reset \notin spent
                    BY <3>0, <1>d DEF RowAlive
                <5>2. users'[i].reset \notin spent'
                    BY <2>1, <3>1, <4>3, <4>4, <5>1
                <5> QED
                    BY <4>4, <4>5, <5>2 DEF RowAlive
            <4> QED
                BY <4>1, <4>6 DEF Alive
        <3>2. CASE i # id
            <4>1. spent' \subseteq spent \cup Held(id) /\ users'[i] = users[i]
                BY <2>1, <2>4, <2>5, <3>0, <3>2, <1>a
            <4>2. i \in loggedOut' => i \in loggedOut
                BY <2>1, <3>2
            <4>3. \A v \in Workers : At(v, i)' =>
                     At(v, i) /\ pc'[v] = pc[v] /\ local'[v] = local[v]
                BY <2>1, <2>3
            <4> QED
                BY <3>0, <3>2, <4>1, <4>2, <4>3, OthersAlive
        <3> QED
            BY <3>1, <3>2
    <2> QED
        BY <2>1, <2>6, <2>7 DEF SessionInv
<1>17. ASSUME NEW id \in Ids, DeleteAccount(id)
       PROVE  SessionInv'
    <2>1. /\ accounts' = accounts \ {id} /\ pc' = pc /\ local' = local
          /\ overlapped' = overlapped \ {id} /\ spent' = spent
          /\ loggedOut' = loggedOut \ {id}
        BY <1>17 DEF DeleteAccount
    <2>2. /\ users'[id] = BlankRow
          /\ \A i \in Ids : i # id => users'[i] = users[i]
        BY <1>17, <1>a DEF DeleteAccount
    <2>3. \A i : \A v \in Workers : At(v, i)' = At(v, i)
        BY <2>1 DEF At, Busy
    <2>4. BlankOutside' /\ AboutAccount'
        BY <2>1, <2>2 DEF SessionInv, BlankOutside, AboutAccount
    <2>5. \A i \in accounts' \ overlapped' : Alive(i)'
        BY <2>1, <2>2, <2>3, <1>a, OthersAlive
    <2> QED
        BY <2>4, <2>5 DEF SessionInv
<1>18. CASE Tick
    BY <1>18, <1>e DEF Tick, history, SessionInv, AboutAccount, At, Busy
<1> QED
    BY <1>1, <1>2, <1>3, <1>4, <1>5, <1>6, <1>7, <1>8, <1>9, <1>10, <1>11,
       <1>12, <1>13, <1>14, <1>15, <1>16, <1>17, <1>18 DEF Next, Request

(***************************************************************************)
(* A refresh token that was exchanged or logged out and a reset token that *)
(* was used or superseded never come back into the row, on every account   *)
(* whose requests never overlapped.                                        *)
(***************************************************************************)
THEOREM DeadTokensStayDead == Spec => []SpentTokensDead
<1>1. SessionInv => SpentTokensDead
    BY DEF SessionInv, Alive, RowAlive, SpentTokensDead
<1> QED
    BY <1>1, TypeInit, TypeStep, TokenInit, TokenStep, WorkInit, WorkStep,
       SessionInit, SessionStep, PTL DEF Spec

(***************************************************************************)
(* Nothing that an account's row says after a logout admits a renewal of   *)
(* the session, until a login is written.                                  *)
(***************************************************************************)
THEOREM LogoutIsFinal == Spec => []LogoutEndsSession
<1>1. TypeOK /\ SessionInv => LogoutEndsSession
    BY DEF TypeOK, SessionInv, Alive, RowAlive, LogoutEndsSession, Expired
<1> QED
    BY <1>1, TypeInit, TypeStep, TokenInit, TokenStep, WorkInit, WorkStep,
       SessionInit, SessionStep, PTL DEF Spec

-----------------------------------------------------------------------------
(***************************************************************************)
(* The service implements Accounts.  Two more facts are needed: a token    *)
(* that a request has drawn and not written yet is in no other copy, and   *)
(* the copy of a request at work alone on an account is still in step with *)
(* the row.                                                                *)
(***************************************************************************)
Lifetime(kind) == IF kind = "refresh" THEN RefreshTTL ELSE ResetTTL

HandInv ==
    /\ Len(issued) <= MaxTokens
    /\ \A t \in Tokens : issued[t].exp <= clock + Lifetime(issued[t].kind)
    /\ \A w \in Workers : InHand(w) \subseteq Tokens
    /\ \A v, w \in Workers : v # w => InHand(v) \cap InHand(w) = {}

Given == Tokens \ UNION {InHand(w) : w \in Workers}

LEMMA InHandIs ==
    ASSUME NEW w \in Workers
    PROVE  /\ pc[w] \in {"login", "refresh"} => InHand(w) = {local[w].row.refresh}
           /\ pc[w] = "forgot" => InHand(w) = {local[w].row.reset}
           /\ pc[w] \notin {"login", "refresh", "forgot"} => InHand(w) = {}
    BY DEF InHand

LEMMA InHandSame ==
    ASSUME NEW w \in Workers, pc'[w] = pc[w], local'[w] = local[w]
    PROVE  InHand(w)' = InHand(w)
    BY DEF InHand

LEMMA ExpiryType ==
    ASSUME TypeOK
    PROVE  /\ clock \in Nat /\ Len(issued) \in Nat
           /\ \A t \in Tokens : issued[t].exp \in Nat
           /\ \A kind : Lifetime(kind) \in Nat
<1>1. /\ issued \in Seq(TokenIssued) /\ clock \in Nat
    BY DEF TypeOK
<1>2. \A t \in Tokens : issued[t] \in TokenIssued
    BY <1>1, ElementOfSeq DEF Tokens
<1> QED
    BY <1>1, <1>2, LenProperties, AuthAssumption DEF TokenIssued, Lifetime

\* Whatever a step puts down is given from now on.
LEMMA PutDown ==
    ASSUME TypeOK, HandInv, issued' = issued, clock' \in Nat, clock <= clock',
           \A v \in Workers : InHand(v)' \in {InHand(v), {}}
    PROVE  /\ HandInv'
           /\ Given' = Given \cup
                UNION {InHand(v) : v \in {w \in Workers : InHand(w)' = {}}}
<1>1. Tokens' = Tokens
    BY DEF Tokens
<1>2. \A t \in Tokens : issued[t].exp <= clock' + Lifetime(issued[t].kind)
    <2> SUFFICES ASSUME NEW t \in Tokens
                 PROVE  issued[t].exp <= clock' + Lifetime(issued[t].kind)
        OBVIOUS
    <2>1. /\ issued[t].exp \in Nat /\ Lifetime(issued[t].kind) \in Nat
          /\ clock \in Nat
          /\ issued[t].exp <= clock + Lifetime(issued[t].kind)
        BY ExpiryType DEF HandInv
    <2> QED
        BY <2>1
<1>3. HandInv'
    BY <1>1, <1>2 DEF HandInv, Lifetime
<1>4. Given' = Given \cup
          UNION {InHand(v) : v \in {w \in Workers : InHand(w)' = {}}}
    BY <1>1 DEF Given, HandInv
<1> QED
    BY <1>3, <1>4

\* A token drawn into a copy is not given yet.
LEMMA PickedUp ==
    ASSUME TypeOK, HandInv, clock' = clock, NEW w \in Workers,
           NEW id \in Nat, NEW kind \in {"refresh", "reset"},
           Draw(id, kind, clock + Lifetime(kind)),
           InHand(w) = {}, InHand(w)' = {Fresh},
           \A v \in Workers : v # w => InHand(v)' = InHand(v)
    PROVE  HandInv' /\ Given' = Given
<1>1. clock + Lifetime(kind) \in Nat
    BY ExpiryType
<1>2. /\ Len(issued) \in Nat /\ Len(issued') = Len(issued) + 1
      /\ Fresh = Len(issued) + 1
      /\ \A t \in Tokens : issued'[t] = issued[t]
      /\ issued'[Fresh] = [id |-> id, kind |-> kind,
                           exp |-> clock + Lifetime(kind)]
    BY <1>1, DrawEffect
<1>3. Tokens' = Tokens \cup {Fresh} /\ Fresh \notin Tokens
    BY <1>2 DEF Tokens
<1>4. Len(issued') <= MaxTokens
    BY <1>2, AuthAssumption DEF Draw
<1>5. \A t \in Tokens' : issued'[t].exp <= clock + Lifetime(issued'[t].kind)
    <2>1. issued'[Fresh].exp <= clock + Lifetime(issued'[Fresh].kind)
        BY <1>1, <1>2
    <2> QED
        BY <1>2, <1>3, <2>1 DEF HandInv
<1>6. HandInv'
    BY <1>3, <1>4, <1>5 DEF HandInv, Lifetime
<1>7. (UNION {InHand(v) : v \in Workers})' =
          (UNION {InHand(v) : v \in Workers}) \cup {Fresh}
    <2>1. \A v \in Workers : InHand(v)' = IF v = w THEN {Fresh} ELSE InHand(v)
        OBVIOUS
    <2> QED
        BY <2>1
<1> QED
    BY <1>3, <1>6, <1>7 DEF Given

-----------------------------------------------------------------------------
\* The copy of a request about account i, as far as it writes or trusts it.
InStep(w, i) ==
    LET r == local[w].row IN
    /\ pc[w] \in {"login", "verify"} =>
          /\ OrEmpty(r.reset) = OrEmpty(users[i].reset)
          /\ r.resetExp = users[i].resetExp
    /\ pc[w] \in {"forgot", "verify"} =>
          /\ OrEmpty(r.refresh) = OrEmpty(users[i].refresh)
          /\ r.refreshExp = users[i].refreshExp
    /\ pc[w] = "refresh" =>
          /\ r.reset = Empty /\ r.resetExp = 0
          /\ OrEmpty(users[i].refresh) # Empty
    /\ pc[w] = "setPassword" => OrEmpty(users[i].reset) # Empty

CopyInv ==
    \A i \in accounts \ overlapped, w \in Workers : At(w, i) => InStep(w, i)

\* A step about one id leaves the copies at the other accounts in step.
LEMMA OthersInStep ==
    ASSUME CopyInv, NEW id,
           \A i \in accounts' \ overlapped' : i # id =>
               /\ i \in accounts \ overlapped
               /\ users'[i] = users[i]
               /\ \A v \in Workers : At(v, i)' =>
                     At(v, i) /\ pc'[v] = pc[v] /\ local'[v] = local[v],
           id \in accounts' \ overlapped' =>
               \A v \in Workers : At(v, id)' => InStep(v, id)'
    PROVE  CopyInv'
<1> SUFFICES ASSUME NEW i \in accounts' \ overlapped', NEW v \in Workers,
                    At(v, i)'
             PROVE  InStep(v, i)'
    BY DEF CopyInv
<1>1. CASE i = id
    BY <1>1
<1>2. CASE i # id
    <2>1. /\ InStep(v, i) /\ pc'[v] = pc[v] /\ local'[v] = local[v]
          /\ users'[i] = users[i]
        BY <1>2 DEF CopyInv
    <2> QED
        BY <2>1 DEF InStep
<1> QED
    BY <1>1, <1>2

\* A request takes a copy; it is alone at an account that stays undisturbed.
LEMMA BegunCopy ==
    ASSUME TypeOK, CopyInv,
           NEW w \in Workers, NEW step \in PcState \ {"idle", "create"},
           NEW id \in accounts, NEW row \in Row,
           Begin(w, step, id, row), Enter(id), UNCHANGED <<accounts, users>>,
           InStep(w, id)'
    PROVE  CopyInv'
<1>1. id \in Ids /\ accounts' = accounts /\ users' = users
    BY DEF TypeOK
<1>2. /\ pc'[w] = step /\ local'[w].id = id
      /\ \A v \in Workers : v # w => pc'[v] = pc[v] /\ local'[v] = local[v]
    BY <1>1, BeginEffect
<1>3. /\ overlapped \subseteq overlapped'
      /\ id \notin overlapped' => \A v \in Workers : ~At(v, id)
    BY <1>1, EnterEffect DEF At
<1>4. \A i : \A v \in Workers : v # w => At(v, i)' = At(v, i)
    BY <1>2 DEF At, Busy
<1>5. \A i : At(w, i)' => i = id
    BY <1>2 DEF At
<1> QED
    BY <1>1, <1>2, <1>3, <1>4, <1>5, OthersInStep

\* A request ends.
LEMMA EndedCopy ==
    ASSUME TypeOK, WorkInv, CopyInv, NEW w \in Workers, Busy(w), End(w),
           UNCHANGED <<accounts, overlapped>>,
           \A i \in accounts : i # local[w].id => users'[i] = users[i]
    PROVE  CopyInv'
<1> PICK id : id = local[w].id
    OBVIOUS
<1>1. /\ pc'[w] = "idle"
      /\ \A v \in Workers : v # w => pc'[v] = pc[v] /\ local'[v] = local[v]
    BY EndEffect
<1>2. \A i : \A v \in Workers : At(v, i)' =>
          v # w /\ At(v, i) /\ pc'[v] = pc[v] /\ local'[v] = local[v]
    BY <1>1 DEF At, Busy
<1>3. At(w, id)
    BY DEF At
<1>4. id \in accounts \ overlapped => \A v \in Workers : ~At(v, id)'
    BY <1>2, <1>3 DEF WorkInv, OneAtATime
<1> QED
    BY <1>2, <1>4, OthersInStep

-----------------------------------------------------------------------------
\* The accounts as the mapping shows them.
Table == [id \in accounts |-> Credentials(users[id])]

LEMMA CredentialsType ==
    ASSUME TypeOK, TokenInv, HandInv, NEW id \in accounts
    PROVE  Credentials(users[id]) \in Requests!Account
<1> DEFINE r == users[id]
<1>1. r \in Row /\ Sound(issued, id, r) /\ Len(issued) <= MaxTokens
      /\ Len(issued) \in Nat /\ MaxTokens \in Nat
    BY ExpiryType, AuthAssumption DEF TypeOK, TokenInv, RowsSound, HandInv
<1>2. /\ r.refresh \in Nat \cup {Null} /\ r.reset \in Nat \cup {Null}
      /\ r.email \in Emails /\ r.password \in Passwords
      /\ r.refreshExp \in Nat /\ r.resetExp \in Nat
    BY <1>1 DEF Row
<1>3. r.refresh <= Len(issued) /\ r.reset <= Len(issued)
    BY <1>1 DEF Sound, SoundToken
<1>4. \A t \in {r.refresh, r.reset} : OrEmpty(t) \in 1 .. MaxTokens \cup {0}
    BY <1>1, <1>2, <1>3 DEF OrEmpty, Null, Empty
<1> HIDE DEF r
<1>5. Credentials(r) \in Requests!Account
    BY <1>2, <1>4 DEF Credentials, Requests!Account, Requests!NoToken
<1> QED
    BY <1>5 DEF r

LEMMA CredentialsOf ==
    ASSUME NEW row \in Row
    PROVE  LET c == Credentials(row) IN
           /\ c \in [email : Emails, password : Passwords,
                     refresh : Nat, refreshExp : Nat, reset : Nat, resetExp : Nat]
           /\ c.email = row.email /\ c.password = row.password
           /\ c.refresh = OrEmpty(row.refresh) /\ c.refreshExp = row.refreshExp
           /\ c.reset = OrEmpty(row.reset) /\ c.resetExp = row.resetExp
<1>1. OrEmpty(row.refresh) \in Nat /\ OrEmpty(row.reset) \in Nat
    BY DEF Row, OrEmpty, Empty
<1> QED
    BY <1>1 DEF Row, Credentials

LEMMA CredentialsDropped ==
    ASSUME NEW row \in Row
    PROVE  /\ Credentials(WithoutResetToken(row)) =
                [Credentials(row) EXCEPT !.reset = Empty, !.resetExp = 0]
           /\ Credentials(WithoutRefreshToken(row)) =
                [Credentials(row) EXCEPT !.refresh = Empty, !.refreshExp = 0]
<1>1. OrEmpty(Empty) = 0 /\ Empty = 0
    BY DEF OrEmpty, Empty, Null
<1> DEFINE Columns == [email : Emails, password : Passwords,
                       refresh : Nat, refreshExp : Nat,
                       reset : Nat, resetExp : Nat]
           c == Credentials(row)
<1>2. /\ c \in Columns
      /\ c.email = row.email /\ c.password = row.password
      /\ c.refresh = OrEmpty(row.refresh) /\ c.refreshExp = row.refreshExp
      /\ c.reset = OrEmpty(row.reset) /\ c.resetExp = row.resetExp
    BY CredentialsOf
<1> HIDE DEF c
<1>3. ASSUME NEW d, d = Credentials(WithoutResetToken(row))
      PROVE  d = [c EXCEPT !.reset = 0, !.resetExp = 0]
    <2>1. WithoutResetToken(row) \in Row
        BY ResetTokenDropped
    <2>2. /\ d \in Columns
          /\ d.email = c.email /\ d.password = c.password
          /\ d.reset = 0 /\ d.resetExp = 0
          /\ d.refresh = c.refresh /\ d.refreshExp = c.refreshExp
        BY <1>1, <1>2, <1>3, <2>1, ResetTokenDropped, CredentialsOf
    <2> QED
        BY <1>2, <2>2
<1>4. ASSUME NEW d, d = Credentials(WithoutRefreshToken(row))
      PROVE  d = [c EXCEPT !.refresh = 0, !.refreshExp = 0]
    <2>1. WithoutRefreshToken(row) \in Row
        BY RefreshTokenDropped
    <2>2. /\ d \in Columns
          /\ d.email = c.email /\ d.password = c.password
          /\ d.refresh = 0 /\ d.refreshExp = 0
          /\ d.reset = c.reset /\ d.resetExp = c.resetExp
        BY <1>1, <1>2, <1>4, <2>1, RefreshTokenDropped, CredentialsOf
    <2> QED
        BY <1>2, <2>2
<1> QED
    BY <1>1, <1>3, <1>4 DEF c

LEMMA TableTyped ==
    TypeOK /\ TokenInv /\ HandInv
        => \A i \in accounts : Table[i] \in Requests!Account
    BY CredentialsType DEF Table

LEMMA TableIs ==
    /\ DOMAIN Table = accounts
    /\ \A i \in accounts : Table[i] = Credentials(users[i])
    BY DEF Table

LEMMA TableNext ==
    /\ DOMAIN Table' = accounts'
    /\ \A i \in accounts' : Table'[i] = Credentials(users'[i])
    BY DEF Table, Credentials, OrEmpty

LEMMA TableKept ==
    ASSUME accounts' = accounts, \A i \in accounts : users'[i] = users[i]
    PROVE  Table' = Table
    BY DEF Table, Credentials, OrEmpty

LEMMA TableSeen ==
    ASSUME accounts' = accounts,
           \A i \in accounts : Credentials(users'[i]) = Credentials(users[i])
    PROVE  Table' = Table
<1>1. Table' = [i \in accounts |-> Credentials(users'[i])]
    BY DEF Table, Credentials, OrEmpty
<1> QED
    BY <1>1 DEF Table

LEMMA TableSet ==
    ASSUME accounts' = accounts, NEW id \in accounts,
           \A i \in accounts : i # id => users'[i] = users[i]
    PROVE  Table' = [Table EXCEPT ![id] = Credentials(users'[id])]
    BY DEF Table, Credentials, OrEmpty

-----------------------------------------------------------------------------
(***************************************************************************)
(* Steps of Accounts, recognised from what a step does to the rows.        *)
(***************************************************************************)
RequestVars == <<clock, Table, used, Given, overlapped>>

LEMMA Meets ==
    ASSUME TypeOK', TokenInv', HandInv', NEW id \in accounts,
           UNCHANGED <<clock, accounts, used>>,
           \A i \in accounts : i # id => users'[i] = users[i],
           users'[id].email = users[id].email,
           overlapped' = overlapped \cup {id},
           Given \subseteq Given'
    PROVE  Requests!Next
<1>1. (\A i \in accounts : Table[i] \in Requests!Account)'
    BY TableTyped, PTL
<1>2. \A i \in accounts : Credentials(users'[i]) \in Requests!Account
    BY <1>1, TableNext
<1>3. Requests!Meet(id)
    BY <1>2 DEF Requests!Meet, Given, Credentials, OrEmpty
<1>4. id \in DOMAIN Table
    BY DEF Table
<1> QED
    BY <1>3, <1>4 DEF Requests!Next, Table

\* A request comes to an account.
LEMMA Reads ==
    ASSUME TypeOK, TypeOK', TokenInv', HandInv', NEW id \in accounts, Enter(id),
           Given' = Given, UNCHANGED <<clock, accounts, users, used>>
    PROVE  Requests!Next \/ UNCHANGED RequestVars
<1>1. overlapped' = overlapped \/ overlapped' = overlapped \cup {id}
    BY DEF Enter
<1>2. CASE overlapped' = overlapped
    BY <1>2, TableKept DEF RequestVars
<1>3. CASE overlapped' = overlapped \cup {id}
    BY <1>3, Meets
<1> QED
    BY <1>1, <1>2, <1>3

\* The row of one account changes and nothing else of the accounts.
Changes(id, r) ==
    /\ id \in accounts
    /\ UNCHANGED <<clock, accounts, used, overlapped>>
    /\ \A i \in accounts : i # id => users'[i] = users[i]
    /\ Credentials(users'[id]) = r

\* A token gets into an account that was in none before.
Gives(t, exp, ttl) ==
    /\ t \in 1 .. MaxTokens /\ t \notin Given /\ Given' = Given \cup {t}
    /\ exp \in 0 .. clock + ttl

LEMMA LogsIn ==
    ASSUME NEW id, NEW t, NEW exp, Gives(t, exp, RefreshTTL),
           Changes(id, [Credentials(users[id])
                            EXCEPT !.refresh = t, !.refreshExp = exp])
    PROVE  Requests!Next
<1>1. Table' = [Table EXCEPT ![id] = Credentials(users'[id])] /\ id \in DOMAIN Table
    BY TableSet, TableIs DEF Changes
<1>2. Table' = [Table EXCEPT ![id].refresh = t, ![id].refreshExp = exp]
    BY <1>1, TableIs DEF Changes
<1>3. Requests!Login(id)
    BY <1>2 DEF Requests!Login, Requests!Give, Requests!Within, Table, Given,
                Gives, Changes
<1> QED
    BY <1>1, <1>3 DEF Requests!Next, Table

LEMMA Refreshes ==
    ASSUME NEW id, NEW t, NEW exp, Gives(t, exp, RefreshTTL),
           OrEmpty(users[id].refresh) # Empty,
           Changes(id, [Credentials(users[id])
                            EXCEPT !.refresh = t, !.refreshExp = exp,
                                   !.reset = Empty, !.resetExp = 0])
    PROVE  Requests!Next
<1>1. Table' = [Table EXCEPT ![id] = Credentials(users'[id])] /\ id \in DOMAIN Table
    BY TableSet, TableIs DEF Changes
<1>2. Table' = [Table EXCEPT ![id].refresh = t, ![id].refreshExp = exp,
                             ![id].reset = Empty, ![id].resetExp = 0]
    BY <1>1, TableIs DEF Changes
<1>3. Table[id].refresh # Empty
    BY <1>1, TableIs DEF Credentials
<1>4. UNCHANGED <<clock, used, overlapped>>
    BY DEF Changes
<1>5. Requests!Give(t) /\ exp \in Requests!Within(RefreshTTL)
    BY DEF Gives, Given, Requests!Give, Requests!Within
<1>6. t \in 1 .. MaxTokens
    BY DEF Gives
<1>7. Requests!Refresh(id)
    BY <1>2, <1>3, <1>4, <1>5, <1>6
       DEF Requests!Refresh, Table, Requests!NoToken, Empty
<1> QED
    BY <1>1, <1>7 DEF Requests!Next, Table

LEMMA Forgets ==
    ASSUME NEW id, NEW t, NEW exp, Gives(t, exp, ResetTTL),
           Changes(id, [Credentials(users[id])
                            EXCEPT !.reset = t, !.resetExp = exp])
    PROVE  Requests!Next
<1>1. Table' = [Table EXCEPT ![id] = Credentials(users'[id])] /\ id \in DOMAIN Table
    BY TableSet, TableIs DEF Changes
<1>2. Table' = [Table EXCEPT ![id].reset = t, ![id].resetExp = exp]
    BY <1>1, TableIs DEF Changes
<1>3. Requests!ForgotPassword(id)
    BY <1>2 DEF Requests!ForgotPassword, Requests!Give, Requests!Within, Table,
                Given, Gives, Changes
<1> QED
    BY <1>1, <1>3 DEF Requests!Next, Table

LEMMA SetsPassword ==
    ASSUME NEW id, NEW p \in Passwords, Given' = Given,
           OrEmpty(users[id].reset) # Empty,
           Changes(id, [Credentials(users[id]) EXCEPT !.password = p])
    PROVE  Requests!Next
<1>1. Table' = [Table EXCEPT ![id] = Credentials(users'[id])] /\ id \in DOMAIN Table
    BY TableSet, TableIs DEF Changes
<1>2. Table' = [Table EXCEPT ![id].password = p]
    BY <1>1, TableIs DEF Changes
<1>3. Table[id].reset # Empty
    BY <1>1, TableIs DEF Credentials
<1>4. Requests!SetPassword(id)
    BY <1>2, <1>3 DEF Requests!SetPassword, Table, Given, Changes,
                      Requests!NoToken, Empty
<1> QED
    BY <1>1, <1>4 DEF Requests!Next, Table

LEMMA DropsReset ==
    ASSUME NEW id, Given' = Given,
           Changes(id, [Credentials(users[id])
                            EXCEPT !.reset = Empty, !.resetExp = 0])
    PROVE  Requests!Next
<1>1. Table' = [Table EXCEPT ![id] = Credentials(users'[id])] /\ id \in DOMAIN Table
    BY TableSet, TableIs DEF Changes
<1>2. Table' = [Table EXCEPT ![id].reset = Empty, ![id].resetExp = 0]
    BY <1>1, TableIs DEF Changes
<1>3. Requests!DropReset(id)
    BY <1>2 DEF Requests!DropReset, Table, Given, Changes, Requests!NoToken,
                Empty
<1> QED
    BY <1>1, <1>3 DEF Requests!Next, Table

LEMMA LogsOut ==
    ASSUME NEW id, Given' = Given,
           Changes(id, [Credentials(users[id])
                            EXCEPT !.refresh = Empty, !.refreshExp = 0])
    PROVE  Requests!Next
<1>1. Table' = [Table EXCEPT ![id] = Credentials(users'[id])] /\ id \in DOMAIN Table
    BY TableSet, TableIs DEF Changes
<1>2. Table' = [Table EXCEPT ![id].refresh = Empty, ![id].refreshExp = 0]
    BY <1>1, TableIs DEF Changes
<1>3. Requests!Logout(id)
    BY <1>2 DEF Requests!Logout, Table, Given, Changes, Requests!NoToken, Empty
<1> QED
    BY <1>1, <1>3 DEF Requests!Next, Table

\* A token that was drawn for nothing.
LEMMA Wastes ==
    ASSUME NEW t \in 1 .. MaxTokens, t \notin Given, Given' = Given \cup {t},
           UNCHANGED <<clock, accounts, used, overlapped>>,
           \A i \in accounts : users'[i] = users[i]
    PROVE  Requests!Next
<1>1. Table' = Table
    BY TableKept
<1>2. Requests!Waste
    BY <1>1 DEF Requests!Waste, Table, Given
<1> QED
    BY <1>2 DEF Requests!Next

-----------------------------------------------------------------------------
(***************************************************************************)
(* What the kinds of step do to the tokens in hand.                        *)
(***************************************************************************)
LEMMA HandsSame ==
    ASSUME TypeOK, HandInv, issued' = issued, clock' \in Nat, clock <= clock',
           \A v \in Workers : InHand(v)' = InHand(v)
    PROVE  HandInv' /\ Given' = Given
<1>1. /\ HandInv'
      /\ Given' = Given \cup
            UNION {InHand(v) : v \in {u \in Workers : InHand(u)' = {}}}
    BY PutDown
<1> QED
    BY <1>1

LEMMA HandEmptied ==
    ASSUME TypeOK, HandInv, issued' = issued, clock' = clock,
           NEW w \in Workers, End(w)
    PROVE  HandInv' /\ Given' = Given \cup InHand(w)
<1>1. /\ pc'[w] = "idle"
      /\ \A v \in Workers : v # w => pc'[v] = pc[v] /\ local'[v] = local[v]
    BY EndEffect
<1>2. InHand(w)' = {}
    BY <1>1 DEF InHand
<1>3. \A v \in Workers : v # w => InHand(v)' = InHand(v)
    BY <1>1 DEF InHand
<1>4. clock' \in Nat /\ clock <= clock'
    BY ExpiryType
<1>5. /\ HandInv'
      /\ Given' = Given \cup
            UNION {InHand(v) : v \in {u \in Workers : InHand(u)' = {}}}
    BY <1>2, <1>3, <1>4, PutDown
<1> QED
    BY <1>2, <1>3, <1>5

LEMMA HandFilled ==
    ASSUME TypeOK, HandInv, clock' = clock, NEW w \in Workers,
           NEW step \in {"login", "refresh", "forgot"},
           NEW id \in accounts, NEW row \in Row, Begin(w, step, id, row),
           LET kind == IF step = "forgot" THEN "reset" ELSE "refresh" IN
           /\ Draw(id, kind, clock + Lifetime(kind))
           /\ IF step = "forgot" THEN row.reset = Fresh ELSE row.refresh = Fresh
    PROVE  HandInv' /\ Given' = Given
<1>1. step \in PcState /\ id \in {0} \cup Ids /\ id \in Nat
    BY AuthAssumption DEF PcState, TypeOK, Ids
<1>2. /\ pc[w] = "idle" /\ pc'[w] = step /\ local'[w].row = row
      /\ \A v \in Workers : v # w => pc'[v] = pc[v] /\ local'[v] = local[v]
    BY <1>1, BeginEffect
<1>3. InHand(w) = {} /\ InHand(w)' = {Fresh}
    BY <1>2 DEF InHand
<1>4. \A v \in Workers : v # w => InHand(v)' = InHand(v)
    BY <1>2 DEF InHand
<1> DEFINE kind == IF step = "forgot" THEN "reset" ELSE "refresh"
<1>5. kind \in {"refresh", "reset"} /\ Draw(id, kind, clock + Lifetime(kind))
    OBVIOUS
<1> HIDE DEF kind
<1> QED
    BY <1>1, <1>3, <1>4, <1>5, PickedUp

\* A token in hand is given when the copy is written.
LEMMA HandGives ==
    ASSUME TypeOK, TokenInv, HandInv, NEW w \in Workers,
           Given' = Given \cup InHand(w)
    PROVE  LET r == local[w].row IN
           /\ pc[w] \in {"login", "refresh"} =>
                 /\ Gives(r.refresh, r.refreshExp, RefreshTTL)
                 /\ OrEmpty(r.refresh) = r.refresh
           /\ pc[w] = "forgot" =>
                 /\ Gives(r.reset, r.resetExp, ResetTTL)
                 /\ OrEmpty(r.reset) = r.reset
<1> DEFINE r == local[w].row
<1>1. /\ r \in Row /\ Sound(issued, local[w].id, r) /\ MaxTokens \in Nat
      /\ Len(issued) \in Nat /\ Len(issued) <= MaxTokens /\ clock \in Nat
      /\ InHand(w) \subseteq Tokens
    BY ExpiryType, AuthAssumption DEF TypeOK, TokenInv, CopiesSound, HandInv
<1>2. /\ r.refreshExp \in Nat /\ r.resetExp \in Nat
      /\ RefreshTTL \in Nat /\ ResetTTL \in Nat
    BY <1>1, AuthAssumption DEF Row
<1>3. ASSUME NEW t, NEW exp \in Nat, NEW kind \in {"refresh", "reset"},
             InHand(w) = {t}, SoundToken(issued, local[w].id, kind, t, exp)
      PROVE  Gives(t, exp, Lifetime(kind)) /\ OrEmpty(t) = t
    <2>1. t \in Tokens /\ t \in 1 .. MaxTokens /\ t \in Nat /\ t >= 1
        BY <1>1, <1>3 DEF Tokens
    <2>2. issued[t].exp = exp /\ issued[t].kind = kind
        BY <1>3, <2>1 DEF SoundToken
    <2>3. exp <= clock + Lifetime(kind) /\ Lifetime(kind) \in Nat
        BY <2>1, <2>2, ExpiryType DEF HandInv
    <2>4. t \notin Given /\ Given' = Given \cup {t}
        BY <1>3 DEF Given
    <2>5. exp \in 0 .. clock + Lifetime(kind)
        BY <1>1, <2>3
    <2>6. OrEmpty(t) = t
        BY <2>1 DEF OrEmpty, Null
    <2> QED
        BY <2>1, <2>4, <2>5, <2>6 DEF Gives
<1>4. Lifetime("refresh") = RefreshTTL /\ Lifetime("reset") = ResetTTL
    BY DEF Lifetime
<1>5. /\ SoundToken(issued, local[w].id, "refresh", r.refresh, r.refreshExp)
      /\ SoundToken(issued, local[w].id, "reset", r.reset, r.resetExp)
    BY <1>1 DEF Sound
<1> QED
    BY <1>2, <1>3, <1>4, <1>5, InHandIs

(***************************************************************************)
(* A request writes its copy back: at an account of which it was the only  *)
(* request, that does what the request promises.                           *)
(***************************************************************************)
Acts == Requests!Next \/ UNCHANGED RequestVars

LEMMA Writes ==
    ASSUME TypeOK, TokenInv, WorkInv, SessionInv, HandInv, CopyInv,
           TypeOK', TokenInv', NEW w \in Workers, pc[w] \in Writers,
           Update(local[w]), End(w),
           UNCHANGED <<clock, used, issued, overlapped>>
    PROVE  HandInv' /\ CopyInv' /\ Acts
<1> PICK id : id = local[w].id
    OBVIOUS
<1> DEFINE r == local[w].row
<1>1. /\ accounts' = accounts /\ id \in Ids /\ r \in Row
      /\ \A i \in Ids : i # id => users'[i] = users[i]
      /\ id \notin accounts => users' = users
      /\ id \in accounts => /\ users'[id].email = r.email
                            /\ users'[id].password = r.password
                            /\ users'[id].refresh = r.refresh
                            /\ users'[id].refreshExp = r.refreshExp
                            /\ users'[id].reset = r.reset
                            /\ users'[id].resetExp = r.resetExp
    BY UpdateEffect DEF SessionInv, AboutAccount, Writers, TypeOK
<1>2. \A i \in accounts : i # id => users'[i] = users[i]
    BY <1>1 DEF TypeOK
<1>3. At(w, id)
    BY DEF At, Busy, Writers
<1>4. HandInv' /\ Given' = Given \cup InHand(w)
    BY HandEmptied
<1>5. CopyInv'
    BY <1>1, <1>2, <1>3, EndedCopy DEF At
<1> SUFFICES Acts
    BY <1>4, <1>5
<1>6. CASE id \notin accounts
    <2>1. \A i \in accounts : users'[i] = users[i]
        BY <1>1, <1>6
    <2>2. CASE InHand(w) = {}
        BY <1>1, <1>4, <2>1, <2>2, TableKept DEF Acts, RequestVars
    <2>3. CASE InHand(w) # {}
        <3>1. PICK t \in 1 .. MaxTokens :
                /\ t \notin Given /\ InHand(w) = {t}
            BY <1>4, <2>3, HandGives, InHandIs DEF Gives
        <3> QED
            BY <1>1, <1>4, <2>1, <3>1, Wastes DEF Acts
    <2> QED
        BY <2>2, <2>3
<1>7. CASE id \in accounts /\ id \in overlapped
    <2>1. users'[id].email = users[id].email
        BY <1>1, <1>3, <1>7 DEF WorkInv, EmailsFixed
    <2>2. overlapped' = overlapped \cup {id}
        BY <1>7
    <2> QED
        BY <1>1, <1>2, <1>4, <1>7, <2>1, <2>2, Meets DEF Acts
<1>8. CASE id \in accounts /\ id \notin overlapped
    <2>1. /\ r.email = users[id].email /\ r.password = users[id].password
          /\ InStep(w, id)
        BY <1>3, <1>8 DEF WorkInv, EmailsFixed, PasswordsCopied, CopyInv
    <2> DEFINE c == Credentials(users[id])
    <2> PICK d : d = Credentials(users'[id])
        OBVIOUS
    <2>2. Changes(id, d)
        BY <1>1, <1>2, <1>8 DEF Changes
    <2>3. LET S == [email : Emails, password : Passwords,
                    refresh : Nat, refreshExp : Nat, reset : Nat, resetExp : Nat]
          IN  /\ c \in S /\ d \in S
              /\ c.email = users[id].email /\ c.password = users[id].password
              /\ c.refresh = OrEmpty(users[id].refresh)
              /\ c.refreshExp = users[id].refreshExp
              /\ c.reset = OrEmpty(users[id].reset)
              /\ c.resetExp = users[id].resetExp
              /\ d.email = r.email /\ d.password = r.password
              /\ d.refresh = OrEmpty(r.refresh) /\ d.refreshExp = r.refreshExp
              /\ d.reset = OrEmpty(r.reset) /\ d.resetExp = r.resetExp
        <3>1. users[id] \in Row /\ users'[id] \in Row
            BY <1>1 DEF TypeOK
        <3> QED
            BY <1>1, <1>8, <3>1, CredentialsOf
    <2> HIDE DEF c
    <2>4. CASE pc[w] = "login"
        <3>1. /\ Gives(r.refresh, r.refreshExp, RefreshTTL)
              /\ OrEmpty(r.refresh) = r.refresh
            BY <1>4, <2>4, HandGives
        <3>2. /\ OrEmpty(r.reset) = OrEmpty(users[id].reset)
              /\ r.resetExp = users[id].resetExp
            BY <2>1, <2>4 DEF InStep
        <3>3. d =
                [c EXCEPT !.refresh = r.refresh, !.refreshExp = r.refreshExp]
            BY <2>1, <2>3, <3>1, <3>2
        <3> QED
            BY <2>2, <3>1, <3>3, LogsIn DEF Acts, c
    <2>5. CASE pc[w] = "refresh"
        <3>1. /\ Gives(r.refresh, r.refreshExp, RefreshTTL)
              /\ OrEmpty(r.refresh) = r.refresh
            BY <1>4, <2>5, HandGives
        <3>2. /\ OrEmpty(r.reset) = Empty /\ r.resetExp = 0
              /\ OrEmpty(users[id].refresh) # Empty
            BY <2>1, <2>5 DEF InStep, OrEmpty
        <3>3. d =
                [c EXCEPT !.refresh = r.refresh, !.refreshExp = r.refreshExp,
                          !.reset = Empty, !.resetExp = 0]
            <4> DEFINE m == [c EXCEPT !.refresh = r.refresh,
                                      !.refreshExp = r.refreshExp,
                                      !.reset = 0, !.resetExp = 0]
            <4>1. /\ m \in [email : Emails, password : Passwords,
                            refresh : Nat, refreshExp : Nat,
                            reset : Nat, resetExp : Nat]
                  /\ m.email = c.email /\ m.password = c.password
                  /\ m.refresh = r.refresh /\ m.refreshExp = r.refreshExp
                  /\ m.reset = 0 /\ m.resetExp = 0
                <5>1. r.refresh \in Nat /\ r.refreshExp \in Nat
                    BY <2>3, <3>1
                <5> QED
                    BY <2>3, <5>1
            <4> HIDE DEF m
            <4>2. d = m
                BY <2>1, <2>3, <3>1, <3>2, <4>1 DEF Empty
            <4> QED
                BY <4>2 DEF m, Empty
        <3> QED
            BY <2>2, <3>1, <3>2, <3>3, Refreshes DEF Acts, c
    <2>6. CASE pc[w] = "forgot"
        <3>1. /\ Gives(r.reset, r.resetExp, ResetTTL)
              /\ OrEmpty(r.reset) = r.reset
            BY <1>4, <2>6, HandGives
        <3>2. /\ OrEmpty(r.refresh) = OrEmpty(users[id].refresh)
              /\ r.refreshExp = users[id].refreshExp
            BY <2>1, <2>6 DEF InStep
        <3>3. d =
                [c EXCEPT !.reset = r.reset, !.resetExp = r.resetExp]
            BY <2>1, <2>3, <3>1, <3>2
        <3> QED
            BY <2>2, <3>1, <3>3, Forgets DEF Acts, c
    <2>7. CASE pc[w] = "verify"
        <3>1. d = c
            BY <2>1, <2>3, <2>7 DEF InStep
        <3>2. Table' = Table
            BY <1>1, <1>2, <3>1, TableSeen DEF c
        <3>3. InHand(w) = {}
            BY <2>7 DEF InHand
        <3> QED
            BY <1>4, <3>2, <3>3 DEF Acts, RequestVars
    <2> QED
        BY <2>4, <2>5, <2>6, <2>7 DEF Writers
<1> QED
    BY <1>6, <1>7, <1>8

-----------------------------------------------------------------------------
(***************************************************************************)
(* Every step of the service is one of Accounts, or none.                  *)
(***************************************************************************)
LEMMA HandInit == Init => HandInv /\ CopyInv
<1> SUFFICES ASSUME Init
             PROVE  HandInv /\ CopyInv
    OBVIOUS
<1>1. \A w \in Workers : InHand(w) = {}
    BY DEF Init, InHand
<1>2. Len(issued) = 0 /\ Tokens = {}
    BY DEF Init, Tokens
<1>3. HandInv
    BY <1>1, <1>2, AuthAssumption DEF HandInv
<1>4. CopyInv
    BY DEF Init, CopyInv
<1> QED
    BY <1>3, <1>4

LEMMA InitMaps == Init => Requests!Init
<1> SUFFICES ASSUME Init
             PROVE  Requests!Init
    OBVIOUS
<1>1. Given = {}
    BY DEF Init, Given, Tokens
<1>2. [id \in accounts |-> Credentials(users[id])] = [id \in {} |-> 0]
    BY DEF Init
<1> QED
    BY <1>1, <1>2 DEF Init, Requests!Init, Given, Requests!NoToken

LEMMA Maps ==
    TypeOK /\ TokenInv /\ WorkInv /\ SessionInv /\ HandInv /\ CopyInv
        /\ [Next]_vars => HandInv' /\ CopyInv' /\ Acts
<1> SUFFICES ASSUME TypeOK, TokenInv, WorkInv, SessionInv, HandInv, CopyInv,
                    [Next]_vars
             PROVE  HandInv' /\ CopyInv' /\ Acts
    OBVIOUS
<1>a. TypeOK' /\ TokenInv'
    BY TypeStep, TokenStep
<1>b. /\ accounts \subseteq used /\ used \subseteq Ids
      /\ users \in [Ids -> Row] /\ clock \in Nat \ {0}
      /\ Len(issued) \in Nat /\ Fresh \in Nat
      /\ clock + RefreshTTL \in Nat /\ clock + ResetTTL \in Nat
      /\ Lifetime("refresh") = RefreshTTL /\ Lifetime("reset") = ResetTTL
    BY LenProperties, AuthAssumption DEF TypeOK, Lifetime, Fresh
<1>c. {"login", "refresh", "forgot", "verify", "setPassword", "dropToken"}
          \subseteq PcState \ {"idle", "create"}
    BY DEF PcState
\* A row whose token has not expired has one.
<1>d. \A id \in accounts :
        /\ ~Expired(users[id].refreshExp) => OrEmpty(users[id].refresh) # Empty
        /\ ~Expired(users[id].resetExp) => OrEmpty(users[id].reset) # Empty
    <2> TAKE id \in accounts
    <2>1. users[id] \in Row /\ Sound(issued, id, users[id])
        BY <1>b DEF TokenInv, RowsSound
    <2>2. ASSUME NEW t \in Nat \cup {Null}, NEW exp \in Nat, NEW kind,
                 SoundToken(issued, id, kind, t, exp), ~Expired(exp)
          PROVE  OrEmpty(t) # Empty
        BY <1>b, <2>2 DEF SoundToken, Expired, OrEmpty, Empty, Null
    <2> QED
        BY <2>1, <2>2 DEF Sound, Row
\* Steps that change neither the rows nor what is in hand.
<1>e. ASSUME UNCHANGED <<clock, accounts, users, used, issued, overlapped>>,
             \A v \in Workers : InHand(v)' = InHand(v),
             \A v \in Workers, i \in accounts : At(v, i)' =>
                 At(v, i) /\ pc'[v] = pc[v] /\ local'[v] = local[v]
      PROVE  HandInv' /\ CopyInv' /\ Acts
    <2>1. HandInv' /\ Given' = Given
        BY <1>b, <1>e, HandsSame
    <2>2. 0 \notin accounts
        BY <1>b DEF Ids
    <2>3. CopyInv'
        BY <1>e, <2>2, OthersInStep
    <2>4. UNCHANGED RequestVars
        BY <1>e, <2>1, TableKept DEF RequestVars
    <2> QED
        BY <2>1, <2>3, <2>4 DEF Acts
<1>1. CASE UNCHANGED vars
    <2>1. UNCHANGED <<clock, accounts, users, used, issued, overlapped, pc, local>>
        BY <1>1 DEF vars, history
    <2> QED
        BY <2>1, <1>e DEF At, Busy, InHand
<1>2. ASSUME NEW w \in Workers, NEW e \in Emails, NEW p \in Passwords,
             RegisterLookup(w, e, p)
      PROVE  HandInv' /\ CopyInv' /\ Acts
    <2>1. /\ Begin(w, "create", 0, NewRow(e, p))
          /\ UNCHANGED <<clock, accounts, users, used, issued, overlapped>>
        BY <1>2 DEF RegisterLookup, history
    <2>2. /\ pc[w] = "idle" /\ pc'[w] = "create" /\ local'[w].id = 0
          /\ \A v \in Workers : v # w => pc'[v] = pc[v] /\ local'[v] = local[v]
        BY <2>1, NewRowType, BeginEffect DEF PcState
    <2>3. \A v \in Workers : InHand(v)' = InHand(v)
        BY <2>2 DEF InHand
    <2>4. \A v \in Workers, i \in accounts : At(v, i)' =>
             At(v, i) /\ pc'[v] = pc[v] /\ local'[v] = local[v]
        BY <2>2, <1>b DEF At, Busy, Ids
    <2> QED
        BY <2>1, <2>3, <2>4, <1>e
<1>3. ASSUME NEW w \in Workers, Create(w)
      PROVE  HandInv' /\ CopyInv' /\ Acts
    <2> DEFINE r == local[w].row
    <2>1. /\ pc[w] = "create" /\ End(w)
          /\ UNCHANGED <<clock, issued, overlapped>>
        BY <1>3 DEF Create
    <2>2. /\ pc'[w] = "idle"
          /\ \A v \in Workers : v # w => pc'[v] = pc[v] /\ local'[v] = local[v]
        BY <2>1, EndEffect
    <2>3. HandInv' /\ Given' = Given
        <3>1. InHand(w) = {}
            BY <2>1 DEF InHand
        <3> QED
            BY <2>1, <3>1, HandEmptied
    <2>4. CASE EmailFree(r.email)
        <3>1. PICK id \in Ids \ used :
                /\ accounts' = accounts \cup {id}
                /\ used' = used \cup {id}
                /\ users' = [users EXCEPT ![id] = r]
            BY <1>3, <2>4 DEF Create
        <3>2. /\ users'[id] = r
              /\ \A i \in Ids : i # id => users'[i] = users[i]
            BY <3>1, <1>b
        <3>3. \A v \in Workers : ~At(v, id)'
            BY <2>1, <2>2, <3>1, EndEffect, BlankRowType
               DEF At, Busy, WorkInv, KnownIds, Ids
        <3>4. \A i : \A v \in Workers : At(v, i)' =>
                 At(v, i) /\ pc'[v] = pc[v] /\ local'[v] = local[v]
            BY <2>2 DEF At, Busy
        <3>5. CopyInv'
            BY <2>1, <3>1, <3>2, <3>3, <3>4, <1>b, OthersInStep
        <3>6. /\ r \in Row /\ r.refresh = Null /\ r.reset = Null
              /\ r.refreshExp = 0 /\ r.resetExp = 0
            <4>1. r \in Row /\ Sound(issued, local[w].id, r)
                  /\ r.refresh = Null /\ r.reset = Null
                BY <2>1 DEF TypeOK, TokenInv, CopiesSound
            <4> QED
                BY <4>1 DEF Sound, SoundToken, Null
        <3>7. Requests!Register(r.email, r.password)
            <4>1. Credentials(r) = Requests!NewAccount(r.email, r.password)
                BY <3>6 DEF Credentials, OrEmpty, Requests!NewAccount, Empty,
                            Requests!NoToken
            <4>2. DOMAIN Table = accounts
                BY DEF Table
            <4>3. \A i \in accounts : Table[i].email # r.email
                BY <2>4 DEF Table, Credentials, EmailFree, FindByEmail
            <4>4. Table' = [i \in DOMAIN Table \cup {id} |->
                               IF i = id THEN Credentials(r) ELSE Table[i]]
                <5>1. Table' = [i \in accounts \cup {id} |-> Credentials(users'[i])]
                    BY <3>1 DEF Table, Credentials, OrEmpty
                <5>2. \A i \in accounts : i # id /\ users'[i] = users[i]
                    BY <3>1, <3>2, <1>b
                <5> QED
                    BY <3>2, <4>2, <5>1, <5>2, TableIs
            <4>5. UNCHANGED <<clock, Given, overlapped>>
                BY <2>1, <2>3
            <4> QED
                BY <3>1, <4>1, <4>2, <4>3, <4>4, <4>5
                   DEF Requests!Register, Table, Given
        <3>8. r.email \in Emails /\ r.password \in Passwords
            BY <3>6 DEF Row
        <3> QED
            BY <2>3, <3>5, <3>7, <3>8 DEF Acts, Requests!Next
    <2>5. CASE ~EmailFree(r.email)
        <3>1. UNCHANGED <<accounts, used, users>>
            BY <1>3, <2>5 DEF Create
        <3>2. CopyInv'
            BY <2>1, <3>1, EndedCopy DEF Busy
        <3> QED
            BY <2>1, <2>3, <3>1, <3>2, TableKept DEF Acts, RequestVars
    <2> QED
        BY <2>4, <2>5
<1>4. ASSUME NEW w \in Workers, NEW e \in Emails, NEW p \in Passwords,
             LoginRead(w, e, p)
      PROVE  HandInv' /\ CopyInv' /\ Acts
    <2> DEFINE exp == clock + RefreshTTL
    <2>1. PICK id \in FindByEmail(e) :
            /\ Enter(id)
            /\ Draw(id, "refresh", exp)
            /\ Begin(w, "login", id,
                     [Loaded(id) EXCEPT !.refresh = Fresh, !.refreshExp = exp])
            /\ UNCHANGED <<clock, accounts, users, used>>
        BY <1>4 DEF LoginRead
    <2>2. id \in accounts
        BY DEF FindByEmail
    <2> DEFINE row == [Loaded(id) EXCEPT !.refresh = Fresh, !.refreshExp = exp]
    <2>3. /\ row \in Row /\ row.refresh = Fresh
          /\ row.reset = OrEmpty(users[id].reset)
          /\ row.resetExp = users[id].resetExp
        <3>1. /\ Loaded(id) \in Row
              /\ Loaded(id).reset = OrEmpty(users[id].reset)
              /\ Loaded(id).resetExp = users[id].resetExp
            BY <2>2, LoadedType
        <3> QED
            BY <3>1, <1>b DEF Row
    <2> HIDE DEF row
    <2>4. Begin(w, "login", id, row)
        BY <2>1 DEF row
    <2>5. HandInv' /\ Given' = Given
        BY <2>1, <2>2, <2>3, <2>4, <1>b, HandFilled
    <2>6. pc'[w] = "login" /\ local'[w].row = row
        BY <2>2, <2>3, <2>4, <1>b, <1>c, BeginEffect
    <2>7. InStep(w, id)'
        <3>1. OrEmpty(OrEmpty(users[id].reset)) = OrEmpty(users[id].reset)
            BY DEF OrEmpty, Empty, Null
        <3> QED
            BY <2>1, <2>3, <2>6, <3>1 DEF InStep, OrEmpty
    <2>8. CopyInv'
        BY <2>1, <2>2, <2>3, <2>4, <2>7, <1>c, BegunCopy
    <2> QED
        BY <2>1, <2>2, <2>5, <2>8, <1>a, Reads DEF Acts
<1>6. ASSUME NEW w \in Workers, NEW t \in Presented, RefreshRead(w, t)
      PROVE  HandInv' /\ CopyInv' /\ Acts
    <2> DEFINE exp == clock + RefreshTTL
    <2>1. PICK id \in FindByRefreshToken(t) :
            /\ ~Expired(users[id].refreshExp)
            /\ Enter(id)
            /\ Draw(id, "refresh", exp)
            /\ Begin(w, "refresh", id,
                     [LoadedForRefresh(id) EXCEPT !.refresh = Fresh,
                                                  !.refreshExp = exp])
            /\ UNCHANGED <<clock, accounts, users, used>>
        BY <1>6 DEF RefreshRead
    <2>2. id \in accounts
        BY DEF FindByRefreshToken
    <2> DEFINE row == [LoadedForRefresh(id) EXCEPT !.refresh = Fresh,
                                                   !.refreshExp = exp]
    <2>3. /\ row \in Row /\ row.refresh = Fresh
          /\ row.reset = Empty /\ row.resetExp = 0
        <3>1. /\ LoadedForRefresh(id) \in Row
              /\ LoadedForRefresh(id).reset = Empty
              /\ LoadedForRefresh(id).resetExp = 0
            BY <2>2, LoadedType
        <3> QED
            BY <3>1, <1>b DEF Row
    <2> HIDE DEF row
    <2>4. Begin(w, "refresh", id, row)
        BY <2>1 DEF row
    <2>5. HandInv' /\ Given' = Given
        BY <2>1, <2>2, <2>3, <2>4, <1>b, HandFilled
    <2>6. pc'[w] = "refresh" /\ local'[w].row = row
        BY <2>2, <2>3, <2>4, <1>b, <1>c, BeginEffect
    <2>7. InStep(w, id)'
        BY <2>1, <2>2, <2>3, <2>6, <1>d DEF InStep, OrEmpty
    <2>8. CopyInv'
        BY <2>1, <2>2, <2>3, <2>4, <2>7, <1>c, BegunCopy
    <2> QED
        BY <2>1, <2>2, <2>5, <2>8, <1>a, Reads DEF Acts
<1>8. ASSUME NEW w \in Workers, NEW e \in Emails, ForgotRead(w, e)
      PROVE  HandInv' /\ CopyInv' /\ Acts
    <2> DEFINE exp == clock + ResetTTL
    <2>1. PICK id \in FindByEmail(e) :
            /\ Enter(id)
            /\ Draw(id, "reset", exp)
            /\ Begin(w, "forgot", id,
                     [Loaded(id) EXCEPT !.reset = Fresh, !.resetExp = exp])
            /\ UNCHANGED <<clock, accounts, users, used>>
        BY <1>8 DEF ForgotRead
    <2>2. id \in accounts
        BY DEF FindByEmail
    <2> DEFINE row == [Loaded(id) EXCEPT !.reset = Fresh, !.resetExp = exp]
    <2>3. /\ row \in Row /\ row.reset = Fresh
          /\ row.refresh = OrEmpty(users[id].refresh)
          /\ row.refreshExp = users[id].refreshExp
        <3>1. /\ Loaded(id) \in Row
              /\ Loaded(id).refresh = OrEmpty(users[id].refresh)
              /\ Loaded(id).refreshExp = users[id].refreshExp
            BY <2>2, LoadedType
        <3> QED
            BY <3>1, <1>b DEF Row
    <2> HIDE DEF row
    <2>4. Begin(w, "forgot", id, row)
        BY <2>1 DEF row
    <2>5. HandInv' /\ Given' = Given
        BY <2>1, <2>2, <2>3, <2>4, <1>b, HandFilled
    <2>6. pc'[w] = "forgot" /\ local'[w].row = row
        BY <2>2, <2>3, <2>4, <1>b, <1>c, BeginEffect
    <2>7. InStep(w, id)'
        <3>1. OrEmpty(OrEmpty(users[id].refresh)) = OrEmpty(users[id].refresh)
            BY DEF OrEmpty, Empty, Null
        <3> QED
            BY <2>1, <2>3, <2>6, <3>1 DEF InStep, OrEmpty
    <2>8. CopyInv'
        BY <2>1, <2>2, <2>3, <2>4, <2>7, <1>c, BegunCopy
    <2> QED
        BY <2>1, <2>2, <2>5, <2>8, <1>a, Reads DEF Acts
<1>10. ASSUME NEW w \in Workers, NEW t \in Presented, NEW p \in Passwords,
              ResetRead(w, t, p)
       PROVE  HandInv' /\ CopyInv' /\ Acts
    <2> DEFINE row == [BlankRow EXCEPT !.password = p]
    <2>1. PICK id \in FindByResetToken(t) :
            /\ ~Expired(users[id].resetExp)
            /\ Enter(id)
            /\ Begin(w, "setPassword", id, row)
            /\ UNCHANGED <<clock, accounts, users, used, issued>>
        BY <1>10 DEF ResetRead
    <2>2. id \in accounts /\ row \in Row
        BY BlankRowType DEF FindByResetToken, Row
    <2> HIDE DEF row
    <2>3. /\ pc[w] = "idle" /\ pc'[w] = "setPassword"
          /\ \A v \in Workers : v # w => pc'[v] = pc[v] /\ local'[v] = local[v]
        BY <2>1, <2>2, <1>b, <1>c, BeginEffect
    <2>4. \A v \in Workers : InHand(v)' = InHand(v)
        BY <2>3 DEF InHand
    <2>5. HandInv' /\ Given' = Given
        BY <2>1, <2>4, <1>b, HandsSame
    <2>6. InStep(w, id)'
        BY <2>1, <2>2, <2>3, <1>d DEF InStep, OrEmpty
    <2>7. CopyInv'
        BY <2>1, <2>2, <2>6, <1>c, BegunCopy
    <2> QED
        BY <2>1, <2>2, <2>5, <2>7, <1>a, Reads DEF Acts
<1>13. ASSUME NEW w \in Workers, NEW e \in Emails, VerifyRead(w, e)
       PROVE  HandInv' /\ CopyInv' /\ Acts
    <2>1. PICK id \in FindByEmail(e) :
            /\ Enter(id)
            /\ Begin(w, "verify", id, [Loaded(id) EXCEPT !.verified = TRUE])
            /\ UNCHANGED <<clock, accounts, users, used, issued>>
        BY <1>13 DEF VerifyRead
    <2>2. id \in accounts
        BY DEF FindByEmail
    <2> DEFINE row == [Loaded(id) EXCEPT !.verified = TRUE]
    <2>3. /\ row \in Row
          /\ row.refresh = OrEmpty(users[id].refresh)
          /\ row.refreshExp = users[id].refreshExp
          /\ row.reset = OrEmpty(users[id].reset)
          /\ row.resetExp = users[id].resetExp
        BY <2>2, LoadedType DEF Row
    <2> HIDE DEF row
    <2>4. Begin(w, "verify", id, row)
        BY <2>1 DEF row
    <2>5. /\ pc[w] = "idle" /\ pc'[w] = "verify" /\ local'[w].row = row
          /\ \A v \in Workers : v # w => pc'[v] = pc[v] /\ local'[v] = local[v]
        BY <2>2, <2>3, <2>4, <1>b, <1>c, BeginEffect
    <2>6. \A v \in Workers : InHand(v)' = InHand(v)
        BY <2>5 DEF InHand
    <2>7. HandInv' /\ Given' = Given
        BY <2>1, <2>6, <1>b, HandsSame
    <2>8. InStep(w, id)'
        <3>1. \A t : OrEmpty(OrEmpty(t)) = OrEmpty(t)
            BY DEF OrEmpty, Empty, Null
        <3> QED
            BY <2>1, <2>3, <2>5, <3>1 DEF InStep, OrEmpty
    <2>9. CopyInv'
        BY <2>1, <2>2, <2>3, <2>4, <2>8, <1>c, BegunCopy
    <2> QED
        BY <2>1, <2>2, <2>7, <2>9, <1>a, Reads DEF Acts
<1>5. ASSUME NEW w \in Workers, LoginWrite(w)
      PROVE  HandInv' /\ CopyInv' /\ Acts
    BY <1>5, <1>a, Writes DEF LoginWrite, Writers
<1>7. ASSUME NEW w \in Workers, RefreshWrite(w)
      PROVE  HandInv' /\ CopyInv' /\ Acts
    BY <1>7, <1>a, Writes DEF RefreshWrite, Writers
<1>9. ASSUME NEW w \in Workers, ForgotWrite(w)
      PROVE  HandInv' /\ CopyInv' /\ Acts
    BY <1>9, <1>a, Writes DEF ForgotWrite, Writers
<1>14. ASSUME NEW w \in Workers, VerifyWrite(w)
      PROVE  HandInv' /\ CopyInv' /\ Acts
    BY <1>14, <1>a, Writes DEF VerifyWrite, Writers
<1>11. ASSUME NEW w \in Workers, UpdatePassword(w)
       PROVE  HandInv' /\ CopyInv' /\ Acts
    <2> PICK id, p : id = local[w].id /\ p = local[w].row.password
        OBVIOUS
    <2>1. /\ pc[w] = "setPassword" /\ pc'[w] = "dropToken"
          /\ UNCHANGED <<clock, accounts, used, local, issued, overlapped>>
          /\ \A v \in Workers : v # w => pc'[v] = pc[v]
        BY <1>11 DEF UpdatePassword, TypeOK
    <2>2. /\ id \notin accounts => users' = users
          /\ id \in accounts => users' = [users EXCEPT ![id].password = p]
        BY <1>11 DEF UpdatePassword
    <2>3. /\ At(w, id)
          /\ \A i : \A v \in Workers : At(v, i)' = At(v, i)
        BY <2>1 DEF At, Busy
    <2>4. HandInv' /\ Given' = Given
        <3>1. \A v \in Workers : InHand(v)' = InHand(v)
            BY <2>1 DEF InHand
        <3> QED
            BY <2>1, <3>1, <1>b, HandsSame
    <2>5. \A i \in accounts : i # id => users'[i] = users[i]
        BY <2>2, <1>b
    <2>6. CopyInv'
        <3>1. \A i : i # id => \A v \in Workers : At(v, i)' =>
                 At(v, i) /\ pc'[v] = pc[v] /\ local'[v] = local[v]
            BY <2>1, <2>3 DEF At
        <3>2. id \in accounts \ overlapped =>
                 \A v \in Workers : At(v, id)' => v = w
            BY <2>3 DEF WorkInv, OneAtATime
        <3>3. InStep(w, id)'
            BY <2>1 DEF InStep
        <3> QED
            BY <2>1, <2>5, <3>1, <3>2, <3>3, OthersInStep
    <2>7. CASE id \notin accounts
        BY <2>1, <2>2, <2>4, <2>6, <2>7, TableKept DEF Acts, RequestVars
    <2>8. CASE id \in accounts
        <3> DEFINE d == [users[id] EXCEPT !.password = p]
        <3>1. users[id] \in Row /\ p \in Passwords /\ users'[id] = d
            BY <2>2, <2>8, <1>b DEF TypeOK, Row
        <3>2. /\ d \in Row
              /\ d.email = users[id].email /\ d.password = p
              /\ d.refresh = users[id].refresh
              /\ d.refreshExp = users[id].refreshExp
              /\ d.reset = users[id].reset /\ d.resetExp = users[id].resetExp
            BY <3>1 DEF Row
        <3> HIDE DEF d
        <3>3. CASE id \in overlapped
            BY <2>1, <2>4, <2>5, <2>6, <2>8, <3>1, <3>2, <3>3, <1>a, Meets
               DEF Acts
        <3>4. CASE id \notin overlapped
            <4>1. Credentials(users'[id]) =
                    [Credentials(users[id]) EXCEPT !.password = p]
                BY <3>1, <3>2, CredentialsOf
            <4>2. OrEmpty(users[id].reset) # Empty
                BY <2>1, <2>3, <2>8, <3>4 DEF CopyInv, InStep
            <4>3. Requests!Next
                BY <2>1, <2>4, <2>5, <2>8, <3>1, <4>1, <4>2, SetsPassword
                   DEF Changes
            <4> QED
                BY <2>4, <2>6, <4>3 DEF Acts
        <3> QED
            BY <3>3, <3>4
    <2> QED
        BY <2>7, <2>8
<1>12. ASSUME NEW w \in Workers, DropResetToken(w)
       PROVE  HandInv' /\ CopyInv' /\ Acts
    <2> PICK id : id = local[w].id
        OBVIOUS
    <2>1. /\ pc[w] = "dropToken" /\ End(w)
          /\ UNCHANGED <<clock, accounts, used, issued, overlapped>>
        BY <1>12 DEF DropResetToken
    <2>2. /\ id \notin accounts => users' = users
          /\ id \in accounts => users' = [users EXCEPT ![id] = WithoutResetToken(@)]
        BY <1>12 DEF DropResetToken
    <2>3. HandInv' /\ Given' = Given
        <3>1. InHand(w) = {}
            BY <2>1 DEF InHand
        <3> QED
            BY <2>1, <3>1, HandEmptied
    <2>4. \A i \in accounts : i # id => users'[i] = users[i]
        BY <2>2, <1>b
    <2>5. CopyInv'
        BY <2>1, <2>4, EndedCopy DEF Busy
    <2>6. CASE id \notin accounts
        BY <2>1, <2>2, <2>3, <2>5, <2>6, TableKept DEF Acts, RequestVars
    <2>7. CASE id \in accounts
        <3>1. users[id] \in Row /\ users'[id] = WithoutResetToken(users[id])
            BY <2>2, <2>7, <1>b
        <3>2. Credentials(users'[id]) =
                [Credentials(users[id]) EXCEPT !.reset = Empty, !.resetExp = 0]
            BY <3>1, CredentialsDropped
        <3>3. Requests!Next
            BY <2>1, <2>3, <2>4, <2>7, <3>2, DropsReset DEF Changes
        <3> QED
            BY <2>3, <2>5, <3>3 DEF Acts
    <2> QED
        BY <2>6, <2>7
<1>15. ASSUME NEW w \in Workers, Abandon(w)
       PROVE  HandInv' /\ CopyInv' /\ Acts
    <2>1. /\ Busy(w) /\ End(w)
          /\ UNCHANGED <<clock, accounts, users, used, issued, overlapped>>
        BY <1>15 DEF Abandon, history
    <2>2. HandInv' /\ Given' = Given \cup InHand(w)
        BY <2>1, HandEmptied
    <2>3. CopyInv'
        BY <2>1, EndedCopy
    <2>4. CASE InHand(w) = {}
        BY <2>1, <2>2, <2>3, <2>4, TableKept DEF Acts, RequestVars
    <2>5. CASE InHand(w) # {}
        <3>1. PICK t \in 1 .. MaxTokens : t \notin Given /\ InHand(w) = {t}
            BY <2>2, <2>5, HandGives, InHandIs DEF Gives
        <3>2. Requests!Next
            BY <2>1, <2>2, <3>1, Wastes
        <3> QED
            BY <2>2, <2>3, <3>2 DEF Acts
    <2> QED
        BY <2>4, <2>5
<1>16. ASSUME NEW id \in Ids, Logout(id)
       PROVE  HandInv' /\ CopyInv' /\ Acts
    <2>1. /\ Enter(id)
          /\ UNCHANGED <<clock, accounts, used, pc, local, issued>>
          /\ id \notin accounts => users' = users
          /\ id \in accounts => users' = [users EXCEPT ![id] = WithoutRefreshToken(@)]
        BY <1>16 DEF Logout
    <2>2. HandInv' /\ Given' = Given
        <3>1. \A v \in Workers : InHand(v)' = InHand(v)
            BY <2>1 DEF InHand
        <3> QED
            BY <2>1, <3>1, <1>b, HandsSame
    <2>3. \A i \in accounts : i # id => users'[i] = users[i]
        BY <2>1, <1>b
    <2>4. CopyInv'
        <3>1. /\ overlapped \subseteq overlapped'
              /\ id \in accounts \ overlapped' => \A v \in Workers : ~At(v, id)
            BY <2>1, EnterEffect DEF At
        <3>2. \A i : \A v \in Workers : At(v, i)' = At(v, i)
            BY <2>1 DEF At, Busy
        <3> QED
            BY <2>1, <2>3, <3>1, <3>2, OthersInStep
    <2>5. CASE id \notin accounts
        <3>1. overlapped' = overlapped
            BY <2>1, <2>5 DEF Enter
        <3> QED
            BY <2>1, <2>2, <2>4, <2>5, <3>1, TableKept DEF Acts, RequestVars
    <2>6. CASE id \in accounts
        <3>1. users[id] \in Row /\ users'[id] = WithoutRefreshToken(users[id])
            BY <2>1, <2>6, <1>b
        <3>2. overlapped' = overlapped \/ overlapped' = overlapped \cup {id}
            BY <2>1 DEF Enter
        <3>3. CASE overlapped' = overlapped
            <4>1. Credentials(users'[id]) =
                    [Credentials(users[id]) EXCEPT !.refresh = Empty,
                                                   !.refreshExp = 0]
                BY <3>1, CredentialsDropped
            <4>2. Requests!Next
                BY <2>1, <2>2, <2>3, <2>6, <3>3, <4>1, LogsOut DEF Changes
            <4> QED
                BY <2>2, <2>4, <4>2 DEF Acts
        <3>4. CASE overlapped' = overlapped \cup {id}
            <4>1. users'[id].email = users[id].email
                BY <3>1, RefreshTokenDropped
            <4>2. Requests!Next
                BY <2>1, <2>2, <2>3, <2>6, <3>4, <4>1, <1>a, Meets
            <4> QED
                BY <2>2, <2>4, <4>2 DEF Acts
        <3> QED
            BY <3>2, <3>3, <3>4
    <2> QED
        BY <2>5, <2>6
<1>17. ASSUME NEW id \in Ids, DeleteAccount(id)
       PROVE  HandInv' /\ CopyInv' /\ Acts
    <2>1. /\ id \in accounts /\ accounts' = accounts \ {id}
          /\ overlapped' = overlapped \ {id}
          /\ UNCHANGED <<clock, used, pc, local, issued>>
          /\ users' = [users EXCEPT ![id] = BlankRow]
        BY <1>17 DEF DeleteAccount
    <2>2. HandInv' /\ Given' = Given
        <3>1. \A v \in Workers : InHand(v)' = InHand(v)
            BY <2>1 DEF InHand
        <3> QED
            BY <2>1, <3>1, <1>b, HandsSame
    <2>3. \A i \in accounts' : users'[i] = users[i]
        BY <2>1, <1>b
    <2>4. CopyInv'
        <3>1. \A i : \A v \in Workers : At(v, i)' = At(v, i)
            BY <2>1 DEF At, Busy
        <3> QED
            BY <2>1, <2>3, <3>1, OthersInStep
    <2>5. Table' = [i \in DOMAIN Table \ {id} |-> Table[i]]
        <3>1. Table' = [i \in accounts \ {id} |-> Credentials(users'[i])]
            BY <2>1 DEF Table, Credentials, OrEmpty
        <3> QED
            BY <2>1, <2>3, <3>1, TableIs
    <2>6. Requests!DeleteAccount(id)
        BY <2>1, <2>2, <2>5 DEF Requests!DeleteAccount, Table, Given
    <2>7. id \in DOMAIN Table
        BY <2>1, TableIs
    <2>8. Requests!Next
        BY <2>6, <2>7 DEF Requests!Next, Table
    <2> QED
        BY <2>2, <2>4, <2>8 DEF Acts
<1>18. CASE Tick
    <2>1. /\ clock' = clock + 1
          /\ UNCHANGED <<accounts, users, used, pc, local, issued, overlapped>>
        BY <1>18 DEF Tick, history
    <2>2. HandInv' /\ Given' = Given
        <3>1. \A v \in Workers : InHand(v)' = InHand(v)
            BY <2>1 DEF InHand
        <3> QED
            BY <2>1, <3>1, <1>b, HandsSame
    <2>3. CopyInv'
        BY <2>1 DEF CopyInv, InStep, At, Busy
    <2>4. Table' = Table
        BY <2>1, TableKept
    <2>5. Requests!Tick
        BY <2>1, <2>2, <2>4 DEF Requests!Tick, Table, Given
    <2> QED
        BY <2>2, <2>3, <2>5 DEF Acts, Requests!Next
<1> QED
    BY <1>1, <1>2, <1>3, <1>4, <1>5, <1>6, <1>7, <1>8, <1>9, <1>10, <1>11,
       <1>12, <1>13, <1>14, <1>15, <1>16, <1>17, <1>18 DEF Next, Request

(***************************************************************************)
(* auth-service implements Accounts: between a request's statements        *)
(* anything may happen to other accounts, and a request may die, but what  *)
(* it does to its account is what the request promises, at one moment, and *)
(* nothing else, until two requests overlap there.                         *)
(***************************************************************************)
THEOREM AccountsImplemented == Spec => ImplementsAccounts
<1>1. Acts => [Requests!Next]_(Requests!vars)
    BY DEF Acts, RequestVars, Requests!vars, Table, Given
<1> QED
    BY <1>1, InitMaps, Maps, HandInit, TypeInit, TypeStep, TokenInit, TokenStep,
       WorkInit, WorkStep, SessionInit, SessionStep, PTL
       DEF Spec, ImplementsAccounts, Requests!Spec
=============================================================================
