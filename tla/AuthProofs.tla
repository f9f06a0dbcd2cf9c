----------------------------- MODULE AuthProofs -----------------------------
(***************************************************************************)
(* Theorems about Auth, for every set of workers, emails and passwords,    *)
(* every lifetime of a token and every bound.                              *)
(***************************************************************************)
EXTENDS Auth, TLAPS, SequenceTheorems

Work == [id : {0} \cup Ids, row : Row]

(***************************************************************************)
(* Rows as they are created and as they are scanned.                       *)
(***************************************************************************)
LEMMA NewRowType ==
    ASSUME NEW e \in Emails, NEW p \in Passwords
    PROVE  /\ NewRow(e, p) \in Row
           /\ NewRow(e, p).refresh = Null /\ NewRow(e, p).refreshExp = 0
           /\ NewRow(e, p).reset = Null /\ NewRow(e, p).resetExp = 0
           /\ NewRow(e, p).email = e /\ NewRow(e, p).password = p
    BY DEF NewRow, Row, Null

LEMMA BlankRowType ==
    /\ BlankRow \in Row
    /\ BlankRow.refresh = Null /\ BlankRow.refreshExp = 0
    /\ BlankRow.reset = Null /\ BlankRow.resetExp = 0
    /\ BlankRow.password \in Passwords
    /\ NoCopy \in Work
    /\ NoCopy.id = 0 /\ NoCopy.row = BlankRow
<1>1. (CHOOSE e \in Emails : TRUE) \in Emails
    BY AuthAssumption
<1>2. (CHOOSE p \in Passwords : TRUE) \in Passwords
    BY AuthAssumption
<1>3. /\ BlankRow \in Row
      /\ BlankRow.refresh = Null /\ BlankRow.refreshExp = 0
      /\ BlankRow.reset = Null /\ BlankRow.resetExp = 0
      /\ BlankRow.password \in Passwords
    BY <1>1, <1>2, NewRowType DEF BlankRow
<1> QED
    BY <1>3 DEF NoCopy, Work

LEMMA ZeroType == 0 \in Nat \cup {Null} /\ 0 \in Nat
    OBVIOUS

LEMMA ResetColumns ==
    ASSUME NEW r \in Row, NEW t \in Nat \cup {Null}, NEW exp \in Nat
    PROVE  LET q == [r EXCEPT !.reset = t, !.resetExp = exp]
           IN  /\ q \in Row
               /\ q.email = r.email
               /\ q.password = r.password
               /\ q.refresh = r.refresh
               /\ q.refreshExp = r.refreshExp
               /\ q.reset = t
               /\ q.resetExp = exp
    BY DEF Row

LEMMA RefreshColumns ==
    ASSUME NEW r \in Row, NEW t \in Nat \cup {Null}, NEW exp \in Nat
    PROVE  LET q == [r EXCEPT !.refresh = t, !.refreshExp = exp]
           IN  /\ q \in Row
               /\ q.email = r.email
               /\ q.password = r.password
               /\ q.reset = r.reset
               /\ q.resetExp = r.resetExp
               /\ q.refresh = t
               /\ q.refreshExp = exp
    BY DEF Row

LEMMA ResetTokenDropped ==
    ASSUME NEW r \in Row
    PROVE  LET q == WithoutResetToken(r)
           IN  /\ q \in Row
               /\ q.email = r.email
               /\ q.password = r.password
               /\ q.refresh = r.refresh
               /\ q.refreshExp = r.refreshExp
               /\ q.reset = Empty
               /\ q.resetExp = 0
    BY ZeroType, ResetColumns, Zenon DEF WithoutResetToken, Empty

LEMMA RefreshTokenDropped ==
    ASSUME NEW r \in Row
    PROVE  LET q == WithoutRefreshToken(r)
           IN  /\ q \in Row
               /\ q.email = r.email
               /\ q.password = r.password
               /\ q.reset = r.reset
               /\ q.resetExp = r.resetExp
               /\ q.refresh = Empty
               /\ q.refreshExp = 0
    BY ZeroType, RefreshColumns, Zenon DEF WithoutRefreshToken, Empty

LEMMA LoadedType ==
    ASSUME TypeOK, NEW id \in accounts
    PROVE  /\ id \in Ids
           /\ users[id] \in Row
           /\ Loaded(id) \in Row
           /\ LoadedForRefresh(id) \in Row
           /\ Loaded(id).email = users[id].email
           /\ LoadedForRefresh(id).email = users[id].email
           /\ Loaded(id).password = users[id].password
           /\ LoadedForRefresh(id).password = users[id].password
           /\ Loaded(id).refresh = OrEmpty(users[id].refresh)
           /\ Loaded(id).reset = OrEmpty(users[id].reset)
           /\ LoadedForRefresh(id).refresh = users[id].refresh
           /\ LoadedForRefresh(id).reset = Empty
           /\ Loaded(id).refreshExp = users[id].refreshExp
           /\ Loaded(id).resetExp = users[id].resetExp
           /\ LoadedForRefresh(id).refreshExp = users[id].refreshExp
           /\ LoadedForRefresh(id).resetExp = 0
<1>1. id \in Ids /\ users[id] \in Row
    BY DEF TypeOK
<1> DEFINE r == users[id]
<1>2. OrEmpty(r.refresh) \in Nat /\ OrEmpty(r.reset) \in Nat
    BY <1>1 DEF Row, OrEmpty, Empty
<1>3. Loaded(id) = [r EXCEPT !.refresh = OrEmpty(r.refresh),
                             !.reset = OrEmpty(r.reset)]
    BY <1>1 DEF Loaded, Row
<1> DEFINE q == [r EXCEPT !.reset = 0, !.resetExp = 0]
<1>4. LoadedForRefresh(id) = [q EXCEPT !.verified = FALSE]
    BY DEF LoadedForRefresh, Empty
<1> HIDE DEF q
<1> HIDE DEF r
<1>5. r \in Row
    BY <1>1 DEF r
<1>6. /\ Loaded(id) \in Row
      /\ Loaded(id).email = r.email
      /\ Loaded(id).password = r.password
      /\ Loaded(id).refresh = OrEmpty(r.refresh)
      /\ Loaded(id).reset = OrEmpty(r.reset)
      /\ Loaded(id).refreshExp = r.refreshExp
      /\ Loaded(id).resetExp = r.resetExp
    BY <1>2, <1>3, <1>5 DEF Row
<1>7. /\ LoadedForRefresh(id) \in Row
      /\ LoadedForRefresh(id).email = r.email
      /\ LoadedForRefresh(id).password = r.password
      /\ LoadedForRefresh(id).refresh = r.refresh
      /\ LoadedForRefresh(id).refreshExp = r.refreshExp
      /\ LoadedForRefresh(id).reset = 0
      /\ LoadedForRefresh(id).resetExp = 0
    <2>1. /\ q \in Row
          /\ q.email = r.email
          /\ q.password = r.password
          /\ q.refresh = r.refresh
          /\ q.refreshExp = r.refreshExp
          /\ q.reset = 0
          /\ q.resetExp = 0
        BY <1>5, ZeroType, ResetColumns, Zenon DEF q
    <2> QED
        BY <1>4, <2>1 DEF Row
<1> QED
    BY <1>1, <1>6, <1>7 DEF r, Empty

(***************************************************************************)
(* What Update does to the table: it creates no row and deletes none, and  *)
(* gives the row of the copy's id every column but the verification.       *)
(***************************************************************************)
LEMMA UpdateEffect ==
    ASSUME TypeOK, NEW w \in Workers, Update(local[w])
    PROVE  /\ accounts' = accounts
           /\ local[w] \in Work
           /\ users' \in [Ids -> Row]
           /\ \A i \in Ids : i # local[w].id => users'[i] = users[i]
           /\ local[w].id \notin accounts => users' = users
           /\ local[w].id \in accounts =>
                /\ users'[local[w].id].email = local[w].row.email
                /\ users'[local[w].id].password = local[w].row.password
                /\ users'[local[w].id].refresh = local[w].row.refresh
                /\ users'[local[w].id].refreshExp = local[w].row.refreshExp
                /\ users'[local[w].id].reset = local[w].row.reset
                /\ users'[local[w].id].resetExp = local[w].row.resetExp
<1>1. local[w] \in Work /\ users \in [Ids -> Row] /\ accounts \subseteq Ids
    BY DEF TypeOK, Work
<1>2. accounts' = accounts
    BY DEF Update, AccountsAfterUpdate
<1> DEFINE id == local[w].id
           new == Written(users[id], local[w].row)
<1>3. CASE id \in accounts
    <2>1. users' = [users EXCEPT ![id] = new]
        BY <1>3 DEF Update
    <2>2. users[id] \in Row /\ local[w].row \in Row
        BY <1>1, <1>3 DEF Work
    <2>3. /\ new \in Row
          /\ new.email = local[w].row.email
          /\ new.password = local[w].row.password
          /\ new.refresh = local[w].row.refresh
          /\ new.refreshExp = local[w].row.refreshExp
          /\ new.reset = local[w].row.reset
          /\ new.resetExp = local[w].row.resetExp
        BY <2>2 DEF Written, Row
    <2> HIDE DEF new
    <2>4. users' \in [Ids -> Row] /\ users'[id] = new
          /\ \A i \in Ids : i # id => users'[i] = users[i]
        BY <1>1, <1>3, <2>1, <2>3
    <2> QED
        BY <1>1, <1>2, <1>3, <2>3, <2>4
<1>4. CASE id \notin accounts
    BY <1>1, <1>2, <1>4 DEF Update
<1> QED
    BY <1>3, <1>4

(***************************************************************************)
(* Drawing a token keeps what was recorded of the earlier ones.            *)
(***************************************************************************)
LEMMA DrawEffect ==
    ASSUME TypeOK, NEW id \in Nat, NEW kind \in {"refresh", "reset"},
           NEW exp \in Nat, Draw(id, kind, exp)
    PROVE  /\ issued' \in Seq(TokenIssued)
           /\ Len(issued) \in Nat
           /\ Len(issued') = Len(issued) + 1
           /\ Fresh = Len(issued) + 1
           /\ Tokens \subseteq Tokens'
           /\ \A t \in Tokens : issued'[t] = issued[t]
           /\ issued'[Fresh] = [id |-> id, kind |-> kind, exp |-> exp]
<1>1. issued \in Seq(TokenIssued)
    BY DEF TypeOK
<1> DEFINE rec == [id |-> id, kind |-> kind, exp |-> exp]
<1>2. rec \in TokenIssued
    BY DEF TokenIssued
<1>3. issued' = Append(issued, rec)
    BY DEF Draw
<1> HIDE DEF rec
<1>4. /\ issued' \in Seq(TokenIssued) /\ Len(issued) \in Nat
      /\ Len(issued') = Len(issued) + 1
      /\ \A t \in 1 .. Len(issued) : issued'[t] = issued[t]
      /\ issued'[Len(issued) + 1] = rec
    BY <1>1, <1>2, <1>3, AppendProperties, LenProperties
<1> QED
    BY <1>4 DEF Tokens, Fresh, rec

(***************************************************************************)
(* A request begins and ends without touching the work of the others.      *)
(***************************************************************************)
LEMMA BeginEffect ==
    ASSUME TypeOK, NEW w \in Workers, NEW step \in PcState,
           NEW id \in {0} \cup Ids, NEW row \in Row, Begin(w, step, id, row)
    PROVE  /\ pc[w] = "idle"
           /\ pc' \in [Workers -> PcState]
           /\ local' \in [Workers -> Work]
           /\ pc'[w] = step
           /\ local'[w].id = id /\ local'[w].row = row
           /\ \A v \in Workers : v # w => pc'[v] = pc[v] /\ local'[v] = local[v]
<1>1. [id |-> id, row |-> row] \in Work
    BY DEF Work
<1>2. pc \in [Workers -> PcState] /\ local \in [Workers -> Work]
    BY DEF TypeOK, Work
<1> DEFINE c == [id |-> id, row |-> row]
<1>3. c.id = id /\ c.row = row
    OBVIOUS
<1>4. local' = [local EXCEPT ![w] = c] /\ pc' = [pc EXCEPT ![w] = step]
      /\ pc[w] = "idle"
    BY DEF Begin
<1> HIDE DEF c
<1>5. local' \in [Workers -> Work] /\ local'[w] = c
      /\ \A v \in Workers : v # w => local'[v] = local[v]
    BY <1>1, <1>2, <1>4 DEF c
<1> QED
    BY <1>2, <1>3, <1>4, <1>5

LEMMA EndEffect ==
    ASSUME TypeOK, NEW w \in Workers, End(w)
    PROVE  /\ pc' \in [Workers -> PcState]
           /\ local' \in [Workers -> Work]
           /\ pc'[w] = "idle" /\ local'[w] = NoCopy
           /\ \A v \in Workers : v # w => pc'[v] = pc[v] /\ local'[v] = local[v]
<1>1. pc \in [Workers -> PcState] /\ local \in [Workers -> Work]
      /\ "idle" \in PcState
    BY DEF TypeOK, Work, PcState
<1> QED
    BY <1>1, BlankRowType DEF End

LEMMA EnterEffect ==
    ASSUME TypeOK, NEW id \in Ids, Enter(id)
    PROVE  /\ overlapped' \subseteq Ids
           /\ overlapped \subseteq overlapped'
           /\ overlapped' \subseteq overlapped \cup {id}
           /\ id \in accounts /\ id \notin overlapped' =>
                 \A w \in Workers : Busy(w) => local[w].id # id
    BY DEF TypeOK, Enter, InUse

(***************************************************************************)
(* Every reachable state is well typed.                                    *)
(***************************************************************************)
LEMMA TypeInit == Init => TypeOK
<1> SUFFICES ASSUME Init
             PROVE  TypeOK
    OBVIOUS
<1>1. clock \in Nat \ {0} /\ Len(issued) = 0 /\ issued \in Seq(TokenIssued)
    BY DEF Init
<1>2. /\ users \in [Ids -> Row] /\ pc \in [Workers -> PcState]
      /\ local \in [Workers -> Work] /\ lastSet \in [Ids -> Passwords]
    BY BlankRowType DEF Init, PcState
<1> QED
    BY <1>1, <1>2 DEF Init, TypeOK, Work

LEMMA TypeStep == TypeOK /\ [Next]_vars => TypeOK'
<1> SUFFICES ASSUME TypeOK, [Next]_vars
             PROVE  TypeOK'
    OBVIOUS
<1>0. /\ clock \in Nat \ {0} /\ accounts \subseteq used
      /\ users \in [Ids -> Row] /\ used \subseteq Ids
      /\ pc \in [Workers -> PcState] /\ local \in [Workers -> Work]
      /\ issued \in Seq(TokenIssued) /\ lastSet \in [Ids -> Passwords]
      /\ spent \subseteq Tokens /\ loggedOut \subseteq Ids
      /\ confirmed \subseteq Ids /\ overlapped \subseteq Ids
    BY DEF TypeOK, Work
<1>a. \A w \in Workers : /\ local[w].id \in {0} \cup Ids
                         /\ local[w].row \in Row
                         /\ local[w].row.password \in Passwords
    BY <1>0 DEF Work, Row
<1>b. /\ clock + RefreshTTL \in Nat /\ clock + ResetTTL \in Nat
      /\ \A id \in Ids : id \in Nat
      /\ Len(issued) + 1 \in Nat
    BY <1>0, AuthAssumption, LenProperties DEF Ids
<1>c. issued' = issued => Tokens' = Tokens
    BY DEF Tokens
<1>d. {"create", "login", "refresh", "forgot", "verify", "setPassword",
       "dropToken", "idle"} \subseteq PcState
    BY DEF PcState
<1>1. CASE UNCHANGED vars
    BY <1>1, <1>0, <1>c DEF vars, history, TypeOK, Work
<1>2. ASSUME NEW w \in Workers, NEW e \in Emails, NEW p \in Passwords,
             RegisterLookup(w, e, p)
      PROVE  TypeOK'
    <2>1. Begin(w, "create", 0, NewRow(e, p))
        BY <1>2 DEF RegisterLookup
    <2>2. pc' \in [Workers -> PcState] /\ local' \in [Workers -> Work]
        BY <2>1, <1>d, NewRowType, BeginEffect
    <2> QED
        BY <1>2, <2>2, <1>0, <1>c DEF RegisterLookup, history, TypeOK, Work
<1>3. ASSUME NEW w \in Workers, Create(w)
      PROVE  TypeOK'
    <2>1. pc' \in [Workers -> PcState] /\ local' \in [Workers -> Work]
        BY <1>3, EndEffect DEF Create
    <2>2. CASE EmailFree(local[w].row.email)
        <3>1. PICK id \in Ids \ used :
                /\ accounts' = accounts \cup {id}
                /\ used' = used \cup {id}
                /\ users' = [users EXCEPT ![id] = local[w].row]
                /\ lastSet' = [lastSet EXCEPT ![id] = local[w].row.password]
            BY <1>3, <2>2 DEF Create
        <3> QED
            BY <1>3, <2>1, <3>1, <1>0, <1>a, <1>c DEF Create, TypeOK, Work
    <2>3. CASE ~EmailFree(local[w].row.email)
        BY <1>3, <2>1, <2>3, <1>0, <1>c DEF Create, TypeOK, Work
    <2> QED
        BY <2>2, <2>3
<1>4. ASSUME NEW w \in Workers, NEW e \in Emails, NEW p \in Passwords,
             LoginRead(w, e, p)
      PROVE  TypeOK'
    <2>1. PICK id \in FindByEmail(e) :
            /\ Enter(id)
            /\ Draw(id, "refresh", clock + RefreshTTL)
            /\ Begin(w, "login", id,
                     [Loaded(id) EXCEPT !.refresh = Fresh,
                                        !.refreshExp = clock + RefreshTTL])
            /\ UNCHANGED <<clock, accounts, users, used, lastSet, spent,
                           loggedOut, confirmed>>
        BY <1>4 DEF LoginRead
    <2>2. id \in accounts /\ id \in Ids
        BY <1>0 DEF FindByEmail
    <2>3. Fresh \in Nat
        BY <1>b DEF Fresh
    <2>4. [Loaded(id) EXCEPT !.refresh = Fresh,
                             !.refreshExp = clock + RefreshTTL] \in Row
        BY <2>2, <2>3, <1>b, LoadedType, RefreshColumns
    <2>5. pc' \in [Workers -> PcState] /\ local' \in [Workers -> Work]
        BY <2>1, <2>2, <2>4, <1>d, BeginEffect
    <2>6. issued' \in Seq(TokenIssued) /\ Tokens \subseteq Tokens'
        BY <2>1, <2>2, <1>b, DrawEffect
    <2>7. overlapped' \subseteq Ids
        BY <2>1, <2>2, EnterEffect
    <2> QED
        BY <2>1, <2>5, <2>6, <2>7, <1>0 DEF TypeOK, Work
<1>5. ASSUME NEW w \in Workers, LoginWrite(w)
      PROVE  TypeOK'
    <2>1. pc' \in [Workers -> PcState] /\ local' \in [Workers -> Work]
        BY <1>5, EndEffect DEF LoginWrite
    <2>2. accounts' = accounts /\ users' \in [Ids -> Row]
        BY <1>5, UpdateEffect DEF LoginWrite
    <2> QED
        BY <1>5, <2>1, <2>2, <1>0, <1>c DEF LoginWrite, TypeOK, Work
<1>6. ASSUME NEW w \in Workers, NEW t \in Presented, RefreshRead(w, t)
      PROVE  TypeOK'
    <2>1. PICK id \in FindByRefreshToken(t) :
            /\ Enter(id)
            /\ Draw(id, "refresh", clock + RefreshTTL)
            /\ Begin(w, "refresh", id,
                     [LoadedForRefresh(id) EXCEPT
                          !.refresh = Fresh, !.refreshExp = clock + RefreshTTL])
            /\ UNCHANGED <<clock, accounts, users, used, lastSet, spent,
                           loggedOut, confirmed>>
        BY <1>6 DEF RefreshRead
    <2>2. id \in accounts /\ id \in Ids
        BY <1>0 DEF FindByRefreshToken
    <2>3. Fresh \in Nat
        BY <1>b DEF Fresh
    <2>4. [LoadedForRefresh(id) EXCEPT
               !.refresh = Fresh, !.refreshExp = clock + RefreshTTL] \in Row
        BY <2>2, <2>3, <1>b, LoadedType, RefreshColumns
    <2>5. pc' \in [Workers -> PcState] /\ local' \in [Workers -> Work]
        BY <2>1, <2>2, <2>4, <1>d, BeginEffect
    <2>6. issued' \in Seq(TokenIssued) /\ Tokens \subseteq Tokens'
        BY <2>1, <2>2, <1>b, DrawEffect
    <2>7. overlapped' \subseteq Ids
        BY <2>1, <2>2, EnterEffect
    <2> QED
        BY <2>1, <2>5, <2>6, <2>7, <1>0 DEF TypeOK, Work
<1>7. ASSUME NEW w \in Workers, RefreshWrite(w)
      PROVE  TypeOK'
    <2>1. pc' \in [Workers -> PcState] /\ local' \in [Workers -> Work]
        BY <1>7, EndEffect DEF RefreshWrite
    <2>2. accounts' = accounts /\ users' \in [Ids -> Row]
        BY <1>7, UpdateEffect DEF RefreshWrite
    <2> QED
        BY <1>7, <2>1, <2>2, <1>0, <1>c DEF RefreshWrite, TypeOK, Work
<1>8. ASSUME NEW w \in Workers, NEW e \in Emails, ForgotRead(w, e)
      PROVE  TypeOK'
    <2>1. PICK id \in FindByEmail(e) :
            /\ Enter(id)
            /\ Draw(id, "reset", clock + ResetTTL)
            /\ Begin(w, "forgot", id,
                     [Loaded(id) EXCEPT !.reset = Fresh,
                                        !.resetExp = clock + ResetTTL])
            /\ UNCHANGED <<clock, accounts, users, used, lastSet, spent,
                           loggedOut, confirmed>>
        BY <1>8 DEF ForgotRead
    <2>2. id \in accounts /\ id \in Ids
        BY <1>0 DEF FindByEmail
    <2>3. Fresh \in Nat
        BY <1>b DEF Fresh
    <2>4. [Loaded(id) EXCEPT !.reset = Fresh,
                             !.resetExp = clock + ResetTTL] \in Row
        BY <2>2, <2>3, <1>b, LoadedType, ResetColumns
    <2>5. pc' \in [Workers -> PcState] /\ local' \in [Workers -> Work]
        BY <2>1, <2>2, <2>4, <1>d, BeginEffect
    <2>6. issued' \in Seq(TokenIssued) /\ Tokens \subseteq Tokens'
        BY <2>1, <2>2, <1>b, DrawEffect
    <2>7. overlapped' \subseteq Ids
        BY <2>1, <2>2, EnterEffect
    <2> QED
        BY <2>1, <2>5, <2>6, <2>7, <1>0 DEF TypeOK, Work
<1>9. ASSUME NEW w \in Workers, ForgotWrite(w)
      PROVE  TypeOK'
    <2>1. pc' \in [Workers -> PcState] /\ local' \in [Workers -> Work]
        BY <1>9, EndEffect DEF ForgotWrite
    <2>2. accounts' = accounts /\ users' \in [Ids -> Row]
        BY <1>9, UpdateEffect DEF ForgotWrite
    <2> QED
        BY <1>9, <2>1, <2>2, <1>0, <1>c DEF ForgotWrite, TypeOK, Work
<1>10. ASSUME NEW w \in Workers, NEW t \in Presented, NEW p \in Passwords,
              ResetRead(w, t, p)
       PROVE  TypeOK'
    <2>1. PICK id \in FindByResetToken(t) :
            /\ Enter(id)
            /\ Begin(w, "setPassword", id, [BlankRow EXCEPT !.password = p])
            /\ UNCHANGED <<clock, accounts, users, used, issued, lastSet, spent,
                           loggedOut, confirmed>>
        BY <1>10 DEF ResetRead
    <2>2. id \in accounts /\ id \in Ids
        BY <1>0 DEF FindByResetToken
    <2>3. [BlankRow EXCEPT !.password = p] \in Row
        BY BlankRowType DEF Row
    <2>4. pc' \in [Workers -> PcState] /\ local' \in [Workers -> Work]
        BY <2>1, <2>2, <2>3, <1>d, BeginEffect
    <2>5. overlapped' \subseteq Ids
        BY <2>1, <2>2, EnterEffect
    <2> QED
        BY <2>1, <2>4, <2>5, <1>0, <1>c DEF TypeOK, Work
<1>11. ASSUME NEW w \in Workers, UpdatePassword(w)
       PROVE  TypeOK'
    <2>1. users' \in [Ids -> Row]
        BY <1>11, <1>0, <1>a DEF UpdatePassword, Row
    <2>2. lastSet' \in [Ids -> Passwords]
        BY <1>11, <1>0, <1>a DEF UpdatePassword
    <2>3. pc' \in [Workers -> PcState]
        BY <1>11, <1>0, <1>d DEF UpdatePassword
    <2> QED
        BY <1>11, <2>1, <2>2, <2>3, <1>0, <1>c DEF UpdatePassword, TypeOK, Work
<1>12. ASSUME NEW w \in Workers, DropResetToken(w)
       PROVE  TypeOK'
    <2>1. pc' \in [Workers -> PcState] /\ local' \in [Workers -> Work]
        BY <1>12, EndEffect DEF DropResetToken
    <2>2. \A r \in Row : WithoutResetToken(r) \in Row
        BY ResetTokenDropped
    <2>3. users' \in [Ids -> Row]
        BY <1>12, <2>2, <1>0 DEF DropResetToken
    <2> QED
        BY <1>12, <2>1, <2>3, <1>0, <1>c DEF DropResetToken, TypeOK, Work
<1>13. ASSUME NEW w \in Workers, NEW e \in Emails, VerifyRead(w, e)
       PROVE  TypeOK'
    <2>1. PICK id \in FindByEmail(e) :
            /\ Enter(id)
            /\ Begin(w, "verify", id, [Loaded(id) EXCEPT !.verified = TRUE])
            /\ UNCHANGED <<clock, accounts, users, used, issued, lastSet, spent,
                           loggedOut, confirmed>>
        BY <1>13 DEF VerifyRead
    <2>2. id \in accounts /\ id \in Ids
        BY <1>0 DEF FindByEmail
    <2>3. [Loaded(id) EXCEPT !.verified = TRUE] \in Row
        BY <2>2, LoadedType DEF Row
    <2>4. pc' \in [Workers -> PcState] /\ local' \in [Workers -> Work]
        BY <2>1, <2>2, <2>3, <1>d, BeginEffect
    <2>5. overlapped' \subseteq Ids
        BY <2>1, <2>2, EnterEffect
    <2> QED
        BY <2>1, <2>4, <2>5, <1>0, <1>c DEF TypeOK, Work
<1>14. ASSUME NEW w \in Workers, VerifyWrite(w)
       PROVE  TypeOK'
    <2>1. pc' \in [Workers -> PcState] /\ local' \in [Workers -> Work]
        BY <1>14, EndEffect DEF VerifyWrite
    <2>2. accounts' = accounts /\ users' \in [Ids -> Row]
        BY <1>14, UpdateEffect DEF VerifyWrite
    <2> QED
        BY <1>14, <2>1, <2>2, <1>0, <1>c DEF VerifyWrite, TypeOK, Work
<1>15. ASSUME NEW w \in Workers, Abandon(w)
       PROVE  TypeOK'
    <2>1. pc' \in [Workers -> PcState] /\ local' \in [Workers -> Work]
        BY <1>15, EndEffect DEF Abandon
    <2> QED
        BY <1>15, <2>1, <1>0, <1>c DEF Abandon, history, TypeOK, Work
<1>16. ASSUME NEW id \in Ids, Logout(id)
       PROVE  TypeOK'
    <2>1. overlapped' \subseteq Ids
        BY <1>16, EnterEffect DEF Logout
    <2>2. \A r \in Row : WithoutRefreshToken(r) \in Row
        BY RefreshTokenDropped
    <2>3. users' \in [Ids -> Row]
        BY <1>16, <2>2, <1>0 DEF Logout
    <2> QED
        BY <1>16, <2>1, <2>3, <1>0, <1>c DEF Logout, TypeOK, Work
<1>17. ASSUME NEW id \in Ids, DeleteAccount(id)
       PROVE  TypeOK'
    BY <1>17, BlankRowType, <1>0, <1>c DEF DeleteAccount, TypeOK, Work
<1>18. CASE Tick
    BY <1>18, <1>0, <1>c DEF Tick, history, TypeOK, Work
<1> QED
    BY <1>1, <1>2, <1>3, <1>4, <1>5, <1>6, <1>7, <1>8, <1>9, <1>10, <1>11,
       <1>12, <1>13, <1>14, <1>15, <1>16, <1>17, <1>18 DEF Next, Request

\* Every column of every row and of every copy, in every reachable state.
THEOREM TypeCorrect == Spec => []TypeOK
<1> QED
    BY TypeInit, TypeStep, PTL DEF Spec

-----------------------------------------------------------------------------
(***************************************************************************)
(* Tokens.  The invariant follows a token from the moment it is drawn into *)
(* a copy, through the row the copy is written to, into later copies.  An  *)
(* expiry is that of the token beside it, or 0 when there is none.         *)
(***************************************************************************)
SoundToken(log, id, kind, t, exp) ==
    /\ t <= Len(log)
    /\ IF t < 1 THEN exp = 0
                ELSE log[t] = [id |-> id, kind |-> kind, exp |-> exp]

Sound(log, id, row) ==
    /\ SoundToken(log, id, "refresh", row.refresh, row.refreshExp)
    /\ SoundToken(log, id, "reset", row.reset, row.resetExp)

RowsSound == \A id \in accounts : Sound(issued, id, users[id])

CopiesSound ==
    \A w \in Workers :
        /\ Sound(issued, local[w].id, local[w].row)
        /\ pc[w] = "create" =>
              local[w].row.refresh = Null /\ local[w].row.reset = Null

TokenInv == RowsSound /\ CopiesSound

\* The record of tokens only grows.
Grown(log, log2) ==
    /\ Len(log) \in Nat /\ Len(log2) \in Nat
    /\ Len(log) <= Len(log2)
    /\ \A t \in 1 .. Len(log) : log2[t] = log[t]

LEMMA SoundKept ==
    ASSUME NEW log, NEW log2, Grown(log, log2),
           NEW id, NEW row \in Row, Sound(log, id, row)
    PROVE  Sound(log2, id, row)
<1>1. row.refresh \in Int /\ row.reset \in Int
    BY DEF Row, Null
<1>2. ASSUME NEW kind, NEW t \in Int, NEW exp, SoundToken(log, id, kind, t, exp)
      PROVE  SoundToken(log2, id, kind, t, exp)
    <2>1. CASE t < 1
        BY <1>2, <2>1 DEF SoundToken, Grown
    <2>2. CASE t >= 1
        BY <1>2, <2>2 DEF SoundToken, Grown
    <2> QED
        BY <2>1, <2>2
<1> QED
    BY <1>1, <1>2 DEF Sound

LEMMA SoundIfTokenless ==
    ASSUME TypeOK, NEW id, NEW row,
           row.refresh \in {Null, Empty}, row.refreshExp = 0,
           row.reset \in {Null, Empty}, row.resetExp = 0
    PROVE  Sound(issued, id, row)
<1>1. Len(issued) \in Nat
    BY LenProperties DEF TypeOK
<1> QED
    BY <1>1 DEF Sound, SoundToken, Null, Empty

LEMMA LogGrows ==
    ASSUME TypeOK
    PROVE  /\ issued' = issued => Grown(issued, issued')
           /\ \A id \in Nat, kind \in {"refresh", "reset"}, exp \in Nat :
                 Draw(id, kind, exp) =>
                    /\ Grown(issued, issued')
                    /\ SoundToken(issued', id, kind, Fresh, exp)
<1>1. Len(issued) \in Nat
    BY LenProperties DEF TypeOK
<1>2. issued' = issued => Grown(issued, issued')
    BY <1>1 DEF Grown
<1>3. ASSUME NEW id \in Nat, NEW kind \in {"refresh", "reset"}, NEW exp \in Nat,
             Draw(id, kind, exp)
      PROVE  Grown(issued, issued') /\ SoundToken(issued', id, kind, Fresh, exp)
    <2>1. /\ Len(issued') = Len(issued) + 1 /\ Fresh = Len(issued) + 1
          /\ \A t \in 1 .. Len(issued) : issued'[t] = issued[t]
          /\ issued'[Fresh] = [id |-> id, kind |-> kind, exp |-> exp]
        BY <1>3, DrawEffect DEF Tokens
    <2> QED
        BY <1>1, <2>1 DEF Grown, SoundToken
<1> QED
    BY <1>2, <1>3

LEMMA RowsKeptSound ==
    ASSUME TypeOK, RowsSound, Grown(issued, issued'),
           accounts' = accounts, users' = users
    PROVE  RowsSound'
<1>1. \A id \in accounts : users[id] \in Row
    BY DEF TypeOK
<1> QED
    BY <1>1, SoundKept DEF RowsSound

LEMMA RowsUpdatedSound ==
    ASSUME TypeOK, TokenInv, issued' = issued,
           NEW w \in Workers, Update(local[w])
    PROVE  RowsSound'
<1> SUFFICES ASSUME NEW id \in accounts'
             PROVE  Sound(issued, id, users'[id])
    BY DEF RowsSound
<1>1. id \in accounts /\ id \in Ids
    BY UpdateEffect DEF TypeOK
<1>2. CASE id = local[w].id
    <2>1. /\ users'[id].refresh = local[w].row.refresh
          /\ users'[id].refreshExp = local[w].row.refreshExp
          /\ users'[id].reset = local[w].row.reset
          /\ users'[id].resetExp = local[w].row.resetExp
        BY <1>1, <1>2, UpdateEffect
    <2> QED
        BY <1>2, <2>1 DEF TokenInv, CopiesSound, Sound
<1>3. CASE id # local[w].id
    <2>1. users'[id] = users[id]
        BY <1>1, <1>3, UpdateEffect
    <2> QED
        BY <1>1, <2>1 DEF TokenInv, RowsSound
<1> QED
    BY <1>2, <1>3

LEMMA CopyEndedSound ==
    ASSUME TypeOK, CopiesSound, issued' = issued, NEW w \in Workers, End(w)
    PROVE  CopiesSound'
<1>1. Sound(issued, local'[w].id, local'[w].row) /\ pc'[w] # "create"
    BY EndEffect, BlankRowType, SoundIfTokenless
<1>2. \A v \in Workers : v # w => pc'[v] = pc[v] /\ local'[v] = local[v]
    BY EndEffect
<1> QED
    BY <1>1, <1>2 DEF CopiesSound

LEMMA CopyBegunSound ==
    ASSUME TypeOK, CopiesSound, Grown(issued, issued'),
           NEW w \in Workers, NEW step \in PcState,
           NEW id \in {0} \cup Ids, NEW row \in Row, Begin(w, step, id, row),
           Sound(issued', id, row),
           step = "create" => row.refresh = Null /\ row.reset = Null
    PROVE  CopiesSound'
<1>1. /\ pc'[w] = step /\ local'[w].id = id /\ local'[w].row = row
      /\ \A v \in Workers : v # w => pc'[v] = pc[v] /\ local'[v] = local[v]
    BY BeginEffect
<1>2. \A v \in Workers : local[v].row \in Row
    BY DEF TypeOK
<1>3. ASSUME NEW v \in Workers, v # w
      PROVE  Sound(issued', local'[v].id, local'[v].row)
    BY <1>1, <1>2, <1>3, SoundKept DEF CopiesSound
<1> QED
    BY <1>1, <1>3 DEF CopiesSound

\* A row as it is scanned carries the row's tokens, or none.
LEMMA LoadedSound ==
    ASSUME TypeOK, RowsSound, NEW id \in accounts
    PROVE  /\ Sound(issued, id, Loaded(id))
           /\ Sound(issued, id, LoadedForRefresh(id))
<1>1. Len(issued) \in Nat
    BY LenProperties DEF TypeOK
<1>2. Sound(issued, id, users[id])
    BY DEF RowsSound
<1>3. Sound(issued, id, LoadedForRefresh(id))
    BY <1>1, <1>2, LoadedType DEF Sound, SoundToken, Empty
<1>4. ASSUME NEW kind, NEW t \in Int, NEW exp,
             SoundToken(issued, id, kind, t, exp)
      PROVE  SoundToken(issued, id, kind, OrEmpty(t), exp)
    BY <1>1, <1>4 DEF SoundToken, OrEmpty, Null, Empty
<1>5. users[id].refresh \in Int /\ users[id].reset \in Int
    BY LoadedType DEF Row, Null
<1>6. Sound(issued, id, Loaded(id))
    BY <1>2, <1>4, <1>5, LoadedType DEF Sound
<1> QED
    BY <1>3, <1>6

LEMMA TokenInit == Init => TokenInv
<1> SUFFICES ASSUME Init
             PROVE  TokenInv
    OBVIOUS
<1>1. TypeOK
    BY TypeInit
<1>2. \A w \in Workers : /\ local[w].id = 0 /\ local[w].row = BlankRow
                         /\ pc[w] = "idle"
    BY BlankRowType DEF Init
<1> QED
    BY <1>1, <1>2, BlankRowType, SoundIfTokenless
       DEF Init, TokenInv, RowsSound, CopiesSound

LEMMA TokenStep == TypeOK /\ TokenInv /\ [Next]_vars => TokenInv'
<1> SUFFICES ASSUME TypeOK, TokenInv, [Next]_vars
             PROVE  TokenInv'
    OBVIOUS
<1>a. /\ clock \in Nat /\ accounts \subseteq Ids /\ Len(issued) \in Nat
      /\ RowsSound /\ CopiesSound /\ users \in [Ids -> Row]
    BY LenProperties DEF TypeOK, TokenInv
<1>b. issued' = issued => Grown(issued, issued')
    BY LogGrows
<1>d. {"create", "login", "refresh", "forgot", "verify", "setPassword"}
        \subseteq PcState
    BY DEF PcState
<1>1. CASE UNCHANGED vars
    BY <1>1 DEF vars, history, TokenInv, RowsSound, CopiesSound
<1>2. ASSUME NEW w \in Workers, NEW e \in Emails, NEW p \in Passwords,
             RegisterLookup(w, e, p)
      PROVE  TokenInv'
    <2>1. /\ Begin(w, "create", 0, NewRow(e, p))
          /\ issued' = issued /\ users' = users /\ accounts' = accounts
        BY <1>2 DEF RegisterLookup, history
    <2>2. Sound(issued', 0, NewRow(e, p))
        BY <2>1, NewRowType, SoundIfTokenless
    <2>3. CopiesSound'
        BY <2>1, <2>2, <1>a, <1>b, <1>d, NewRowType, CopyBegunSound
    <2> QED
        BY <2>1, <2>3, <1>a, <1>b, RowsKeptSound DEF TokenInv
<1>3. ASSUME NEW w \in Workers, Create(w)
      PROVE  TokenInv'
    <2>1. CopiesSound'
        BY <1>3, <1>a, CopyEndedSound DEF Create
    <2>2. CASE EmailFree(local[w].row.email)
        <3>1. PICK id \in Ids \ used :
                /\ accounts' = accounts \cup {id}
                /\ users' = [users EXCEPT ![id] = local[w].row]
            BY <1>3, <2>2 DEF Create
        <3>2. users'[id] = local[w].row
            BY <3>1, <1>a
        <3>3. /\ local[w].row.refresh = Null /\ local[w].row.reset = Null
              /\ Sound(issued, local[w].id, local[w].row)
            BY <1>3, <1>a DEF Create, CopiesSound
        <3>4. Sound(issued, id, users'[id])
            BY <3>2, <3>3 DEF Sound, SoundToken, Null
        <3>5. \A i \in accounts : i # id => users'[i] = users[i]
            BY <3>1, <1>a
        <3>6. issued' = issued
            BY <1>3 DEF Create
        <3> QED
            BY <2>1, <3>1, <3>4, <3>5, <3>6, <1>a DEF TokenInv, RowsSound
    <2>3. CASE ~EmailFree(local[w].row.email)
        BY <1>3, <2>1, <2>3, <1>a DEF Create, TokenInv, RowsSound
    <2> QED
        BY <2>2, <2>3
<1>4. ASSUME NEW w \in Workers, NEW e \in Emails, NEW p \in Passwords, LoginRead(w, e, p)
      PROVE  TokenInv'
    <2> DEFINE exp == clock + RefreshTTL
    <2>1. PICK id \in FindByEmail(e) :
            /\ Draw(id, "refresh", exp)
            /\ Begin(w, "login", id,
                     [Loaded(id) EXCEPT !.refresh = Fresh, !.refreshExp = exp])
        BY <1>4 DEF LoginRead
    <2>2. users' = users /\ accounts' = accounts
        BY <1>4 DEF LoginRead
    <2> DEFINE row == [Loaded(id) EXCEPT !.refresh = Fresh, !.refreshExp = exp]
    <2>3. id \in accounts /\ id \in Ids /\ id \in Nat /\ exp \in Nat
        BY <1>a, AuthAssumption DEF FindByEmail, Ids
    <2>4. Fresh \in Nat /\ Loaded(id) \in Row
        BY <1>a, <2>3, LoadedType DEF Fresh
    <2> HIDE DEF exp
    <2>5. /\ row \in Row
          /\ row.refresh = Fresh /\ row.refreshExp = exp
          /\ row.reset = Loaded(id).reset
          /\ row.resetExp = Loaded(id).resetExp
        BY <2>3, <2>4 DEF Row
    <2> HIDE DEF row
    <2>6. Grown(issued, issued') /\ SoundToken(issued', id, "refresh", Fresh, exp)
        BY <2>1, <2>3, LogGrows
    <2>7. Sound(issued', id, Loaded(id))
        BY <1>a, <2>3, <2>4, <2>6, LoadedSound, SoundKept
    <2>8. Sound(issued', id, row)
        BY <2>5, <2>6, <2>7 DEF Sound
    <2>9. Begin(w, "login", id, row)
        BY <2>1 DEF row
    <2>10. CopiesSound'
        BY <1>a, <1>d, <2>3, <2>5, <2>6, <2>8, <2>9, CopyBegunSound
    <2> QED
        BY <1>a, <2>2, <2>6, <2>10, RowsKeptSound DEF TokenInv
<1>5. ASSUME NEW w \in Workers, LoginWrite(w)
      PROVE  TokenInv'
    BY <1>5, CopyEndedSound, RowsUpdatedSound DEF LoginWrite, TokenInv
<1>6. ASSUME NEW w \in Workers, NEW t \in Presented, RefreshRead(w, t)
      PROVE  TokenInv'
    <2> DEFINE exp == clock + RefreshTTL
    <2>1. PICK id \in FindByRefreshToken(t) :
            /\ Draw(id, "refresh", exp)
            /\ Begin(w, "refresh", id,
                     [LoadedForRefresh(id) EXCEPT !.refresh = Fresh, !.refreshExp = exp])
        BY <1>6 DEF RefreshRead
    <2>2. users' = users /\ accounts' = accounts
        BY <1>6 DEF RefreshRead
    <2> DEFINE row == [LoadedForRefresh(id) EXCEPT !.refresh = Fresh, !.refreshExp = exp]
    <2>3. id \in accounts /\ id \in Ids /\ id \in Nat /\ exp \in Nat
        BY <1>a, AuthAssumption DEF FindByRefreshToken, Ids
    <2>4. Fresh \in Nat /\ LoadedForRefresh(id) \in Row
        BY <1>a, <2>3, LoadedType DEF Fresh
    <2> HIDE DEF exp
    <2>5. /\ row \in Row
          /\ row.refresh = Fresh /\ row.refreshExp = exp
          /\ row.reset = LoadedForRefresh(id).reset
          /\ row.resetExp = LoadedForRefresh(id).resetExp
        BY <2>3, <2>4 DEF Row
    <2> HIDE DEF row
    <2>6. Grown(issued, issued') /\ SoundToken(issued', id, "refresh", Fresh, exp)
        BY <2>1, <2>3, LogGrows
    <2>7. Sound(issued', id, LoadedForRefresh(id))
        BY <1>a, <2>3, <2>4, <2>6, LoadedSound, SoundKept
    <2>8. Sound(issued', id, row)
        BY <2>5, <2>6, <2>7 DEF Sound
    <2>9. Begin(w, "refresh", id, row)
        BY <2>1 DEF row
    <2>10. CopiesSound'
        BY <1>a, <1>d, <2>3, <2>5, <2>6, <2>8, <2>9, CopyBegunSound
    <2> QED
        BY <1>a, <2>2, <2>6, <2>10, RowsKeptSound DEF TokenInv
<1>7. ASSUME NEW w \in Workers, RefreshWrite(w)
      PROVE  TokenInv'
    BY <1>7, CopyEndedSound, RowsUpdatedSound DEF RefreshWrite, TokenInv
<1>8. ASSUME NEW w \in Workers, NEW e \in Emails, ForgotRead(w, e)
      PROVE  TokenInv'
    <2> DEFINE exp == clock + ResetTTL
    <2>1. PICK id \in FindByEmail(e) :
            /\ Draw(id, "reset", exp)
            /\ Begin(w, "forgot", id,
                     [Loaded(id) EXCEPT !.reset = Fresh, !.resetExp = exp])
        BY <1>8 DEF ForgotRead
    <2>2. users' = users /\ accounts' = accounts
        BY <1>8 DEF ForgotRead
    <2> DEFINE row == [Loaded(id) EXCEPT !.reset = Fresh, !.resetExp = exp]
    <2>3. id \in accounts /\ id \in Ids /\ id \in Nat /\ exp \in Nat
        BY <1>a, AuthAssumption DEF FindByEmail, Ids
    <2>4. Fresh \in Nat /\ Loaded(id) \in Row
        BY <1>a, <2>3, LoadedType DEF Fresh
    <2> HIDE DEF exp
    <2>5. /\ row \in Row
          /\ row.reset = Fresh /\ row.resetExp = exp
          /\ row.refresh = Loaded(id).refresh
          /\ row.refreshExp = Loaded(id).refreshExp
        BY <2>3, <2>4 DEF Row
    <2> HIDE DEF row
    <2>6. Grown(issued, issued') /\ SoundToken(issued', id, "reset", Fresh, exp)
        BY <2>1, <2>3, LogGrows
    <2>7. Sound(issued', id, Loaded(id))
        BY <1>a, <2>3, <2>4, <2>6, LoadedSound, SoundKept
    <2>8. Sound(issued', id, row)
        BY <2>5, <2>6, <2>7 DEF Sound
    <2>9. Begin(w, "forgot", id, row)
        BY <2>1 DEF row
    <2>10. CopiesSound'
        BY <1>a, <1>d, <2>3, <2>5, <2>6, <2>8, <2>9, CopyBegunSound
    <2> QED
        BY <1>a, <2>2, <2>6, <2>10, RowsKeptSound DEF TokenInv
<1>9. ASSUME NEW w \in Workers, ForgotWrite(w)
      PROVE  TokenInv'
    BY <1>9, CopyEndedSound, RowsUpdatedSound DEF ForgotWrite, TokenInv
<1>10. ASSUME NEW w \in Workers, NEW t \in Presented, NEW p \in Passwords,
              ResetRead(w, t, p)
       PROVE  TokenInv'
    <2> DEFINE row == [BlankRow EXCEPT !.password = p]
    <2>1. PICK id \in FindByResetToken(t) : Begin(w, "setPassword", id, row)
        BY <1>10 DEF ResetRead
    <2>2. issued' = issued /\ users' = users /\ accounts' = accounts
        BY <1>10 DEF ResetRead
    <2>3. id \in Ids
        BY <1>a DEF FindByResetToken
    <2>4. /\ row \in Row
          /\ row.refresh = Null /\ row.refreshExp = 0
          /\ row.reset = Null /\ row.resetExp = 0
        BY BlankRowType DEF Row
    <2> HIDE DEF row
    <2>5. Sound(issued', id, row)
        BY <2>2, <2>4, SoundIfTokenless
    <2>6. CopiesSound'
        BY <2>1, <2>2, <2>3, <2>4, <2>5, <1>a, <1>b, <1>d, CopyBegunSound
    <2> QED
        BY <2>2, <2>6, <1>a, <1>b, RowsKeptSound DEF TokenInv
<1>11. ASSUME NEW w \in Workers, UpdatePassword(w)
       PROVE  TokenInv'
    <2>1. \A i \in Ids : /\ users'[i].refresh = users[i].refresh
                         /\ users'[i].refreshExp = users[i].refreshExp
                         /\ users'[i].reset = users[i].reset
                         /\ users'[i].resetExp = users[i].resetExp
        BY <1>11, <1>a DEF UpdatePassword, Row
    <2>2. RowsSound'
        BY <1>11, <2>1, <1>a DEF UpdatePassword, RowsSound, Sound
    <2>3. pc \in [Workers -> PcState]
        BY DEF TypeOK
    <2>4. CopiesSound'
        BY <1>11, <2>3, <1>a DEF UpdatePassword, CopiesSound
    <2> QED
        BY <2>2, <2>4 DEF TokenInv
<1>12. ASSUME NEW w \in Workers, DropResetToken(w)
       PROVE  TokenInv'
    <2>1. \A r \in Row : /\ WithoutResetToken(r).refresh = r.refresh
                         /\ WithoutResetToken(r).refreshExp = r.refreshExp
                         /\ WithoutResetToken(r).reset = Empty
                         /\ WithoutResetToken(r).resetExp = 0
        BY ResetTokenDropped
    <2>2. ASSUME NEW i \in accounts
          PROVE  Sound(issued, i, users'[i])
        <3>1. Sound(issued, i, users[i]) /\ users[i] \in Row
            BY <1>a DEF RowsSound
        <3>2. users'[i] \in {users[i], WithoutResetToken(users[i])}
            BY <1>12, <1>a DEF DropResetToken
        <3> QED
            BY <2>1, <3>1, <3>2, <1>a DEF Sound, SoundToken, Empty
    <2>3. CopiesSound'
        BY <1>12, <1>a, CopyEndedSound DEF DropResetToken
    <2> QED
        BY <1>12, <2>2, <2>3 DEF DropResetToken, TokenInv, RowsSound
<1>13. ASSUME NEW w \in Workers, NEW e \in Emails, VerifyRead(w, e)
       PROVE  TokenInv'
    <2>1. PICK id \in FindByEmail(e) :
            Begin(w, "verify", id, [Loaded(id) EXCEPT !.verified = TRUE])
        BY <1>13 DEF VerifyRead
    <2>2. issued' = issued /\ users' = users /\ accounts' = accounts
        BY <1>13 DEF VerifyRead
    <2> DEFINE row == [Loaded(id) EXCEPT !.verified = TRUE]
    <2>3. id \in accounts /\ id \in Ids
        BY <1>a DEF FindByEmail
    <2>4. /\ row \in Row
          /\ row.refresh = Loaded(id).refresh
          /\ row.refreshExp = Loaded(id).refreshExp
          /\ row.reset = Loaded(id).reset
          /\ row.resetExp = Loaded(id).resetExp
        BY <2>3, LoadedType DEF Row
    <2> HIDE DEF row
    <2>5. Sound(issued', id, row)
        BY <2>2, <2>3, <2>4, <1>a, LoadedSound DEF Sound
    <2>6. Begin(w, "verify", id, row)
        BY <2>1 DEF row
    <2>7. CopiesSound'
        BY <2>2, <2>3, <2>4, <2>5, <2>6, <1>a, <1>b, <1>d, CopyBegunSound
    <2> QED
        BY <2>2, <2>7, <1>a, <1>b, RowsKeptSound DEF TokenInv
<1>14. ASSUME NEW w \in Workers, VerifyWrite(w)
      PROVE  TokenInv'
    BY <1>14, CopyEndedSound, RowsUpdatedSound DEF VerifyWrite, TokenInv
<1>15. ASSUME NEW w \in Workers, Abandon(w)
       PROVE  TokenInv'
    <2>1. issued' = issued /\ users' = users /\ accounts' = accounts
        BY <1>15 DEF Abandon, history
    <2>2. CopiesSound'
        BY <1>15, <2>1, <1>a, CopyEndedSound DEF Abandon
    <2> QED
        BY <2>1, <2>2, <1>a, <1>b, RowsKeptSound DEF TokenInv
<1>16. ASSUME NEW id \in Ids, Logout(id)
       PROVE  TokenInv'
    <2>1. \A r \in Row : /\ WithoutRefreshToken(r).reset = r.reset
                         /\ WithoutRefreshToken(r).resetExp = r.resetExp
                         /\ WithoutRefreshToken(r).refresh = Empty
                         /\ WithoutRefreshToken(r).refreshExp = 0
        BY RefreshTokenDropped
    <2>2. ASSUME NEW i \in accounts
          PROVE  Sound(issued, i, users'[i])
        <3>1. Sound(issued, i, users[i]) /\ users[i] \in Row
            BY <1>a DEF RowsSound
        <3>2. users'[i] \in {users[i], WithoutRefreshToken(users[i])}
            BY <1>16, <1>a DEF Logout
        <3> QED
            BY <2>1, <3>1, <3>2, <1>a DEF Sound, SoundToken, Empty
    <2> QED
        BY <1>16, <2>2, <1>a DEF Logout, TokenInv, RowsSound, CopiesSound
<1>17. ASSUME NEW id \in Ids, DeleteAccount(id)
       PROVE  TokenInv'
    BY <1>17, <1>a DEF DeleteAccount, TokenInv, RowsSound, CopiesSound
<1>18. CASE Tick
    BY <1>18, <1>a DEF Tick, history, TokenInv, RowsSound, CopiesSound
<1> QED
    BY <1>1, <1>2, <1>3, <1>4, <1>5, <1>6, <1>7, <1>8, <1>9, <1>10, <1>11,
       <1>12, <1>13, <1>14, <1>15, <1>16, <1>17, <1>18 DEF Next, Request

(***************************************************************************)
(* Tokens are never mixed up, whatever stale copies are written back.      *)
(***************************************************************************)
THEOREM TokensIntact == Spec => []TokenIntegrity
<1>1. ASSUME TypeOK, TokenInv
      PROVE  TokenIntegrity
    BY <1>1 DEF TokenInv, RowsSound, CopiesSound, TokenIntegrity, TokensOf,
                DrawnFor, Sound, SoundToken, Tokens
<1> QED
    BY <1>1, TypeInit, TypeStep, TokenInit, TokenStep, PTL DEF Spec

-----------------------------------------------------------------------------
\* A request moves its own program counter only, and enters the two steps
\* that a token guards by showing the token.
LEMMA OwnPcOnly ==
    ASSUME NEW w \in Workers, Request(w)
    PROVE  \E step : pc' = [pc EXCEPT ![w] = step]
    BY DEF Request, RegisterLookup, Create, LoginRead, LoginWrite, RefreshRead,
           RefreshWrite, ForgotRead, ForgotWrite, ResetRead, UpdatePassword,
           DropResetToken, VerifyRead, VerifyWrite, Abandon, Begin, End

LEMMA GuardedSteps ==
    ASSUME TypeOK, NEW w \in Workers, Request(w), pc[w] = "idle"
    PROVE  /\ pc'[w] = "refresh" => \E t \in Presented : RefreshRead(w, t)
           /\ pc'[w] = "setPassword" =>
                 \E t \in Presented, p \in Passwords : ResetRead(w, t, p)
<1>0. pc \in [Workers -> PcState]
    BY DEF TypeOK
<1>1. ASSUME NEW e \in Emails, NEW p \in Passwords, RegisterLookup(w, e, p)
      PROVE  pc'[w] = "create"
    BY <1>0, <1>1 DEF RegisterLookup, Begin
<1>2. ASSUME NEW e \in Emails, NEW p \in Passwords, LoginRead(w, e, p)
      PROVE  pc'[w] = "login"
    BY <1>0, <1>2 DEF LoginRead, Begin
<1>3. ASSUME NEW t \in Presented, RefreshRead(w, t)
      PROVE  pc'[w] = "refresh"
    BY <1>0, <1>3 DEF RefreshRead, Begin
<1>4. ASSUME NEW e \in Emails, ForgotRead(w, e)
      PROVE  pc'[w] = "forgot"
    BY <1>0, <1>4 DEF ForgotRead, Begin
<1>5. ASSUME NEW t \in Presented, NEW p \in Passwords, ResetRead(w, t, p)
      PROVE  pc'[w] = "setPassword"
    BY <1>0, <1>5 DEF ResetRead, Begin
<1>6. ASSUME NEW e \in Emails, VerifyRead(w, e)
      PROVE  pc'[w] = "verify"
    BY <1>0, <1>6 DEF VerifyRead, Begin
<1>7. /\ ~Create(w) /\ ~LoginWrite(w) /\ ~RefreshWrite(w) /\ ~ForgotWrite(w)
      /\ ~UpdatePassword(w) /\ ~DropResetToken(w) /\ ~VerifyWrite(w)
      /\ ~Abandon(w)
    BY DEF Create, LoginWrite, RefreshWrite, ForgotWrite, UpdatePassword,
           DropResetToken, VerifyWrite, Abandon, Busy
<1> QED
    BY <1>1, <1>2, <1>3, <1>4, <1>5, <1>6, <1>7 DEF Request

(***************************************************************************)
(* Nobody extends a session or replaces a password without a token drawn   *)
(* for the account that has not expired.                                   *)
(***************************************************************************)
THEOREM LiveTokensOnly == Spec => AdmittedByLiveToken
<1> DEFINE Step(w) ==
        pc[w] = "idle" =>
           /\ pc'[w] = "refresh" => LiveToken(local'[w].id, "refresh")
           /\ pc'[w] = "setPassword" => LiveToken(local'[w].id, "reset")
<1>1. ASSUME TypeOK, TokenInv, [Next]_vars, NEW w \in Workers
      PROVE  Step(w)
    <2> SUFFICES ASSUME pc[w] = "idle"
                 PROVE  /\ pc'[w] = "refresh" =>
                              LiveToken(local'[w].id, "refresh")
                        /\ pc'[w] = "setPassword" =>
                              LiveToken(local'[w].id, "reset")
        OBVIOUS
    <2>0. pc \in [Workers -> PcState] /\ clock \in Nat \ {0}
          /\ local \in [Workers -> Work] /\ accounts \subseteq Ids
          /\ users \in [Ids -> Row] /\ RowsSound
        BY <1>1 DEF TypeOK, Work, TokenInv
    <2>1. ASSUME NEW t \in Presented, RefreshRead(w, t)
          PROVE  LiveToken(local'[w].id, "refresh")
        <3>1. PICK id \in FindByRefreshToken(t) :
                /\ ~Expired(users[id].refreshExp)
                /\ Begin(w, "refresh", id,
                         [LoadedForRefresh(id) EXCEPT
                              !.refresh = Fresh,
                              !.refreshExp = clock + RefreshTTL])
            BY <2>1 DEF RefreshRead
        <3>2. id \in accounts /\ users[id] \in Row /\ local'[w].id = id
            BY <2>0, <3>1 DEF FindByRefreshToken, Begin, Work
        <3>3. clock <= users[id].refreshExp /\ users[id].refreshExp # 0
            BY <2>0, <3>1, <3>2 DEF Expired, Row
        <3>4. SoundToken(issued, id, "refresh", users[id].refresh,
                         users[id].refreshExp)
            BY <2>0, <3>2 DEF RowsSound, Sound
        <3>5. Len(issued) \in Nat
            BY <1>1, LenProperties DEF TypeOK
        <3>6. users[id].refresh \in Tokens
            BY <3>2, <3>3, <3>4, <3>5 DEF Null, SoundToken, Tokens, Row
        <3>7. issued[users[id].refresh] =
                [id |-> id, kind |-> "refresh", exp |-> users[id].refreshExp]
            BY <3>4, <3>5, <3>6 DEF SoundToken, Tokens
        <3> QED
            BY <3>2, <3>3, <3>6, <3>7 DEF LiveToken
    <2>2. ASSUME NEW t \in Presented, NEW p \in Passwords, ResetRead(w, t, p)
          PROVE  LiveToken(local'[w].id, "reset")
        <3>1. PICK id \in FindByResetToken(t) :
                /\ ~Expired(users[id].resetExp)
                /\ Begin(w, "setPassword", id, [BlankRow EXCEPT !.password = p])
            BY <2>2 DEF ResetRead
        <3>2. id \in accounts /\ users[id] \in Row /\ local'[w].id = id
            BY <2>0, <3>1 DEF FindByResetToken, Begin, Work
        <3>3. clock <= users[id].resetExp /\ users[id].resetExp # 0
            BY <2>0, <3>1, <3>2 DEF Expired, Row
        <3>4. SoundToken(issued, id, "reset", users[id].reset,
                         users[id].resetExp)
            BY <2>0, <3>2 DEF RowsSound, Sound
        <3>5. Len(issued) \in Nat
            BY <1>1, LenProperties DEF TypeOK
        <3>6. users[id].reset \in Tokens
            BY <3>2, <3>3, <3>4, <3>5 DEF Null, SoundToken, Tokens, Row
        <3>7. issued[users[id].reset] =
                [id |-> id, kind |-> "reset", exp |-> users[id].resetExp]
            BY <3>4, <3>5, <3>6 DEF SoundToken, Tokens
        <3> QED
            BY <3>2, <3>3, <3>6, <3>7 DEF LiveToken
    <2>3. CASE Request(w)
        BY <1>1, <2>1, <2>2, <2>3, GuardedSteps
    <2>4. ASSUME NEW v \in Workers, v # w, Request(v)
          PROVE  pc'[w] = "idle"
        BY <2>0, <2>4, OwnPcOnly
    <2>5. CASE \/ \E id \in Ids : Logout(id) \/ DeleteAccount(id)
               \/ Tick
               \/ UNCHANGED vars
        BY <2>5 DEF Logout, DeleteAccount, Tick, vars
    <2> QED
        BY <1>1, <2>3, <2>4, <2>5 DEF Next
<1>2. TypeOK /\ TokenInv /\ [Next]_vars => \A w \in Workers : Step(w)
    BY <1>1
<1> QED
    BY <1>2, TypeInit, TypeStep, TokenInit, TokenStep, PTL
       DEF Spec, AdmittedByLiveToken

-----------------------------------------------------------------------------
(***************************************************************************)
(* Accounts and copies.  A request at work on an account holds its email;  *)
(* while requests on the account come one after the other there is one at  *)
(* most, and the copy it is going to write back holds the password of the  *)
(* row, which is the one chosen last.                                      *)
(***************************************************************************)
Writers == {"login", "refresh", "forgot", "verify"}

At(w, id) == Busy(w) /\ local[w].id = id

KnownIds == \A w \in Workers : local[w].id \in used \cup {0}

EmailsFixed ==
    \A w \in Workers, id \in accounts :
        At(w, id) /\ pc[w] \in Writers => local[w].row.email = users[id].email

OneAtATime ==
    \A id \in accounts \ overlapped, v, w \in Workers :
        At(v, id) /\ At(w, id) => v = w

PasswordsCopied ==
    \A id \in accounts \ overlapped, w \in Workers :
        At(w, id) /\ pc[w] \in Writers
            => local[w].row.password = users[id].password

WorkInv ==
    /\ KnownIds
    /\ EmailsFixed
    /\ OneAccountPerEmail
    /\ OneAtATime
    /\ PasswordsCopied
    /\ PasswordIsLastSet

LEMMA WorkInit == Init => WorkInv
<1> SUFFICES ASSUME Init
             PROVE  WorkInv
    OBVIOUS
<1>1. accounts = {} /\ \A w \in Workers : local[w].id = 0
    BY BlankRowType DEF Init
<1> QED
    BY <1>1 DEF WorkInv, KnownIds, EmailsFixed, OneAccountPerEmail, OneAtATime,
                PasswordsCopied, PasswordIsLastSet

\* A request comes to an account and takes a copy.
LEMMA BegunWork ==
    ASSUME TypeOK, WorkInv, NEW w \in Workers, NEW step \in PcState \ {"idle"},
           NEW id \in accounts, NEW row \in Row,
           Begin(w, step, id, row), Enter(id),
           UNCHANGED <<accounts, users, used, lastSet>>,
           step \in Writers => /\ row.email = users[id].email
                               /\ row.password = users[id].password
    PROVE  WorkInv'
<1>1. /\ id \in Ids /\ id \in used /\ accounts' = accounts /\ users' = users
      /\ used' = used /\ lastSet' = lastSet
    BY DEF TypeOK
<1>2. /\ pc'[w] = step /\ local'[w].id = id /\ local'[w].row = row
      /\ \A v \in Workers : v # w => pc'[v] = pc[v] /\ local'[v] = local[v]
    BY <1>1, BeginEffect
<1>3. /\ overlapped \subseteq overlapped'
      /\ id \notin overlapped' => \A v \in Workers : ~At(v, id)
    BY <1>1, EnterEffect DEF At
<1>4. \A v \in Workers : \A i : v # w => At(v, i)' = At(v, i)
    BY <1>2 DEF At, Busy
<1>5. \A i : At(w, i)' => i = id
    BY <1>2 DEF At
<1>6. KnownIds'
    BY <1>1, <1>2 DEF WorkInv, KnownIds
<1>7. EmailsFixed'
    <2> SUFFICES ASSUME NEW v \in Workers, NEW i \in accounts,
                        At(v, i)', pc'[v] \in Writers
                 PROVE  local'[v].row.email = users[i].email
        BY <1>1 DEF EmailsFixed
    <2>1. CASE v = w
        BY <2>1, <1>2, <1>5
    <2>2. CASE v # w
        BY <2>2, <1>2, <1>4 DEF WorkInv, EmailsFixed
    <2> QED
        BY <2>1, <2>2
<1>8. OneAtATime'
    <2> SUFFICES ASSUME NEW i \in accounts \ overlapped', NEW u \in Workers,
                        NEW v \in Workers, At(u, i)', At(v, i)'
                 PROVE  u = v
        BY <1>1 DEF OneAtATime
    <2>1. i \in accounts \ overlapped
        BY <1>3
    <2>2. CASE i = id
        BY <2>2, <1>3, <1>4
    <2>3. CASE i # id
        BY <2>1, <2>3, <1>4, <1>5 DEF WorkInv, OneAtATime
    <2> QED
        BY <2>2, <2>3
<1>9. PasswordsCopied'
    <2> SUFFICES ASSUME NEW i \in accounts \ overlapped', NEW v \in Workers,
                        At(v, i)', pc'[v] \in Writers
                 PROVE  local'[v].row.password = users[i].password
        BY <1>1 DEF PasswordsCopied
    <2>1. CASE v = w
        BY <2>1, <1>2, <1>5
    <2>2. CASE v # w
        BY <2>2, <1>2, <1>3, <1>4 DEF WorkInv, PasswordsCopied
    <2> QED
        BY <2>1, <2>2
<1>10. OneAccountPerEmail' /\ PasswordIsLastSet'
    BY <1>1, <1>3 DEF WorkInv, OneAccountPerEmail, PasswordIsLastSet
<1> QED
    BY <1>6, <1>7, <1>8, <1>9, <1>10 DEF WorkInv

\* A request ends without having touched a row.
LEMMA EndedWork ==
    ASSUME TypeOK, WorkInv, NEW w \in Workers, End(w),
           UNCHANGED <<accounts, users, used, lastSet, overlapped>>
    PROVE  WorkInv'
<1>1. /\ pc'[w] = "idle" /\ local'[w].id = 0
      /\ \A v \in Workers : v # w => pc'[v] = pc[v] /\ local'[v] = local[v]
    BY EndEffect, BlankRowType
<1>2. \A v \in Workers : \A i : At(v, i)' => v # w /\ At(v, i)
    BY <1>1 DEF At, Busy
<1> QED
    BY <1>1, <1>2 DEF WorkInv, KnownIds, EmailsFixed, OneAccountPerEmail,
                      OneAtATime, PasswordsCopied, PasswordIsLastSet

\* A request writes its copy back and ends.
LEMMA WrittenWork ==
    ASSUME TypeOK, WorkInv, NEW w \in Workers, pc[w] \in Writers,
           Update(local[w]), End(w), UNCHANGED <<used, lastSet, overlapped>>
    PROVE  WorkInv'
<1> DEFINE id == local[w].id
<1>1. /\ pc'[w] = "idle" /\ local'[w].id = 0
      /\ \A v \in Workers : v # w => pc'[v] = pc[v] /\ local'[v] = local[v]
    BY EndEffect, BlankRowType
<1>2. \A v \in Workers : \A i : At(v, i)' => v # w /\ At(v, i)
    BY <1>1 DEF At, Busy
<1>3. At(w, id)
    BY DEF At, Busy, Writers
<1>4. /\ accounts' = accounts /\ accounts \subseteq Ids
      /\ \A i \in accounts : i # id => users'[i] = users[i]
      /\ id \in accounts => /\ users'[id].email = local[w].row.email
                            /\ users'[id].password = local[w].row.password
    BY UpdateEffect DEF TypeOK
<1>5. \A i \in accounts : users'[i].email = users[i].email
    BY <1>3, <1>4 DEF WorkInv, EmailsFixed
<1>6. \A i \in accounts \ overlapped : users'[i].password = users[i].password
    BY <1>3, <1>4 DEF WorkInv, PasswordsCopied
<1>7. KnownIds'
    BY <1>1 DEF WorkInv, KnownIds
<1>8. EmailsFixed' /\ OneAccountPerEmail'
    BY <1>1, <1>2, <1>4, <1>5 DEF WorkInv, EmailsFixed, OneAccountPerEmail
<1>9. OneAtATime'
    BY <1>2, <1>4 DEF WorkInv, OneAtATime
<1>10. PasswordsCopied' /\ PasswordIsLastSet'
    BY <1>1, <1>2, <1>4, <1>6 DEF WorkInv, PasswordsCopied, PasswordIsLastSet
<1> QED
    BY <1>7, <1>8, <1>9, <1>10 DEF WorkInv

LEMMA WorkStep == TypeOK /\ WorkInv /\ [Next]_vars => WorkInv'
<1> SUFFICES ASSUME TypeOK, WorkInv, [Next]_vars
             PROVE  WorkInv'
    OBVIOUS
<1>a. /\ users \in [Ids -> Row] /\ accounts \subseteq used /\ used \subseteq Ids
      /\ lastSet \in [Ids -> Passwords] /\ pc \in [Workers -> PcState]
      /\ clock \in Nat /\ Len(issued) \in Nat
      /\ \A w \in Workers : local[w].row \in Row
    BY LenProperties DEF TypeOK
<1>b. {"login", "refresh", "forgot", "verify", "setPassword"}
        \subseteq PcState \ {"idle"}
    BY DEF PcState
<1>1. CASE UNCHANGED vars
    BY <1>1 DEF vars, history, WorkInv, KnownIds, EmailsFixed,
                OneAccountPerEmail, OneAtATime, PasswordsCopied,
                PasswordIsLastSet, At, Busy
<1>2. ASSUME NEW w \in Workers, NEW e \in Emails, NEW p \in Passwords,
             RegisterLookup(w, e, p)
      PROVE  WorkInv'
    <2>1. /\ Begin(w, "create", 0, NewRow(e, p))
          /\ UNCHANGED <<accounts, users, used, lastSet, overlapped>>
        BY <1>2 DEF RegisterLookup, history
    <2>2. /\ pc'[w] = "create" /\ local'[w].id = 0
          /\ \A v \in Workers : v # w => pc'[v] = pc[v] /\ local'[v] = local[v]
        BY <2>1, NewRowType, BeginEffect DEF PcState
    <2>3. 0 \notin accounts
        BY <1>a DEF Ids
    <2>4. \A v \in Workers, i \in accounts : At(v, i)' => v # w /\ At(v, i)
        BY <2>2, <2>3 DEF At, Busy
    <2> QED
        BY <2>1, <2>2, <2>4 DEF WorkInv, KnownIds, EmailsFixed,
           OneAccountPerEmail, OneAtATime, PasswordsCopied, PasswordIsLastSet
<1>3. ASSUME NEW w \in Workers, Create(w)
      PROVE  WorkInv'
    <2>1. CASE EmailFree(local[w].row.email)
        <3> DEFINE r == local[w].row
        <3>1. PICK id \in Ids \ used :
                /\ accounts' = accounts \cup {id}
                /\ used' = used \cup {id}
                /\ users' = [users EXCEPT ![id] = r]
                /\ lastSet' = [lastSet EXCEPT ![id] = r.password]
            BY <1>3, <2>1 DEF Create
        <3>2. /\ users'[id] = r /\ lastSet'[id] = r.password
              /\ \A i \in accounts : /\ i # id /\ users'[i] = users[i]
                                     /\ lastSet'[i] = lastSet[i]
            BY <3>1, <1>a
        <3>3. \A i \in accounts : users[i].email # r.email
            BY <2>1 DEF EmailFree, FindByEmail
        <3>4. /\ pc'[w] = "idle" /\ local'[w].id = 0 /\ overlapped' = overlapped
              /\ \A v \in Workers :
                    v # w => pc'[v] = pc[v] /\ local'[v] = local[v]
            BY <1>3, EndEffect, BlankRowType DEF Create
        <3>5. \A v \in Workers : local[v].id # id
            BY <3>1 DEF WorkInv, KnownIds, Ids
        <3>6. \A v \in Workers, i \in accounts' :
                At(v, i)' => v # w /\ i \in accounts /\ At(v, i)
            BY <3>1, <3>4, <3>5 DEF At, Busy
        <3>7. KnownIds'
            BY <3>1, <3>4 DEF WorkInv, KnownIds
        <3>8. EmailsFixed' /\ PasswordsCopied' /\ OneAtATime'
            BY <3>2, <3>4, <3>6
               DEF WorkInv, EmailsFixed, PasswordsCopied, OneAtATime
        <3>9. OneAccountPerEmail' /\ PasswordIsLastSet'
            BY <3>1, <3>2, <3>3, <3>4
               DEF WorkInv, OneAccountPerEmail, PasswordIsLastSet
        <3> QED
            BY <3>7, <3>8, <3>9 DEF WorkInv
    <2>2. CASE ~EmailFree(local[w].row.email)
        BY <1>3, <2>2, EndedWork DEF Create
    <2> QED
        BY <2>1, <2>2
<1>4. ASSUME NEW w \in Workers, NEW e \in Emails, NEW p \in Passwords,
             LoginRead(w, e, p)
      PROVE  WorkInv'
    <2>1. PICK id \in FindByEmail(e) :
            /\ Enter(id)
            /\ Draw(id, "refresh", clock + RefreshTTL)
            /\ Begin(w, "login", id,
                     [Loaded(id) EXCEPT !.refresh = Fresh,
                                        !.refreshExp = clock + RefreshTTL])
            /\ UNCHANGED <<clock, accounts, users, used, lastSet, spent,
                           loggedOut, confirmed>>
        BY <1>4 DEF LoginRead
    <2>2. id \in accounts
        BY DEF FindByEmail
    <2>3. clock + RefreshTTL \in Nat /\ Fresh \in Nat /\ Loaded(id) \in Row
        BY <2>2, <1>a, AuthAssumption, LoadedType DEF Fresh
    <2> DEFINE exp == clock + RefreshTTL
               row == [Loaded(id) EXCEPT !.refresh = Fresh, !.refreshExp = exp]
    <2> HIDE DEF exp
    <2>4. /\ row \in Row /\ row.email = Loaded(id).email
          /\ row.password = Loaded(id).password
        BY <2>3 DEF Row, exp
    <2> HIDE DEF row
    <2>5. Begin(w, "login", id, row)
        BY <2>1 DEF row, exp
    <2> QED
        BY <2>1, <2>2, <2>4, <2>5, <1>b, LoadedType, BegunWork
<1>5. ASSUME NEW w \in Workers, LoginWrite(w)
      PROVE  WorkInv'
    BY <1>5, WrittenWork DEF LoginWrite, Writers
<1>6. ASSUME NEW w \in Workers, NEW t \in Presented, RefreshRead(w, t)
      PROVE  WorkInv'
    <2>1. PICK id \in FindByRefreshToken(t) :
            /\ Enter(id)
            /\ Draw(id, "refresh", clock + RefreshTTL)
            /\ Begin(w, "refresh", id,
                     [LoadedForRefresh(id) EXCEPT
                          !.refresh = Fresh, !.refreshExp = clock + RefreshTTL])
            /\ UNCHANGED <<clock, accounts, users, used, lastSet, spent,
                           loggedOut, confirmed>>
        BY <1>6 DEF RefreshRead
    <2>2. id \in accounts
        BY DEF FindByRefreshToken
    <2>3. clock + RefreshTTL \in Nat /\ Fresh \in Nat /\ LoadedForRefresh(id) \in Row
        BY <2>2, <1>a, AuthAssumption, LoadedType DEF Fresh
    <2> DEFINE exp == clock + RefreshTTL
               row == [LoadedForRefresh(id) EXCEPT !.refresh = Fresh, !.refreshExp = exp]
    <2> HIDE DEF exp
    <2>4. /\ row \in Row /\ row.email = LoadedForRefresh(id).email
          /\ row.password = LoadedForRefresh(id).password
        BY <2>3 DEF Row, exp
    <2> HIDE DEF row
    <2>5. Begin(w, "refresh", id, row)
        BY <2>1 DEF row, exp
    <2> QED
        BY <2>1, <2>2, <2>4, <2>5, <1>b, LoadedType, BegunWork
<1>7. ASSUME NEW w \in Workers, RefreshWrite(w)
      PROVE  WorkInv'
    BY <1>7, WrittenWork DEF RefreshWrite, Writers
<1>8. ASSUME NEW w \in Workers, NEW e \in Emails, ForgotRead(w, e)
      PROVE  WorkInv'
    <2>1. PICK id \in FindByEmail(e) :
            /\ Enter(id)
            /\ Draw(id, "reset", clock + ResetTTL)
            /\ Begin(w, "forgot", id,
                     [Loaded(id) EXCEPT !.reset = Fresh,
                                        !.resetExp = clock + ResetTTL])
            /\ UNCHANGED <<clock, accounts, users, used, lastSet, spent,
                           loggedOut, confirmed>>
        BY <1>8 DEF ForgotRead
    <2>2. id \in accounts
        BY DEF FindByEmail
    <2>3. clock + ResetTTL \in Nat /\ Fresh \in Nat /\ Loaded(id) \in Row
        BY <2>2, <1>a, AuthAssumption, LoadedType DEF Fresh
    <2> DEFINE exp == clock + ResetTTL
               row == [Loaded(id) EXCEPT !.reset = Fresh, !.resetExp = exp]
    <2> HIDE DEF exp
    <2>4. /\ row \in Row /\ row.email = Loaded(id).email
          /\ row.password = Loaded(id).password
        BY <2>3 DEF Row, exp
    <2> HIDE DEF row
    <2>5. Begin(w, "forgot", id, row)
        BY <2>1 DEF row, exp
    <2> QED
        BY <2>1, <2>2, <2>4, <2>5, <1>b, LoadedType, BegunWork
<1>9. ASSUME NEW w \in Workers, ForgotWrite(w)
      PROVE  WorkInv'
    BY <1>9, WrittenWork DEF ForgotWrite, Writers
<1>10. ASSUME NEW w \in Workers, NEW t \in Presented, NEW p \in Passwords,
             ResetRead(w, t, p)
      PROVE  WorkInv'
    <2>1. PICK id \in FindByResetToken(t) :
            /\ Enter(id)
            /\ Begin(w, "setPassword", id,
                     [BlankRow EXCEPT !.password = p])
            /\ UNCHANGED <<clock, accounts, users, used, issued, lastSet, spent,
                           loggedOut, confirmed>>
        BY <1>10 DEF ResetRead
    <2>2. id \in accounts
        BY DEF FindByResetToken
    <2> DEFINE row == [BlankRow EXCEPT !.password = p]
    <2>4. row \in Row
        BY BlankRowType DEF Row
    <2> HIDE DEF row
    <2>5. Begin(w, "setPassword", id, row)
        BY <2>1 DEF row
    <2> QED
        BY <2>1, <2>2, <2>4, <2>5, <1>b, BegunWork DEF Writers
<1>11. ASSUME NEW w \in Workers, UpdatePassword(w)
       PROVE  WorkInv'
    <2> DEFINE id == local[w].id
               p  == local[w].row.password
    <2>1. /\ pc'[w] = "dropToken" /\ local' = local /\ overlapped' = overlapped
          /\ accounts' = accounts /\ used' = used /\ pc[w] = "setPassword"
          /\ \A v \in Workers : v # w => pc'[v] = pc[v]
        BY <1>11, <1>a DEF UpdatePassword
    <2>2. At(w, id) /\ \A v \in Workers : \A i : At(v, i)' = At(v, i)
        BY <2>1 DEF At, Busy
    <2>3. \A i \in accounts : /\ users'[i].email = users[i].email
                              /\ i # id => /\ users'[i] = users[i]
                                           /\ lastSet'[i] = lastSet[i]
                              /\ i = id => /\ users'[i].password = p
                                           /\ lastSet'[i] = p
        BY <1>11, <1>a DEF UpdatePassword, Row
    <2>4. KnownIds'
        BY <2>1 DEF WorkInv, KnownIds
    <2>5. EmailsFixed' /\ OneAccountPerEmail'
        BY <2>1, <2>2, <2>3 DEF WorkInv, EmailsFixed, OneAccountPerEmail, Writers
    <2>6. OneAtATime'
        BY <2>1, <2>2 DEF WorkInv, OneAtATime
    <2>7. PasswordsCopied'
        <3> SUFFICES ASSUME NEW i \in accounts \ overlapped, NEW v \in Workers,
                            At(v, i), pc'[v] \in Writers
                     PROVE  local[v].row.password = users'[i].password
            BY <2>1, <2>2 DEF PasswordsCopied
        <3>1. v # w
            BY <2>1 DEF Writers
        <3>2. i # id
            BY <2>2, <3>1 DEF WorkInv, OneAtATime
        <3> QED
            BY <2>1, <2>3, <3>1, <3>2 DEF WorkInv, PasswordsCopied
    <2>8. PasswordIsLastSet'
        BY <2>1, <2>3 DEF WorkInv, PasswordIsLastSet
    <2> QED
        BY <2>4, <2>5, <2>6, <2>7, <2>8 DEF WorkInv
<1>12. ASSUME NEW w \in Workers, DropResetToken(w)
       PROVE  WorkInv'
    <2>1. /\ pc'[w] = "idle" /\ local'[w].id = 0
          /\ \A v \in Workers : v # w => pc'[v] = pc[v] /\ local'[v] = local[v]
        BY <1>12, EndEffect, BlankRowType DEF DropResetToken
    <2>2. \A v \in Workers : \A i : At(v, i)' => v # w /\ At(v, i)
        BY <2>1 DEF At, Busy
    <2>3. /\ accounts' = accounts /\ used' = used /\ lastSet' = lastSet
          /\ overlapped' = overlapped
        BY <1>12 DEF DropResetToken
    <2>4. \A i \in accounts : /\ users'[i].email = users[i].email
                              /\ users'[i].password = users[i].password
        <3> TAKE i \in accounts
        <3>1. users'[i] \in {users[i], WithoutResetToken(users[i])}
            BY <1>12, <1>a DEF DropResetToken
        <3> QED
            BY <3>1, <1>a, ResetTokenDropped
    <2> QED
        BY <2>1, <2>2, <2>3, <2>4 DEF WorkInv, KnownIds, EmailsFixed,
           OneAccountPerEmail, OneAtATime, PasswordsCopied, PasswordIsLastSet
<1>13. ASSUME NEW w \in Workers, NEW e \in Emails, VerifyRead(w, e)
      PROVE  WorkInv'
    <2>1. PICK id \in FindByEmail(e) :
            /\ Enter(id)
            /\ Begin(w, "verify", id,
                     [Loaded(id) EXCEPT !.verified = TRUE])
            /\ UNCHANGED <<clock, accounts, users, used, issued, lastSet, spent,
                           loggedOut, confirmed>>
        BY <1>13 DEF VerifyRead
    <2>2. id \in accounts
        BY DEF FindByEmail
    <2> DEFINE row == [Loaded(id) EXCEPT !.verified = TRUE]
    <2>4. /\ row \in Row /\ row.email = Loaded(id).email
          /\ row.password = Loaded(id).password
        BY <2>2, LoadedType DEF Row
    <2> HIDE DEF row
    <2>5. Begin(w, "verify", id, row)
        BY <2>1 DEF row
    <2> QED
        BY <2>1, <2>2, <2>4, <2>5, <1>b, LoadedType, BegunWork
<1>14. ASSUME NEW w \in Workers, VerifyWrite(w)
      PROVE  WorkInv'
    BY <1>14, WrittenWork DEF VerifyWrite, Writers
<1>15. ASSUME NEW w \in Workers, Abandon(w)
       PROVE  WorkInv'
    BY <1>15, EndedWork DEF Abandon, history
<1>16. ASSUME NEW id \in Ids, Logout(id)
       PROVE  WorkInv'
    <2>1. /\ accounts' = accounts /\ used' = used /\ lastSet' = lastSet
          /\ pc' = pc /\ local' = local
        BY <1>16 DEF Logout
    <2>2. overlapped \subseteq overlapped'
        BY <1>16, EnterEffect DEF Logout
    <2>3. \A i \in accounts : /\ users'[i].email = users[i].email
                              /\ users'[i].password = users[i].password
        <3> TAKE i \in accounts
        <3>1. users'[i] \in {users[i], WithoutRefreshToken(users[i])}
            BY <1>16, <1>a DEF Logout
        <3> QED
            BY <3>1, <1>a, RefreshTokenDropped
    <2> QED
        BY <2>1, <2>2, <2>3 DEF WorkInv, KnownIds, EmailsFixed, At, Busy,
           OneAccountPerEmail, OneAtATime, PasswordsCopied, PasswordIsLastSet
<1>17. ASSUME NEW id \in Ids, DeleteAccount(id)
       PROVE  WorkInv'
    <2>1. /\ accounts' = accounts \ {id} /\ used' = used /\ pc' = pc
          /\ local' = local /\ overlapped' = overlapped \ {id}
        BY <1>17 DEF DeleteAccount
    <2>2. \A i \in accounts' : /\ i \in accounts
                               /\ i \notin overlapped' => i \notin overlapped
                               /\ users'[i] = users[i]
                               /\ lastSet'[i] = lastSet[i]
        BY <1>17, <1>a DEF DeleteAccount
    <2> QED
        BY <2>1, <2>2 DEF WorkInv, KnownIds, EmailsFixed, At, Busy,
           OneAccountPerEmail, OneAtATime, PasswordsCopied, PasswordIsLastSet
<1>18. CASE Tick
    BY <1>18 DEF Tick, history, WorkInv, KnownIds, EmailsFixed,
                 OneAccountPerEmail, OneAtATime, PasswordsCopied,
                 PasswordIsLastSet, At, Busy
<1> QED
    BY <1>1, <1>2, <1>3, <1>4, <1>5, <1>6, <1>7, <1>8, <1>9, <1>10, <1>11,
       <1>12, <1>13, <1>14, <1>15, <1>16, <1>17, <1>18 DEF Next, Request

(***************************************************************************)
(* The password is the one chosen last on every account whose requests     *)
(* never overlapped, whatever they were, and wherever they died.           *)
(***************************************************************************)
THEOREM PasswordNeverReverted == Spec => []PasswordIsLastSet
<1> QED
    BY TypeInit, TypeStep, WorkInit, WorkStep, PTL DEF Spec, WorkInv

\* Registrations that race for an email make one account.
THEOREM EmailsUnique == Spec => []OneAccountPerEmail
<1> QED
    BY TypeInit, TypeStep, WorkInit, WorkStep, PTL DEF Spec, WorkInv

(***************************************************************************)
(* An account that was deleted never has a row again: stale copies are     *)
(* written by UPDATEs, which match no row, and INSERTs take fresh ids.     *)
(***************************************************************************)
THEOREM DeletedForGood == Spec => DeletedStaysDeleted
<1> DEFINE Step == \A id \in used \ accounts : id \notin accounts'
<1>1. ASSUME [Next]_vars
      PROVE  Step
    <2>1. ASSUME NEW w \in Workers, Request(w)
          PROVE  Step
        <3>1. CASE Create(w)
            BY <3>1 DEF Create
        <3>2. CASE accounts' = accounts
            BY <3>2
        <3> QED
            BY <2>1, <3>1, <3>2
            DEF Request, RegisterLookup, LoginRead, LoginWrite, RefreshRead,
                RefreshWrite, ForgotRead, ForgotWrite, ResetRead,
                UpdatePassword, DropResetToken, VerifyRead, VerifyWrite,
                Abandon, Update, AccountsAfterUpdate
    <2>2. CASE \E id \in Ids : Logout(id) \/ DeleteAccount(id)
        BY <2>2 DEF Logout, DeleteAccount
    <2>3. CASE Tick \/ UNCHANGED vars
        BY <2>3 DEF Tick, vars
    <2> QED
        BY <1>1, <2>1, <2>2, <2>3 DEF Next
<1> HIDE DEF Step
<1>2. [Next]_vars => [Step]_vars
    BY <1>1
<1> QED
    BY <1>2, PTL DEF Spec, DeletedStaysDeleted, Step
=============================================================================
